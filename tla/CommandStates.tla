----------------------------- MODULE CommandStates -----------------------------
(***************************************************************************)
(* The status values of a robot command, the transition table and the      *)
(* columns a transition writes (command_service.py).                       *)
(***************************************************************************)

TerminalStates == {"COMPLETED", "FAILED", "TIMEOUT", "CANCELLED"}

Status == {"PENDING", "DISPATCHED", "ACKNOWLEDGED", "EXECUTING"} \cup TerminalStates

\* The command has no row in the table.
Absent == "ABSENT"

\* VALID_TRANSITIONS.get(s, frozenset())
ValidTransitions(s) ==
    CASE s = "PENDING"      -> {"DISPATCHED", "CANCELLED", "TIMEOUT"}
      [] s = "DISPATCHED"   -> {"ACKNOWLEDGED", "FAILED", "CANCELLED", "TIMEOUT"}
      [] s = "ACKNOWLEDGED" -> {"EXECUTING", "FAILED", "TIMEOUT", "COMPLETED"}
      [] s = "EXECUTING"    -> {"COMPLETED", "FAILED", "TIMEOUT"}
      [] OTHER              -> {}

Stamp == {"dispatched_at", "acknowledged_at", "started_at", "completed_at"}

\* The timestamp columns _transition_values sets on the way to status s.
TransitionStamps(s) ==
    CASE s = "DISPATCHED"        -> {"dispatched_at"}
      [] s = "ACKNOWLEDGED"      -> {"acknowledged_at"}
      [] s = "EXECUTING"         -> {"started_at"}
      [] s \in TerminalStates    -> {"completed_at"}
      [] OTHER                   -> {}
=============================================================================
