---------------------------- MODULE CommandContract ----------------------------
(***************************************************************************)
(* What the command subsystem promises to its clients, without handlers,   *)
(* locks or transactions: a command walks the transition table once, its   *)
(* final outcome never changes, and clients are told only of statuses it   *)
(* has reached.                                                            *)
(***************************************************************************)
EXTENDS CommandStates

CONSTANT Commands

VARIABLES
    st,       \* the status of each command
    reached,  \* the statuses it has had
    told      \* the statuses someone was told it has had

cvars == <<st, reached, told>>

Init ==
    /\ st = [c \in Commands |-> Absent]
    /\ reached = [c \in Commands |-> {}]
    /\ told = [c \in Commands |-> {}]

Submit(c) ==
    /\ st[c] = Absent
    /\ st' = [st EXCEPT ![c] = "PENDING"]
    /\ reached' = [reached EXCEPT ![c] = {"PENDING"}]
    /\ UNCHANGED told

Advance(c, s) ==
    /\ s \in ValidTransitions(st[c])
    /\ st' = [st EXCEPT ![c] = s]
    /\ reached' = [reached EXCEPT ![c] = @ \cup {s}]
    /\ UNCHANGED told

\* The sweeper expires a set of commands in one transaction.
Expire(S) ==
    /\ \A c \in S : st[c] \in Status \ TerminalStates
    /\ st' = [c \in Commands |-> IF c \in S THEN "TIMEOUT" ELSE st[c]]
    /\ reached' = [c \in Commands |-> IF c \in S THEN reached[c] \cup {"TIMEOUT"}
                                      ELSE reached[c]]
    /\ UNCHANGED told

Tell(c, S) ==
    /\ S \subseteq reached[c]
    /\ told' = [told EXCEPT ![c] = @ \cup S]
    /\ UNCHANGED <<st, reached>>

Next ==
    \/ \E c \in Commands : \/ Submit(c)
                           \/ \E s \in Status : Advance(c, s)
                           \/ \E S \in SUBSET Status : Tell(c, S)
    \/ \E S \in SUBSET Commands : Expire(S)

Spec == Init /\ [][Next]_cvars
=============================================================================
