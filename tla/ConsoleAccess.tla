----------------------------- MODULE ConsoleAccess -----------------------------
(***************************************************************************)
(* How a dashboard page gets to its live socket and sends commands: the     *)
(* sign-in gate, the page's shared ticket, the socket hook that reconnects, *)
(* the API's ticket checks and the sliding-window limiter in front of the   *)
(* ticket and command routes, shared by all pages behind one address.       *)
(* Time passes in ticks and is kept as ages, so that nothing grows.         *)
(***************************************************************************)
EXTENDS Naturals, Sequences

CONSTANTS
    Budget,     \* console_max_requests
    Window,     \* window_seconds
    Retry,      \* the reconnect delay
    TTL,        \* ticket_ttl_seconds
    Margin,     \* REFRESH_MARGIN_SECONDS
    Skew,       \* how far the browser's clock is behind the API's
    Transit,    \* the longest a request or its answer takes
    Lag,        \* the longest a request waits for Redis after reading the clock
    Deployments, \* settings: pairs of AUTH_MODE and RATE_LIMIT_BACKEND
    None,
    Mounts,     \* bound: times the socket effect is run
    MaxClicks,  \* bound: commands dispatched from the page
    MaxOthers,  \* bound: requests of other pages behind the same address
    MaxFaults   \* bound: lost requests, drops, restarts, expired sessions

\* A page alone stays within its budget, and a ticket in the margin survives its use.
ASSUME ConsoleAssumption ==
    /\ {Budget, Window, Retry, TTL} \subseteq Nat \ {0}
    /\ {Margin, Skew, Transit, Lag, Mounts, MaxClicks, MaxOthers, MaxFaults} \subseteq Nat
    /\ Lag < Window /\ Lag <= Transit
    /\ Window < Budget * Retry
    /\ Transit + Skew <= Margin /\ 2 * Transit < TTL
    /\ Deployments \subseteq {"open", "required"} \X {"redis", "memory"}

VARIABLES
    mode, backend,
    window,    \* window[i]: requests in the limiter's window stamped i-1 ticks ago
    expiry,    \* ticks until Redis drops the window's key
    served,    \* served[i]: requests the limiter let through i-1 ticks ago
    gate,      \* useAuthGate: "checking", "login", "console"
    session,   \* is a session held (auth.js)
    cached,    \* the page's ticket (ticket.js)
    inflight,  \* its ticket request
    hook,      \* the runs of the socket effect
    click,     \* handleCommand
    clicks, others, faults

limiter == <<window, expiry, served>>
page == <<gate, session, cached, inflight, hook, click>>
cvars == <<mode, backend, limiter, page, clicks, others, faults>>

Hooks == 1..Mounts
Old == TTL + Skew  \* a ticket this old is as good as an older one
Ages == 1..Window + Lag + 1
Zeros == [i \in Ages |-> 0]

NewTicket == [age |-> 0, valid |-> TRUE]
Tickets == [age : 0..Old, valid : BOOLEAN]
Unmounted == [pc |-> "none", live |-> FALSE, timer |-> 0, age |-> 0, ticket |-> None]
Mounted == [Unmounted EXCEPT !.pc = "new", !.live = TRUE]
NoClick == [pc |-> "idle", age |-> 0, ticket |-> None]

ConsoleTypeOK ==
    /\ <<mode, backend>> \in Deployments
    /\ window \in [Ages -> Nat] /\ served \in [1..Window -> Nat]
    /\ expiry \in 0..Window
    /\ gate \in {"checking", "login", "console"} /\ session \in BOOLEAN
    /\ cached = None \/ cached \in Tickets
    /\ \/ inflight = None
       \/ inflight \in [pc : {"asked"}, age : 0..Transit, auth : BOOLEAN]
       \/ inflight \in [pc : {"answer"}, age : 0..Transit, ticket : Tickets \cup {None}]
    /\ \A h \in Hooks :
          /\ hook[h].pc \in {"none", "new", "ticket", "opening", "open", "waiting", "gone"}
          /\ hook[h].live \in BOOLEAN /\ hook[h].timer \in 0..Retry
          /\ hook[h].age \in 0..Transit /\ hook[h].ticket \in Tickets \cup {None}
    /\ click.pc \in {"idle", "ticket", "posting"} /\ click.age \in 0..Transit
    /\ clicks \in 0..MaxClicks /\ others \in 0..MaxOthers /\ faults \in 0..MaxFaults

ConsoleInit ==
    /\ \E d \in Deployments : mode = d[1] /\ backend = d[2]
    /\ window = Zeros /\ served = [i \in 1..Window |-> 0] /\ expiry = 0
    /\ gate = "checking" /\ session = FALSE
    /\ cached = None /\ inflight = None
    /\ hook = [h \in Hooks |-> Unmounted]
    /\ click = NoClick
    /\ clicks = 0 /\ others = 0 /\ faults = 0

Fault == faults < MaxFaults /\ faults' = faults + 1

-----------------------------------------------------------------------------
(* The limiter: _check_rate_limit, _check_rate_limit_memory. *)

Total(s) ==
    LET sum[i \in 0..Len(s)] == IF i = 0 THEN 0 ELSE s[i] + sum[i - 1]
    IN  sum[Len(s)]

\* How long ago a request of this age may have read the clock.
Stamps(age) == {a \in 0..Lag : a <= age /\ (backend = "memory" => a = 0)}

\* The entries a request stamped a ticks ago leaves in the window.
Kept(a) == [i \in Ages |-> IF i > Window + a THEN 0 ELSE window[i]]

\* Mutant: the request itself is not expected in the count.
WithinBudgetOfNext(a) == Total(Kept(a)) <= Budget

WithinBudget(a) == Total(Kept(a)) < Budget

\* A refused request is recorded too.
Counted(a, ok) ==
    /\ ok = WithinBudget(a)
    /\ window' = [Kept(a) EXCEPT ![a + 1] = @ + 1]
    /\ expiry' = IF backend = "redis" THEN Window ELSE 0
    /\ served' = IF ok THEN [served EXCEPT ![1] = @ + 1] ELSE served
    /\ UNCHANGED faults

\* Redis fails: the request is let through, recorded or not.
FailsOpen(a, ok) ==
    /\ backend = "redis"
    /\ ok = TRUE
    /\ window' \in {window, [Kept(a) EXCEPT ![a + 1] = @ + 1]}
    /\ expiry' = IF window' = window THEN expiry ELSE Window
    /\ Fault
    /\ UNCHANGED served

CheckRateLimit(age, ok) == \E a \in Stamps(age) : Counted(a, ok) \/ FailsOpen(a, ok)

-----------------------------------------------------------------------------
(* The API's ticket routes. *)

\* verify_ticket
Accepted(t) == t.valid /\ t.age < TTL

\* current_principal: open mode takes an anonymous operator.
Authenticated(auth) == mode = "open" \/ auth

\* POST /auth/ticket
CreateTicket ==
    /\ inflight # None
    /\ inflight.pc = "asked"
    /\ \E ok \in BOOLEAN :
          /\ CheckRateLimit(inflight.age, ok)
          /\ inflight' = [pc |-> "answer", age |-> 0,
                ticket |-> IF ok /\ Authenticated(inflight.auth) THEN NewTicket ELSE None]
    /\ UNCHANGED <<mode, backend, gate, session, cached, hook, click, clicks, others>>

\* The request or its answer is lost.
TicketRequestLost ==
    /\ inflight # None
    /\ inflight' = [pc |-> "answer", age |-> 0, ticket |-> None]
    /\ inflight' # inflight
    /\ Fault
    /\ UNCHANGED <<mode, backend, limiter, gate, session, cached, hook, click, clicks, others>>

\* POST /commands/{robot_id}: whatever the answer, handleCommand is done.
SendCommand ==
    /\ click.pc = "posting"
    /\ \E ok \in BOOLEAN : CheckRateLimit(click.age, ok)
    /\ click' = NoClick
    /\ UNCHANGED <<mode, backend, gate, session, cached, inflight, hook, clicks, others>>

\* A request of another page behind the same address.
OtherRequest ==
    /\ others < MaxOthers
    /\ others' = others + 1
    /\ \E ok \in BOOLEAN : CheckRateLimit(Lag, ok)
    /\ UNCHANGED <<mode, backend, page, clicks>>

-----------------------------------------------------------------------------
(* The page: useAuthGate, auth.js, ticket.js. *)

Mount(h) == hook' = [hook EXCEPT ![h] = Mounted]

\* The answer of GET /auth/config; without one the console is shown.
GateOpens ==
    /\ gate = "checking"
    /\ \/ mode = "required" /\ gate' = "login" /\ UNCHANGED <<hook, faults>>
       \/ mode = "open" /\ gate' = "console" /\ Mount(1) /\ UNCHANGED faults
       \/ mode = "required" /\ gate' = "console" /\ Mount(1) /\ Fault
    /\ UNCHANGED <<mode, backend, limiter, session, cached, inflight, click, clicks, others>>

SignIn ==
    /\ gate = "login"
    /\ gate' = "console" /\ session' = TRUE
    /\ Mount(1)
    /\ UNCHANGED <<mode, backend, limiter, cached, inflight, click, clicks, others, faults>>

\* getSession drops an expired session; the console stays on the screen.
SessionExpires ==
    /\ session
    /\ session' = FALSE
    /\ Fault
    /\ UNCHANGED <<mode, backend, limiter, gate, cached, inflight, hook, click, clicks, others>>

\* Mutant: a ticket is used up to its last moment.
IsFreshToTheEnd(t) == t # None /\ t.age < TTL + Skew

IsFresh(t) == t # None /\ t.age + Margin < TTL + Skew

\* getTicket without a fresh ticket: join the request in flight, or make one.
AskTicket ==
    inflight' = IF inflight # None THEN inflight
                ELSE [pc |-> "asked", age |-> 0, auth |-> session]

-----------------------------------------------------------------------------
(* useWebSocket and handleCommand, before and after getTicket. *)

\* Mutant: the hook does not look whether it was unmounted meanwhile.
OpenedUnchecked(r, t) == [r EXCEPT !.pc = "opening", !.age = 0, !.ticket = t]

\* The hook has a ticket: it opens a socket, unless it was unmounted meanwhile.
Opened(r, t) ==
    IF r.live THEN [r EXCEPT !.pc = "opening", !.age = 0, !.ticket = t]
    ELSE [r EXCEPT !.pc = "gone"]

\* Mutant: the reconnect delay is doubled.
RescheduledLater(r) ==
    IF r.live THEN [r EXCEPT !.pc = "waiting", !.timer = 2 * Retry, !.age = 0, !.ticket = None]
    ELSE [r EXCEPT !.pc = "gone", !.age = 0, !.ticket = None]

\* scheduleReconnect
Rescheduled(r) ==
    IF r.live THEN [r EXCEPT !.pc = "waiting", !.timer = Retry, !.age = 0, !.ticket = None]
    ELSE [r EXCEPT !.pc = "gone", !.age = 0, !.ticket = None]

Connect(h) ==
    /\ hook[h].live
    /\ hook[h].pc = "new" \/ (hook[h].pc = "waiting" /\ hook[h].timer = 0)
    /\ \/ /\ IsFresh(cached)
          /\ hook' = [hook EXCEPT ![h] = Opened(@, cached)]
          /\ UNCHANGED inflight
       \/ /\ ~IsFresh(cached)
          /\ hook' = [hook EXCEPT ![h].pc = "ticket"]
          /\ AskTicket
    /\ UNCHANGED <<mode, backend, limiter, gate, session, cached, click, clicks, others, faults>>

HandleCommand ==
    /\ gate = "console"
    /\ click.pc = "idle"
    /\ clicks < MaxClicks
    /\ clicks' = clicks + 1
    /\ \/ /\ IsFresh(cached)
          /\ click' = [pc |-> "posting", age |-> 0, ticket |-> cached]
          /\ UNCHANGED inflight
       \/ /\ ~IsFresh(cached)
          /\ click' = [click EXCEPT !.pc = "ticket"]
          /\ AskTicket
    /\ UNCHANGED <<mode, backend, limiter, gate, session, cached, hook, others, faults>>

\* Mutant: a failed request stays in flight.
AfterAnswerWedged(t) == IF t = None THEN inflight ELSE None

AfterAnswer(t) == None

\* The answer arrives: everyone who awaits the request goes on with it.
TicketSettles ==
    /\ inflight # None
    /\ inflight.pc = "answer"
    /\ LET t == inflight.ticket
       IN  /\ cached' = IF t = None THEN cached ELSE t
           /\ inflight' = AfterAnswer(t)
           /\ hook' = [h \in Hooks |->
                 IF hook[h].pc # "ticket" THEN hook[h]
                 ELSE IF t = None THEN Rescheduled(hook[h]) ELSE Opened(hook[h], t)]
           /\ click' = IF click.pc # "ticket" THEN click
                       ELSE IF t = None THEN NoClick
                       ELSE [pc |-> "posting", age |-> 0, ticket |-> t]
    /\ UNCHANGED <<mode, backend, limiter, gate, session, clicks, others, faults>>

\* The handshake reaches the API: accepted, or closed with 4001.
Handshake(h) ==
    /\ hook[h].pc = "opening"
    /\ hook' = [hook EXCEPT ![h] =
          IF Accepted(@.ticket) THEN [@ EXCEPT !.pc = "open", !.age = 0, !.ticket = None]
          ELSE Rescheduled(@)]
    /\ UNCHANGED <<mode, backend, limiter, gate, session, cached, inflight, click, clicks,
                   others, faults>>

SocketDrops(h) ==
    /\ hook[h].pc \in {"opening", "open"}
    /\ hook' = [hook EXCEPT ![h] = Rescheduled(@)]
    /\ Fault
    /\ UNCHANGED <<mode, backend, limiter, gate, session, cached, inflight, click, clicks, others>>

\* The effect is cleaned up and run again.  A run that awaits its ticket stays behind.
Remount(h) ==
    /\ h + 1 \in Hooks
    /\ hook[h].live
    /\ hook' = [hook EXCEPT
          ![h] = IF @.pc = "ticket" THEN [@ EXCEPT !.live = FALSE]
                 ELSE [Unmounted EXCEPT !.pc = "gone"],
          ![h + 1] = Mounted]
    /\ UNCHANGED <<mode, backend, limiter, gate, session, cached, inflight, click, clicks,
                   others, faults>>

-----------------------------------------------------------------------------
(* The API restarts, possibly with another key; time passes. *)

Revoked(t) == IF t = None THEN None ELSE [t EXCEPT !.valid = FALSE]

\* A restart fails what is in flight, closes the sockets and empties a window held in
\* memory; another key revokes every ticket.
Restart ==
    /\ \E rotated \in BOOLEAN :
          LET Held(t) == IF rotated THEN Revoked(t) ELSE t
          IN  /\ cached' = Held(cached)
              /\ inflight' = IF inflight = None THEN None
                             ELSE [pc |-> "answer", age |-> 0, ticket |-> None]
              /\ hook' = [h \in Hooks |->
                    IF hook[h].pc \in {"opening", "open"} THEN Rescheduled(hook[h])
                    ELSE hook[h]]
              /\ click' = IF click.pc = "posting" THEN NoClick ELSE click
    /\ \/ backend = "memory" /\ window' = Zeros /\ served' = [i \in 1..Window |-> 0]
       \/ backend = "redis" /\ UNCHANGED <<window, served>>
    /\ Fault
    /\ UNCHANGED <<mode, backend, expiry, gate, session, clicks, others>>

Aged(t) == IF t = None \/ t.age = Old THEN t ELSE [t EXCEPT !.age = @ + 1]

\* A request on its way and the ticket it carries.
Older(r) == [r EXCEPT !.age = @ + 1, !.ticket = Aged(@)]

\* A run of the effect: its reconnect timer, and the handshake under way.
HookOlder(r) ==
    [r EXCEPT !.timer = IF @ > 0 THEN @ - 1 ELSE 0,
              !.age = IF r.pc = "opening" THEN @ + 1 ELSE @,
              !.ticket = Aged(@)]

Tick ==
    /\ inflight # None => inflight.age < Transit
    /\ \A h \in Hooks : hook[h].pc = "opening" => hook[h].age < Transit
    /\ click.pc = "posting" => click.age < Transit
    /\ expiry' = IF expiry = 0 THEN 0 ELSE expiry - 1
    /\ window' = IF expiry = 1 THEN Zeros
                 ELSE [i \in Ages |-> IF i = 1 THEN 0 ELSE window[i - 1]]
    /\ served' = [i \in 1..Window |-> IF i = 1 THEN 0 ELSE served[i - 1]]
    /\ cached' = Aged(cached)
    /\ inflight' = IF inflight = None THEN None
                   ELSE IF inflight.pc = "asked" THEN [inflight EXCEPT !.age = @ + 1]
                   ELSE Older(inflight)
    /\ hook' = [h \in Hooks |-> HookOlder(hook[h])]
    /\ click' = IF click.pc = "posting" THEN Older(click) ELSE click
    /\ UNCHANGED <<mode, backend, gate, session, clicks, others, faults>>

-----------------------------------------------------------------------------
ConsoleNext ==
    \/ CreateTicket \/ TicketRequestLost \/ SendCommand \/ OtherRequest
    \/ GateOpens \/ SignIn \/ SessionExpires
    \/ HandleCommand \/ TicketSettles
    \/ \E h \in Hooks : Connect(h) \/ Handshake(h) \/ SocketDrops(h) \/ Remount(h)
    \/ Restart \/ Tick

\* The API answers, timers fire and the browser goes on; nobody has to sign in.
ConsoleFairness ==
    /\ WF_cvars(CreateTicket) /\ WF_cvars(SendCommand) /\ WF_cvars(TicketSettles)
    /\ WF_cvars(GateOpens) /\ WF_cvars(Tick)
    /\ \A h \in Hooks : WF_cvars(Connect(h)) /\ WF_cvars(Handshake(h))

ConsoleSpec == ConsoleInit /\ [][ConsoleNext]_cvars /\ ConsoleFairness

-----------------------------------------------------------------------------
(* Properties. *)

\* The limiter lets no more than Budget requests through in any stretch of Window
\* ticks, less the time a request waits for Redis with the clock it has read.  Those
\* that pass because Redis fails are not its decision and not in served.
BudgetHolds ==
    Total(SubSeq(served, 1, IF backend = "memory" THEN Window ELSE Window - Lag)) <= Budget

\* A ticket on its way to the API, in a handshake or with a command, has not expired
\* when it gets there: the margin of getTicket covers the transit and the slow clock.
TicketOutlastsUse ==
    /\ \A h \in Hooks : hook[h].pc = "opening" => hook[h].ticket.age < TTL
    /\ click.pc = "posting" => click.ticket.age < TTL

\* A socket is only opened, and only stays open, for a run of the effect that has not
\* been cleaned up: none is left that no cleanup has a reference to.
NoOrphanSocket ==
    \A h \in Hooks : hook[h].pc \in {"opening", "open"} => hook[h].live

\* A mounted console gets its socket back, whatever failed before: lost requests, a
\* failed ticket request others awaited, refusals by the limiter, a rotated key.  Not
\* without a session where one is required.
Reconnects ==
    \A h \in Hooks :
        hook[h].live ~>
            (hook[h].pc = "open" \/ ~hook[h].live \/ (mode = "required" /\ ~session))

================================================================================
