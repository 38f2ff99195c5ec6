------------------------------ MODULE WorkSocket ------------------------------
(***************************************************************************)
(* The browser's side of the work pool: the store of                       *)
(* web/src/stores/workSocket.ts, which asks whether the pool is open,      *)
(* opens a socket, watches it, opens it again, and runs what arrives.      *)
(* One page, one event loop: an action is a callback up to its first await.*)
(* What is sent to the coordinator, and what it makes of it, is            *)
(* WorkCoordinator's; waiting times are arbitrary.                         *)
(***************************************************************************)
EXTENDS Integers, FiniteSets

CONSTANTS
    Sockets,    \* WebSocket objects: a closed one nobody holds is used again
    Handouts,   \* task messages: a task may be handed out more than once
    TaskOf,     \* the task of a handout
    Ceilings,   \* settings of the concurrency slider
    MaxStarts,  \* bound: how often the user starts the work
    MaxUpsets,  \* bound: how often the network fails
    None

Tasks == {TaskOf[h] : h \in Handouts}

VARIABLES
    wanted,      \* the user wants this page to work
    tracked,     \* socket
    state,       \* linkState
    timer,       \* reconnectTimer is set
    keepalive,   \* pingTimer is set
    awaiting,    \* pongTimer is set
    controller,  \* abort # null
    asking,      \* calls of connect that await refusedReason
    sockets,     \* the readyState of each, "dead" for one that is open here and lost on the way
    pongs,       \* sockets whose answer to a ping is on its way
    execs,       \* [at, signal] of each handout: whose AbortController its task listens to
    running,     \* the ids of tasks under way
    budget,      \* [now, ceiling]: currentConcurrency, maxConcurrent
    starts, upsets

linkVars == <<wanted, tracked, state, timer, keepalive, awaiting, controller, asking, sockets, pongs,
              execs, running, budget, starts, upsets>>
taskVars == <<running, budget>>

NewExec == [at |-> "new", signal |-> "none"]

Init ==
    /\ wanted = FALSE /\ tracked = None /\ state = "offline"
    /\ timer = FALSE /\ keepalive = FALSE /\ awaiting = FALSE /\ controller = FALSE
    /\ asking = 0
    /\ sockets = [s \in Sockets |-> "none"]
    /\ pongs = {}
    /\ execs = [h \in Handouts |-> NewExec]
    /\ running = {}
    /\ budget \in [now : {1}, ceiling : Ceilings]
    /\ starts = 0 /\ upsets = 0

Upset == upsets < MaxUpsets /\ upsets' = upsets + 1
Is(s, states) == s # None /\ sockets[s] \in states
Up == {"connecting", "open", "dead"}   \* readyState <= OPEN
Close(s) == IF Is(s, Up) THEN [sockets EXCEPT ![s] = "closing"] ELSE sockets
Signal(from, to) == [h \in Handouts |-> IF execs[h].signal = from THEN [execs[h] EXCEPT !.signal = to] ELSE execs[h]]

-----------------------------------------------------------------------------
(* The connection *)

\* connect, up to its await: the tasks under way keep the old controller.
connect ==
    IF Is(tracked, Up) THEN UNCHANGED <<state, controller, asking, execs>>
    ELSE /\ state' = "connecting"
         /\ controller' = TRUE /\ execs' = Signal("current", "old")
         /\ asking' = asking + 1

Start ==
    /\ starts < MaxStarts /\ starts' = starts + 1
    /\ wanted' = TRUE
    /\ connect
    /\ UNCHANGED <<tracked, timer, keepalive, awaiting, sockets, pongs, taskVars, upsets>>

Stop ==
    /\ wanted
    /\ wanted' = FALSE /\ timer' = FALSE /\ keepalive' = FALSE /\ awaiting' = FALSE
    /\ controller' = FALSE /\ execs' = Signal("current", "aborted")
    /\ sockets' = Close(tracked) /\ tracked' = None
    /\ state' = "offline"
    /\ running' = {}
    /\ UNCHANGED <<asking, pongs, budget, starts, upsets>>

scheduleReconnect == timer' = (timer \/ wanted)

\* The pool is switched off: no reconnection.
Refused ==
    /\ asking > 0 /\ asking' = asking - 1
    /\ state' = "refused"
    /\ UNCHANGED <<wanted, tracked, timer, keepalive, awaiting, controller, sockets, pongs, execs, taskVars, starts, upsets>>

\* The rest of connect; a page that went away meanwhile opens nothing.
Answered ==
    /\ asking > 0 /\ asking' = asking - 1
    /\ \/ ~wanted /\ UNCHANGED <<tracked, sockets>>
       \/ /\ wanted
          /\ \E s \in Sockets :
                /\ sockets[s] = "none"
                /\ sockets' = [sockets EXCEPT ![s] = "connecting"]
                /\ tracked' = s
    /\ UNCHANGED <<wanted, state, timer, keepalive, awaiting, controller, pongs, execs, taskVars, starts, upsets>>

\* new WebSocket throws.
NoSocket ==
    /\ asking > 0 /\ wanted /\ Upset
    /\ asking' = asking - 1
    /\ scheduleReconnect
    /\ UNCHANGED <<wanted, tracked, state, keepalive, awaiting, controller, sockets, pongs, execs, taskVars, starts>>

\* The open event.
Opens(s) ==
    /\ sockets[s] = "connecting"
    /\ sockets' = [sockets EXCEPT ![s] = "open"]
    /\ state' = "online"
    /\ keepalive' = TRUE /\ awaiting' = FALSE
    /\ UNCHANGED <<wanted, tracked, timer, controller, asking, pongs, execs, taskVars, starts, upsets>>

\* Mutant: a close of another socket leaves the tracked one.
TrackedAfterIfIts(s) == IF s = tracked THEN None ELSE tracked

\* What is tracked when s has closed: nothing, whichever socket it is.
TrackedAfter(s) == None

\* The close event.
Closes(s) ==
    /\ \/ sockets[s] = "closing" /\ UNCHANGED upsets
       \/ sockets[s] \in Up /\ Upset
    /\ sockets' = [sockets EXCEPT ![s] = "none"]
    /\ pongs' = pongs \ {s}
    /\ keepalive' = FALSE /\ awaiting' = FALSE
    /\ tracked' = TrackedAfter(s)
    /\ state' = "offline"
    /\ scheduleReconnect
    /\ UNCHANGED <<wanted, controller, asking, execs, taskVars, starts>>

TimerFires ==
    /\ timer /\ timer' = FALSE
    /\ connect
    /\ UNCHANGED <<wanted, tracked, keepalive, awaiting, sockets, pongs, taskVars, starts, upsets>>

-----------------------------------------------------------------------------
(* Keepalive *)

\* The connection is lost and neither end is told.
Dies(s) ==
    /\ sockets[s] = "open" /\ Upset
    /\ sockets' = [sockets EXCEPT ![s] = "dead"] /\ pongs' = pongs \ {s}
    /\ UNCHANGED <<wanted, tracked, state, timer, keepalive, awaiting, controller, asking, execs, taskVars, starts>>

Ping ==
    /\ keepalive /\ Is(tracked, {"open", "dead"})
    /\ awaiting' = TRUE
    /\ pongs' = IF sockets[tracked] = "open" THEN pongs \cup {tracked} ELSE pongs
    /\ UNCHANGED <<wanted, tracked, state, timer, keepalive, controller, asking, sockets, execs, taskVars, starts, upsets>>

\* clearPongTimer, whichever socket it came by.
Pong(s) ==
    /\ s \in pongs /\ sockets[s] = "open"
    /\ pongs' = pongs \ {s}
    /\ awaiting' = FALSE
    /\ UNCHANGED <<wanted, tracked, state, timer, keepalive, controller, asking, sockets, execs, taskVars, starts, upsets>>

\* The pong timer closes the socket tracked now; an answer on its way that is
\* later than the grace is an upset.
GraceEnds ==
    /\ awaiting /\ awaiting' = FALSE
    /\ IF tracked \in pongs THEN Upset ELSE UNCHANGED upsets
    /\ sockets' = Close(tracked)
    /\ UNCHANGED <<wanted, tracked, state, timer, keepalive, controller, asking, pongs, execs, taskVars, starts>>

-----------------------------------------------------------------------------
(* Tasks *)

\* execute, up to its await: refused (released) without a free slot, or because
\* its kind of work is not selected.
Deliver(s, h) ==
    /\ sockets[s] = "open" /\ execs[h].at = "new"
    /\ \/ /\ execs' = [execs EXCEPT ![h].at = "over"]
          /\ UNCHANGED running
       \/ /\ Cardinality(running) < budget.now
          /\ execs' = [execs EXCEPT ![h] = [at |-> "running", signal |-> IF controller THEN "current" ELSE "old"]]
          /\ running' = running \cup {TaskOf[h]}
    /\ UNCHANGED <<wanted, tracked, state, timer, keepalive, awaiting, controller, asking, sockets, pongs, budget, starts, upsets>>

nextConcurrency(failed) ==
    IF failed THEN IF budget.now = 1 THEN 1 ELSE budget.now \div 2
    ELSE IF budget.now < budget.ceiling THEN budget.now + 1 ELSE budget.ceiling

\* The rest of execute. A task that was aborted may have been submitted already.
Finish(h, outcome) ==
    /\ execs[h].at = "running"
    /\ outcome # "ok" => (outcome = "aborted" <=> execs[h].signal = "aborted")
    /\ execs' = [execs EXCEPT ![h] = [at |-> "over", signal |-> "none"]]
    /\ running' = running \ {TaskOf[h]}
    /\ budget' = [budget EXCEPT !.now = IF outcome = "aborted" THEN @ ELSE nextConcurrency(outcome = "failed")]
    /\ UNCHANGED <<wanted, tracked, state, timer, keepalive, awaiting, controller, asking, sockets, pongs, starts, upsets>>

\* setMaxConcurrent, and hydrateConfig with the server's default.
SetCeiling(n) ==
    /\ n # budget.ceiling
    /\ budget' = [now |-> IF budget.now > n THEN n ELSE budget.now, ceiling |-> n]
    /\ UNCHANGED <<wanted, tracked, state, timer, keepalive, awaiting, controller, asking, sockets, pongs, execs, running, starts, upsets>>

-----------------------------------------------------------------------------
Next ==
    \/ Start \/ Stop
    \/ Refused \/ Answered \/ NoSocket
    \/ \E s \in Sockets : Opens(s) \/ Closes(s) \/ Dies(s) \/ Pong(s)
    \/ TimerFires \/ Ping \/ GraceEnds
    \/ \E s \in Sockets, h \in Handouts : Deliver(s, h)
    \/ \E h \in Handouts, outcome \in {"ok", "failed", "aborted"} : Finish(h, outcome)
    \/ \E n \in Ceilings : SetCeiling(n)

Spec == Init /\ [][Next]_linkVars

\* Timers fire, and the network answers, refuses, opens, closes or pongs in time.
Fairness ==
    /\ WF_linkVars(TimerFires) /\ WF_linkVars(Ping) /\ WF_linkVars(GraceEnds)
    /\ WF_linkVars(Refused \/ Answered)
    /\ \A s \in Sockets : WF_linkVars(Opens(s) \/ Closes(s)) /\ WF_linkVars(Pong(s))

LiveSpec == Spec /\ Fairness

-----------------------------------------------------------------------------
TypeOK ==
    /\ wanted \in BOOLEAN /\ timer \in BOOLEAN /\ controller \in BOOLEAN
    /\ tracked \in Sockets \cup {None}
    /\ state \in {"offline", "connecting", "online", "refused"}
    /\ keepalive \in BOOLEAN /\ awaiting \in BOOLEAN /\ (awaiting => keepalive)
    /\ asking \in Nat
    /\ sockets \in [Sockets -> {"none", "closing"} \cup Up]
    /\ pongs \subseteq {s \in Sockets : sockets[s] \in {"open", "closing"}}
    /\ execs \in [Handouts -> [at : {"new", "running", "over"}, signal : {"none", "current", "old", "aborted"}]]
    /\ running \subseteq Tasks
    /\ budget \in [now : 1 .. budget.ceiling, ceiling : Ceilings]

\* A page that is to work and was not refused is on its way to a connection, however
\* calls of connect, stale close events and timers interleave (workSocket.ts:194, 234).
NeverStranded ==
    wanted /\ state # "refused" => asking > 0 \/ timer \/ \E s \in Sockets : sockets[s] # "none"

\* The socket the page relies on is pinged, although the close of any other stops
\* the pings (workSocket.ts:235).
Watched == Is(tracked, {"open", "dead"}) => keepalive

\* A slot is taken by a task under way only: what a stop abandons, or a second
\* handout of a task overtakes, leaves none behind (workSocket.ts:263, 363).
SlotsAreBusy == \A t \in running : \E h \in Handouts : TaskOf[h] = t /\ execs[h].at = "running"

\* A page that is to work gets a connection that carries, or learns that the pool is
\* closed, although connections drop, fail or fall silent (workSocket.ts:306-342).
Reconnects ==
    wanted ~> (~wanted \/ state = "refused" \/ Is(tracked, {"open"}))
=============================================================================
