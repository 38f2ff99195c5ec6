------------------------------ MODULE ClientProofs ------------------------------
(***************************************************************************)
(* Proofs about two parts of the web client (MCClient): the page as a      *)
(* worker (WorkSocket), for any number of sockets, task messages, starts   *)
(* and failures of the network, and the budget of requests (RequestBudget) *)
(* for any tracks, callers, ceilings and numbers of requests.              *)
(***************************************************************************)
EXTENDS MCClient, FiniteSetTheorems, NaturalsInduction, SequenceTheorems, TLAPS

-----------------------------------------------------------------------------
(* The page as a worker.                                                   *)

\* What the page relies on holds by itself: every callback leaves it true.
WorkerInv == Worker!TypeOK /\ Worker!NeverStranded /\ Worker!Watched /\ Worker!SlotsAreBusy

LEMMA WorkerStart == Worker!Init => WorkerInv
<1> SUFFICES ASSUME Worker!Init PROVE WorkerInv
  OBVIOUS
<1>1. budget.now = 1 /\ budget.ceiling \in Nat \ {0} /\ budget.ceiling \in Ceilings /\ budget \in [now : {1}, ceiling : Ceilings]
  BY ClientAssumption DEF Worker!Init
<1>2. budget \in [now : 1 .. budget.ceiling, ceiling : Ceilings]
  BY <1>1
<1>3. Worker!TypeOK
  BY <1>2 DEF Worker!Init, Worker!TypeOK, Worker!NewExec, Worker!Up
<1>4. Worker!NeverStranded /\ Worker!Watched /\ Worker!SlotsAreBusy
  BY DEF Worker!Init, Worker!NeverStranded, Worker!Watched, Worker!SlotsAreBusy, Worker!Is
<1>5. QED
  BY <1>3, <1>4 DEF WorkerInv

\* The conversions of the state that callbacks share.
LEMMA ClosesOne ==
    ASSUME Worker!TypeOK
    PROVE  /\ Worker!Close(tracked) \in [Sockets -> {"none", "closing"} \cup Worker!Up]
           /\ \A s \in Sockets : \/ Worker!Close(tracked)[s] = sockets[s]
                                 \/ sockets[s] \in Worker!Up /\ Worker!Close(tracked)[s] = "closing"
<1>1. sockets \in [Sockets -> {"none", "closing"} \cup Worker!Up] /\ tracked \in Sockets \cup {None}
  BY DEF Worker!TypeOK
<1>2. CASE Worker!Is(tracked, Worker!Up)
  <2>1. Worker!Close(tracked) = [sockets EXCEPT ![tracked] = "closing"] /\ tracked \in Sockets
        /\ sockets[tracked] \in Worker!Up
    BY <1>1, <1>2 DEF Worker!Close, Worker!Is
  <2>2. QED
    BY <1>1, <2>1
<1>3. CASE ~Worker!Is(tracked, Worker!Up)
  <2>1. Worker!Close(tracked) = sockets
    BY <1>3 DEF Worker!Close
  <2>2. QED
    BY <1>1, <2>1
<1>4. QED
  BY <1>2, <1>3

LEMMA SignalsKeepPlaces ==
    ASSUME Worker!TypeOK, NEW from \in {"none", "current", "old", "aborted"}, NEW to \in {"none", "current", "old", "aborted"}
    PROVE  /\ Worker!Signal(from, to) \in
                [Handouts -> [at : {"new", "running", "over"}, signal : {"none", "current", "old", "aborted"}]]
           /\ \A h \in Handouts : Worker!Signal(from, to)[h].at = execs[h].at
BY DEF Worker!TypeOK, Worker!Signal

\* Calls of connect.
LEMMA connectKeeps ==
    ASSUME WorkerInv, Worker!connect
    PROVE  /\ asking' \in Nat /\ asking' >= asking /\ (asking' = 0 => Worker!Is(tracked, Worker!Up))
           /\ state' \in {"offline", "connecting", "online", "refused"} /\ controller' \in BOOLEAN
           /\ (Worker!Is(tracked, Worker!Up) => state' = state)
           /\ execs' \in [Handouts -> [at : {"new", "running", "over"}, signal : {"none", "current", "old", "aborted"}]]
           /\ \A h \in Handouts : execs'[h].at = execs[h].at
<1>1. CASE Worker!Is(tracked, Worker!Up)
  BY <1>1 DEF WorkerInv, Worker!TypeOK, Worker!connect
<1>2. CASE ~Worker!Is(tracked, Worker!Up)
  <2>1. state' = "connecting" /\ controller' = TRUE /\ execs' = Worker!Signal("current", "old") /\ asking' = asking + 1
    BY <1>2 DEF Worker!connect
  <2>2. asking \in Nat
    BY DEF WorkerInv, Worker!TypeOK
  <2>3. QED
    BY <2>1, <2>2, <1>2, SignalsKeepPlaces DEF WorkerInv
<1>3. QED
  BY <1>1, <1>2

\* A step that finishes no handout and starts none leaves the slots alone.
LEMMA SlotsStay ==
    ASSUME Worker!SlotsAreBusy, taken' = taken \/ taken' = {}, \A h \in Handouts : execs'[h].at = execs[h].at
    PROVE  Worker!SlotsAreBusy'
BY DEF Worker!SlotsAreBusy

LEMMA WorkerStarts == ASSUME WorkerInv, Worker!Start \/ Worker!TimerFires PROVE WorkerInv'
<1>1. /\ Worker!connect
      /\ tracked' = tracked /\ keepalive' = keepalive /\ awaiting' = awaiting /\ sockets' = sockets
      /\ pongs' = pongs /\ taken' = taken /\ budget' = budget /\ timer' \in BOOLEAN /\ wanted' \in BOOLEAN
  BY DEF Worker!Start, Worker!TimerFires, Worker!taskVars, WorkerInv, Worker!TypeOK
<1>2. Worker!TypeOK'
  BY <1>1, connectKeeps DEF WorkerInv, Worker!TypeOK
<1>3. Worker!NeverStranded'
  <2>1. CASE Worker!Is(tracked, Worker!Up)
    <3>1. tracked \in Sockets /\ sockets'[tracked] # "none"
      BY <1>1, <2>1 DEF WorkerInv, Worker!TypeOK, Worker!Is, Worker!Up
    <3>2. QED
      BY <3>1 DEF Worker!NeverStranded
  <2>2. CASE ~Worker!Is(tracked, Worker!Up)
    <3>1. asking' > 0
      BY <1>1, <2>2, connectKeeps
    <3>2. QED
      BY <3>1 DEF Worker!NeverStranded
  <2>3. QED
    BY <2>1, <2>2
<1>4. Worker!Watched'
  BY <1>1 DEF WorkerInv, Worker!Watched, Worker!Is
<1>5. Worker!SlotsAreBusy'
  BY <1>1, connectKeeps, SlotsStay DEF WorkerInv
<1>6. QED
  BY <1>2, <1>3, <1>4, <1>5 DEF WorkerInv

LEMMA WorkerStops == ASSUME WorkerInv, Worker!Stop PROVE WorkerInv'
<1>1. /\ sockets' = Worker!Close(tracked) /\ execs' = Worker!Signal("current", "aborted")
      /\ pongs' = pongs /\ budget' = budget /\ asking' = asking /\ taken' = {}
      /\ wanted' = FALSE /\ timer' = FALSE /\ keepalive' = FALSE /\ awaiting' = FALSE /\ controller' = FALSE
      /\ tracked' = None /\ state' = "offline"
  BY DEF Worker!Stop
<1>2. pongs' \subseteq {s \in Sockets : sockets'[s] \in {"open", "closing"}}
  BY <1>1, ClosesOne DEF WorkerInv, Worker!TypeOK
<1>3. Worker!TypeOK'
  BY <1>1, <1>2, ClosesOne, SignalsKeepPlaces DEF WorkerInv, Worker!TypeOK
<1>4. Worker!NeverStranded' /\ Worker!Watched' /\ Worker!SlotsAreBusy'
  BY <1>1 DEF Worker!NeverStranded, Worker!Watched, Worker!SlotsAreBusy, Worker!Is
<1>5. QED
  BY <1>3, <1>4 DEF WorkerInv

LEMMA WorkerIsAnswered ==
    ASSUME WorkerInv, Worker!Refused \/ Worker!Answered \/ Worker!NoSocket
    PROVE  WorkerInv'
<1>1. /\ keepalive' = keepalive /\ awaiting' = awaiting /\ pongs' = pongs /\ controller' = controller
      /\ execs' = execs /\ taken' = taken /\ budget' = budget /\ wanted' = wanted
      /\ asking > 0 /\ asking' = asking - 1
      /\ state' \in {state, "refused"}
      /\ timer' \in BOOLEAN
  BY DEF Worker!Refused, Worker!Answered, Worker!NoSocket, Worker!taskVars, WorkerInv,
     Worker!TypeOK, Worker!scheduleReconnect
<1>2. \/ /\ tracked' = tracked /\ sockets' = sockets
      \/ \E s \in Sockets : sockets[s] = "none" /\ sockets' = [sockets EXCEPT ![s] = "connecting"] /\ tracked' = s
  BY DEF Worker!Refused, Worker!Answered, Worker!NoSocket
<1>3. Worker!TypeOK'
  <2>1. /\ sockets' \in [Sockets -> {"none", "closing"} \cup Worker!Up] /\ tracked' \in Sockets \cup {None}
        /\ pongs' \subseteq {s \in Sockets : sockets'[s] \in {"open", "closing"}}
    BY <1>1, <1>2 DEF WorkerInv, Worker!TypeOK, Worker!Up
  <2>2. QED
    BY <1>1, <2>1 DEF WorkerInv, Worker!TypeOK
<1>4. Worker!NeverStranded'
  <2>1. CASE Worker!Refused
    BY <2>1 DEF Worker!Refused, Worker!NeverStranded
  <2>2. CASE Worker!NoSocket
    BY <2>2 DEF Worker!NoSocket, Worker!scheduleReconnect, Worker!NeverStranded
  <2>3. CASE Worker!Answered /\ wanted
    <3>1. PICK s \in Sockets : sockets' = [sockets EXCEPT ![s] = "connecting"]
      BY <2>3 DEF Worker!Answered
    <3>2. sockets'[s] # "none"
      BY <3>1 DEF WorkerInv, Worker!TypeOK
    <3>3. QED
      BY <3>2 DEF Worker!NeverStranded
  <2>4. CASE ~wanted
    BY <1>1, <2>4 DEF Worker!NeverStranded
  <2>5. QED
    BY <2>1, <2>2, <2>3, <2>4
<1>5. Worker!Watched'
  BY <1>1, <1>2 DEF WorkerInv, Worker!TypeOK, Worker!Watched, Worker!Is
<1>6. Worker!SlotsAreBusy'
  BY <1>1, SlotsStay DEF WorkerInv
<1>7. QED
  BY <1>3, <1>4, <1>5, <1>6 DEF WorkerInv

LEMMA WorkerOpens == ASSUME WorkerInv, NEW s \in Sockets, Worker!Opens(s) PROVE WorkerInv'
<1>1. /\ sockets[s] = "connecting" /\ sockets' = [sockets EXCEPT ![s] = "open"]
      /\ state' = "online" /\ keepalive' = TRUE /\ awaiting' = FALSE
      /\ tracked' = tracked /\ timer' = timer /\ controller' = controller /\ asking' = asking
      /\ pongs' = pongs /\ execs' = execs /\ taken' = taken /\ budget' = budget /\ wanted' = wanted
  BY DEF Worker!Opens, Worker!taskVars
<1>2. Worker!TypeOK'
  BY <1>1 DEF WorkerInv, Worker!TypeOK, Worker!Up
<1>3. Worker!NeverStranded' /\ Worker!Watched'
  BY <1>1 DEF WorkerInv, Worker!TypeOK, Worker!NeverStranded, Worker!Watched
<1>4. Worker!SlotsAreBusy'
  BY <1>1, SlotsStay DEF WorkerInv
<1>5. QED
  BY <1>2, <1>3, <1>4 DEF WorkerInv

LEMMA WorkerCloses == ASSUME WorkerInv, NEW s \in Sockets, Worker!Closes(s) PROVE WorkerInv'
<1>1. /\ sockets' = [sockets EXCEPT ![s] = "none"] /\ pongs' = pongs \ {s}
      /\ keepalive' = FALSE /\ awaiting' = FALSE /\ tracked' = None /\ state' = "offline"
      /\ timer' = (timer \/ wanted) /\ controller' = controller /\ asking' = asking
      /\ execs' = execs /\ taken' = taken /\ budget' = budget /\ wanted' = wanted
  BY DEF Worker!Closes, Worker!taskVars, Worker!TrackedAfter, Worker!scheduleReconnect
<1>2. Worker!TypeOK'
  BY <1>1 DEF WorkerInv, Worker!TypeOK
<1>3. Worker!NeverStranded' /\ Worker!Watched'
  BY <1>1 DEF WorkerInv, Worker!TypeOK, Worker!NeverStranded, Worker!Watched, Worker!Is
<1>4. Worker!SlotsAreBusy'
  BY <1>1, SlotsStay DEF WorkerInv
<1>5. QED
  BY <1>2, <1>3, <1>4 DEF WorkerInv

LEMMA WorkerWatches ==
    ASSUME WorkerInv,
           (\E s \in Sockets : Worker!Dies(s) \/ Worker!Pong(s)) \/ Worker!Ping \/ Worker!GraceEnds
    PROVE  WorkerInv'
<1>1. /\ keepalive' = keepalive /\ controller' = controller /\ asking' = asking /\ state' = state
      /\ execs' = execs /\ taken' = taken /\ budget' = budget /\ wanted' = wanted /\ tracked' = tracked /\ timer' = timer
  BY DEF Worker!Dies, Worker!Pong, Worker!Ping, Worker!GraceEnds, Worker!taskVars
<1>t. /\ keepalive \in BOOLEAN /\ awaiting \in BOOLEAN /\ (awaiting => keepalive)
      /\ sockets \in [Sockets -> {"none", "closing"} \cup Worker!Up] /\ tracked \in Sockets \cup {None}
      /\ pongs \subseteq {q \in Sockets : sockets[q] \in {"open", "closing"}}
  BY DEF WorkerInv, Worker!TypeOK
<1>s. /\ awaiting' \in BOOLEAN /\ (awaiting' => keepalive')
      /\ sockets' \in [Sockets -> {"none", "closing"} \cup Worker!Up]
      /\ \A q \in Sockets : \/ sockets'[q] = sockets[q]
                            \/ sockets[q] \in Worker!Up /\ sockets'[q] = "closing"
                            \/ sockets[q] = "open" /\ sockets'[q] = "dead" /\ q \notin pongs'
      /\ \A q \in pongs' : q \in pongs \/ (q \in Sockets /\ sockets[q] = "open" /\ sockets' = sockets)
  <2>1. CASE \E s \in Sockets : Worker!Dies(s)
    BY <1>t, <1>1, <2>1 DEF Worker!Dies, Worker!Up
  <2>2. CASE \E s \in Sockets : Worker!Pong(s)
    BY <1>t, <1>1, <2>2 DEF Worker!Pong
  <2>3. CASE Worker!Ping
    BY <1>t, <1>1, <2>3 DEF Worker!Ping, Worker!Is
  <2>4. CASE Worker!GraceEnds
    BY <1>t, <1>1, <2>4, ClosesOne DEF Worker!GraceEnds, WorkerInv
  <2>5. QED
    BY <2>1, <2>2, <2>3, <2>4
<1>5. pongs' \subseteq {q \in Sockets : sockets'[q] \in {"open", "closing"}}
  <2> SUFFICES ASSUME NEW q \in pongs' PROVE q \in Sockets /\ sockets'[q] \in {"open", "closing"}
    OBVIOUS
  <2>1. CASE q \in pongs
    BY <1>t, <1>s, <2>1
  <2>2. CASE q \notin pongs
    BY <1>s, <2>2
  <2>3. QED
    BY <2>1, <2>2
<1>6. Worker!TypeOK'
  BY <1>1, <1>s, <1>5 DEF WorkerInv, Worker!TypeOK
<1>7. Worker!NeverStranded' /\ Worker!Watched'
  BY <1>1, <1>s DEF WorkerInv, Worker!TypeOK, Worker!NeverStranded, Worker!Watched,
     Worker!Is, Worker!Up
<1>8. Worker!SlotsAreBusy'
  BY <1>1, SlotsStay DEF WorkerInv
<1>9. QED
  BY <1>6, <1>7, <1>8 DEF WorkerInv

\* A step of a task: the connection is none of its concern.
LEMMA LinkRests ==
    ASSUME WorkerInv,
           UNCHANGED <<wanted, tracked, state, timer, keepalive, awaiting, controller, asking, sockets, pongs>>,
           execs' \in [Handouts -> [at : {"new", "running", "over"}, signal : {"none", "current", "old", "aborted"}]],
           taken' \subseteq Worker!Tasks, budget' \in [now : 1 .. budget'.ceiling, ceiling : Ceilings],
           Worker!SlotsAreBusy'
    PROVE  WorkerInv'
<1>1. Worker!TypeOK'
  BY DEF WorkerInv, Worker!TypeOK
<1>2. Worker!NeverStranded' /\ Worker!Watched'
  BY DEF WorkerInv, Worker!NeverStranded, Worker!Watched, Worker!Is
<1>3. QED
  BY <1>1, <1>2 DEF WorkerInv

LEMMA WorkerRuns ==
    ASSUME WorkerInv, NEW s \in Sockets, NEW h \in Handouts, Worker!Deliver(s, h)
    PROVE  WorkerInv'
<1>t. /\ execs \in [Handouts -> [at : {"new", "running", "over"}, signal : {"none", "current", "old", "aborted"}]]
      /\ taken \subseteq Worker!Tasks /\ budget \in [now : 1 .. budget.ceiling, ceiling : Ceilings]
  BY DEF WorkerInv, Worker!TypeOK
<1>1. /\ UNCHANGED <<wanted, tracked, state, timer, keepalive, awaiting, controller, asking, sockets, pongs>>
      /\ budget' = budget /\ execs[h].at = "new"
  BY DEF Worker!Deliver
<1>2. \/ execs' = [execs EXCEPT ![h].at = "over"] /\ taken' = taken
      \/ /\ taken' = taken \cup {MCTaskOf[h]}
         /\ \E sig \in {"current", "old"} : execs' = [execs EXCEPT ![h] = [at |-> "running", signal |-> sig]]
  BY DEF Worker!Deliver
<1>3. /\ execs' \in [Handouts -> [at : {"new", "running", "over"}, signal : {"none", "current", "old", "aborted"}]]
      /\ taken' \subseteq Worker!Tasks
  BY <1>t, <1>2 DEF Worker!Tasks
<1>4. Worker!SlotsAreBusy'
  <2>1. \A g \in Handouts : execs[g].at = "running" => execs'[g].at = "running"
    BY <1>t, <1>1, <1>2
  <2>2. taken' # taken => execs'[h].at = "running"
    BY <1>t, <1>2
  <2>3. QED
    BY <1>2, <2>1, <2>2 DEF WorkerInv, Worker!SlotsAreBusy
<1>5. QED
  BY <1>t, <1>1, <1>3, <1>4, LinkRests

LEMMA WorkerFinishes ==
    ASSUME WorkerInv, NEW h \in Handouts, NEW outcome, Worker!Finish(h, outcome)
    PROVE  WorkerInv'
<1>t. /\ execs \in [Handouts -> [at : {"new", "running", "over"}, signal : {"none", "current", "old", "aborted"}]]
      /\ taken \subseteq Worker!Tasks /\ budget \in [now : 1 .. budget.ceiling, ceiling : Ceilings]
  BY DEF WorkerInv, Worker!TypeOK
<1>1. /\ UNCHANGED <<wanted, tracked, state, timer, keepalive, awaiting, controller, asking, sockets, pongs>>
      /\ execs' = [execs EXCEPT ![h] = [at |-> "over", signal |-> "none"]]
      /\ taken' = taken \ {MCTaskOf[h]}
      /\ \/ budget' = [budget EXCEPT !.now = budget.now]
         \/ budget' = [budget EXCEPT !.now = Worker!nextConcurrency(TRUE)]
         \/ budget' = [budget EXCEPT !.now = Worker!nextConcurrency(FALSE)]
  BY DEF Worker!Finish
<1>2. budget.ceiling \in Nat \ {0} /\ budget.now \in 1 .. budget.ceiling /\ budget.ceiling \in Ceilings
  BY <1>t, ClientAssumption
<1>3. Worker!nextConcurrency(TRUE) \in 1 .. budget.ceiling /\ Worker!nextConcurrency(FALSE) \in 1 .. budget.ceiling
  BY <1>2 DEF Worker!nextConcurrency
<1>4. budget' \in [now : 1 .. budget'.ceiling, ceiling : Ceilings]
  <2>1. PICK n \in 1 .. budget.ceiling : budget' = [budget EXCEPT !.now = n]
    BY <1>1, <1>2, <1>3
  <2>2. QED
    BY <1>t, <2>1
<1>5. Worker!SlotsAreBusy'
  BY <1>t, <1>1 DEF WorkerInv, Worker!SlotsAreBusy
<1>6. execs' \in [Handouts -> [at : {"new", "running", "over"}, signal : {"none", "current", "old", "aborted"}]]
  BY <1>t, <1>1
<1>7. QED
  BY <1>t, <1>1, <1>4, <1>5, <1>6, LinkRests

LEMMA WorkerIsSet == ASSUME WorkerInv, NEW n \in Ceilings, Worker!SetCeiling(n) PROVE WorkerInv'
<1>t. budget \in [now : 1 .. budget.ceiling, ceiling : Ceilings]
  BY DEF WorkerInv, Worker!TypeOK
<1>1. /\ UNCHANGED <<wanted, tracked, state, timer, keepalive, awaiting, controller, asking, sockets, pongs>>
      /\ execs' = execs /\ taken' = taken
      /\ budget' = [now |-> IF budget.now > n THEN n ELSE budget.now, ceiling |-> n]
  BY DEF Worker!SetCeiling
<1>2. n \in Nat \ {0} /\ budget.ceiling \in Nat \ {0} /\ budget.now \in 1 .. budget.ceiling
  BY <1>t, ClientAssumption
<1>3. (IF budget.now > n THEN n ELSE budget.now) \in 1 .. n
  BY <1>2
<1>4. budget' \in [now : 1 .. budget'.ceiling, ceiling : Ceilings]
  BY <1>1, <1>3
<1>5. Worker!SlotsAreBusy'
  BY <1>1, SlotsStay DEF WorkerInv
<1>6. QED
  BY <1>1, <1>4, <1>5, LinkRests DEF WorkerInv, Worker!TypeOK

LEMMA WorkerSteps == ASSUME WorkerInv, [Worker!Next]_workerVars PROVE WorkerInv'
<1>1. CASE Worker!Next
  BY <1>1, WorkerStarts, WorkerStops, WorkerIsAnswered, WorkerOpens, WorkerCloses,
     WorkerWatches,
     WorkerRuns, WorkerFinishes, WorkerIsSet DEF Worker!Next
<1>2. CASE UNCHANGED workerVars
  BY <1>2 DEF workerVars, WorkerInv, Worker!TypeOK, Worker!NeverStranded, Worker!Watched,
     Worker!SlotsAreBusy,
     Worker!Is
<1>3. QED
  BY <1>1, <1>2

\* A page that is to work is on its way to a connection or was told that the pool is
\* closed, watches the socket it relies on, and every slot it counts is one of a task
\* under way, for any number of sockets, handouts, starts and failures, and any
\* settings of the slider.
THEOREM PageKeepsWorking == ClientSpec => []WorkGoesOn
<1>1. ClientInit => WorkerInv
  BY WorkerStart DEF ClientInit
<1>2. WorkerInv /\ [ClientNext]_clientVars => WorkerInv'
  <2> SUFFICES ASSUME WorkerInv, [ClientNext]_clientVars PROVE WorkerInv'
    OBVIOUS
  <2>1. [Worker!Next]_workerVars
    BY DEF ClientNext, clientVars, workerVars
  <2>2. QED
    BY <2>1, WorkerSteps
<1>3. WorkerInv => WorkGoesOn
  BY DEF WorkerInv, WorkGoesOn
<1>4. QED
  BY <1>1, <1>2, <1>3, PTL DEF ClientSpec

-----------------------------------------------------------------------------
(* The slots of the low-priority requests.                                 *)

Serving(js) == {j \in Requests!Jobs : js[j].slot \in {"taken", "held"}}
LineOf(qs) == qs.prefetch \o qs.background

\* Nobody stands twice in a line; a line that has moved on by n.
OnceEach(s) == \A i, j \in 1 .. Len(s) : s[i] = s[j] => i = j
MovedOn(w, z, n) == Len(w) = Len(z) - n /\ \A i \in 1 .. Len(z) - n : w[i] = z[i + n]

\* What a drain is given and what it leaves: the counter counts the busy jobs and each
\* waiting job has one place in the line.
Slots(js, run, qs) ==
    /\ js \in [Requests!Jobs -> Requests!JobStates] /\ run \in 0 .. 4
    /\ qs \in [prefetch : Seq(Requests!Jobs), background : Seq(Requests!Jobs)]
    /\ run = Cardinality(Serving(js))
    /\ OnceEach(LineOf(qs))
    /\ \A j \in Requests!Jobs : js[j].slot = "queued" <=> \E n \in 1 .. Len(LineOf(qs)) : LineOf(qs)[n] = j
    /\ \A j \in Requests!Jobs : js[j].slot = "back" => js[j].answer # "pending"

\* The operators of the library as the module of the requests sees them.
LEMMA SameCardinality == ASSUME NEW S PROVE Requests!Cardinality(S) = Cardinality(S)
BY DEF Requests!Cardinality, Cardinality

LEMMA SameFiniteness == ASSUME NEW S PROVE Requests!IsFiniteSet(S) <=> IsFiniteSet(S)
BY DEF Requests!IsFiniteSet, IsFiniteSet

LEMMA JobsAreFinite == IsFiniteSet(Requests!Jobs)
BY ClientAssumption, FS_Union DEF Requests!Jobs

LEMMA ServingIsFinite == ASSUME NEW js PROVE IsFiniteSet(Serving(js)) /\ Cardinality(Serving(js)) \in Nat
BY JobsAreFinite, FS_Subset, FS_CardinalityType DEF Serving

\* Sequences end to end, and a part of one.
LEMMA EndToEnd ==
    ASSUME NEW S, NEW x \in Seq(S), NEW y \in Seq(S)
    PROVE  /\ x \o y \in Seq(S) /\ Len(x \o y) = Len(x) + Len(y) /\ Len(x) \in Nat /\ Len(y) \in Nat
           /\ \A i \in 1 .. Len(x) + Len(y) : (x \o y)[i] = IF i <= Len(x) THEN x[i] ELSE y[i - Len(x)]
OBVIOUS

LEMMA PartOf ==
    ASSUME NEW S, NEW s \in Seq(S), NEW m \in 0 .. Len(s)
    PROVE  SubSeq(s, m + 1, Len(s)) \in Seq(S) /\ MovedOn(SubSeq(s, m + 1, Len(s)), s, m)
BY DEF MovedOn

\* The first n of a line in which nobody stands twice are n.
LEMMA FirstAreSoMany ==
    ASSUME NEW S, NEW s \in Seq(S), NEW n \in 0 .. Len(s),
           OnceEach(s), NEW T, T = {s[i] : i \in 1 .. n}
    PROVE  Requests!ToSet(SubSeq(s, 1, n)) = T /\ IsFiniteSet(T) /\ Cardinality(T) = n
<1>1. Len(SubSeq(s, 1, n)) = n /\ \A i \in 1 .. n : SubSeq(s, 1, n)[i] = s[i]
  OBVIOUS
<1>2. Requests!ToSet(SubSeq(s, 1, n)) = {s[i] : i \in 1 .. n}
  <2>1. DOMAIN SubSeq(s, 1, n) = 1 .. n
    OBVIOUS
  <2>2. \A x : DOMAIN x = 1 .. n /\ (\A i \in 1 .. n : x[i] = s[i]) => Requests!ToSet(x) = {s[i] : i \in 1 .. n}
    BY DEF Requests!ToSet
  <2>3. QED
    BY <1>1, <2>1, <2>2
<1> DEFINE f == [i \in 1 .. n |-> s[i]]
<1>3. f \in Bijection(1 .. n, T)
  <2>1. 1 .. n \subseteq 1 .. Len(s)
    OBVIOUS
  <2>2. f \in Injection(1 .. n, T)
    BY <2>1 DEF Injection, IsInjective, OnceEach
  <2>3. f \in Surjection(1 .. n, T)
    BY DEF Surjection
  <2>4. QED
    BY <2>2, <2>3 DEF Bijection
<1>4. IsFiniteSet(1 .. n) /\ Cardinality(1 .. n) = n
  BY FS_Interval
<1>5. IsFiniteSet(T) /\ Cardinality(T) = n
  <2>1. ExistsBijection(1 .. n, T)
    BY <1>3 DEF ExistsBijection
  <2> HIDE DEF f
  <2>2. QED
    BY <1>4, <2>1, FS_Bijection
<1>6. QED
  BY <1>2, <1>5

\* Two lines of which the first n, over both, are gone: of the first line only.
LEMMA RestOfTheFirst ==
    ASSUME NEW S, NEW x \in Seq(S), NEW y \in Seq(S), NEW n \in 0 .. Len(x), NEW u \in Seq(S), NEW v \in Seq(S)
    PROVE  MovedOn(u, x, n) /\ MovedOn(v, y, 0) => MovedOn(u \o v, x \o y, n)
<1>1. /\ Len(x \o y) = Len(x) + Len(y) /\ Len(x) \in Nat /\ Len(y) \in Nat
      /\ \A i \in 1 .. Len(x) + Len(y) : (x \o y)[i] = IF i <= Len(x) THEN x[i] ELSE y[i - Len(x)]
  BY EndToEnd
<1>2. /\ Len(u \o v) = Len(u) + Len(v)
      /\ \A i \in 1 .. Len(u) + Len(v) : (u \o v)[i] = IF i <= Len(u) THEN u[i] ELSE v[i - Len(u)]
  BY EndToEnd
<1>k. Len(u) \in Nat /\ Len(v) \in Nat
  OBVIOUS
<1> SUFFICES ASSUME Len(u) = Len(x) - n, \A i \in 1 .. Len(x) - n : u[i] = x[i + n],
                    Len(v) = Len(y), \A i \in 1 .. Len(y) : v[i] = y[i]
             PROVE  /\ Len(u \o v) = Len(x \o y) - n
                    /\ \A i \in 1 .. Len(x \o y) - n : (u \o v)[i] = (x \o y)[i + n]
  <2>1. Len(y) - 0 = Len(y) /\ \A i \in 1 .. Len(y) : i + 0 = i
    BY <1>1
  <2>2. QED
    BY <2>1 DEF MovedOn
<1>3. ASSUME NEW i \in 1 .. Len(x \o y) - n PROVE (u \o v)[i] = (x \o y)[i + n]
  <2>1. i \in 1 .. Len(u) + Len(v) /\ i + n \in 1 .. Len(x) + Len(y)
    BY <1>1, <1>k
  <2>2. CASE i <= Len(u)
    <3>1. i \in 1 .. Len(x) - n /\ i + n <= Len(x)
      BY <1>1, <1>k, <2>2
    <3>2. (u \o v)[i] = u[i] /\ (x \o y)[i + n] = x[i + n]
      BY <1>1, <1>2, <2>1, <2>2, <3>1
    <3>3. QED
      BY <3>1, <3>2
  <2>3. CASE ~(i <= Len(u))
    <3>1. i - Len(u) \in 1 .. Len(y) /\ ~(i + n <= Len(x)) /\ i - Len(u) = i + n - Len(x)
      BY <1>1, <1>k, <2>1, <2>3
    <3>2. (u \o v)[i] = v[i - Len(u)] /\ (x \o y)[i + n] = y[i + n - Len(x)]
      BY <1>1, <1>2, <2>1, <2>3, <3>1
    <3>3. QED
      BY <3>1, <3>2
  <2>4. QED
    BY <2>2, <2>3
<1>4. QED
  BY <1>1, <1>2, <1>k, <1>3

\* And of both.
LEMMA RestOfTheSecond ==
    ASSUME NEW S, NEW x \in Seq(S), NEW y \in Seq(S), NEW m \in 0 .. Len(y), NEW u \in Seq(S), NEW v \in Seq(S)
    PROVE  Len(u) = 0 /\ MovedOn(v, y, m) => MovedOn(u \o v, x \o y, m + Len(x))
<1>1. /\ Len(x \o y) = Len(x) + Len(y) /\ Len(x) \in Nat /\ Len(y) \in Nat
      /\ \A i \in 1 .. Len(x) + Len(y) : (x \o y)[i] = IF i <= Len(x) THEN x[i] ELSE y[i - Len(x)]
  BY EndToEnd
<1>2. /\ Len(u \o v) = Len(u) + Len(v)
      /\ \A i \in 1 .. Len(u) + Len(v) : (u \o v)[i] = IF i <= Len(u) THEN u[i] ELSE v[i - Len(u)]
  BY EndToEnd
<1>k. Len(u) \in Nat /\ Len(v) \in Nat
  OBVIOUS
<1> SUFFICES ASSUME Len(u) = 0, Len(v) = Len(y) - m, \A i \in 1 .. Len(y) - m : v[i] = y[i + m]
             PROVE  /\ Len(u \o v) = Len(x \o y) - (m + Len(x))
                    /\ \A i \in 1 .. Len(x \o y) - (m + Len(x)) : (u \o v)[i] = (x \o y)[i + (m + Len(x))]
  BY DEF MovedOn
<1>3. ASSUME NEW i \in 1 .. Len(x \o y) - (m + Len(x)) PROVE (u \o v)[i] = (x \o y)[i + (m + Len(x))]
  <2>1. /\ i \in 1 .. Len(u) + Len(v) /\ ~(i <= Len(u)) /\ i - Len(u) = i /\ i \in 1 .. Len(y) - m
        /\ i + (m + Len(x)) \in 1 .. Len(x) + Len(y) /\ ~(i + (m + Len(x)) <= Len(x))
        /\ i + (m + Len(x)) - Len(x) = i + m
    BY <1>1, <1>k
  <2>2. (u \o v)[i] = v[i] /\ (x \o y)[i + (m + Len(x))] = y[i + m]
    BY <1>1, <1>2, <2>1
  <2>3. QED
    BY <2>1, <2>2
<1>4. QED
  BY <1>1, <1>2, <1>k, <1>3

LEMMA RestOfTheLine ==
    ASSUME NEW S, NEW x \in Seq(S), NEW y \in Seq(S), NEW n \in 0 .. Len(x) + Len(y), NEW u, NEW v,
           u = SubSeq(x, n + 1, Len(x)),
           v = SubSeq(y, IF n > Len(x) THEN n - Len(x) + 1 ELSE 1, Len(y))
    PROVE  u \in Seq(S) /\ v \in Seq(S) /\ MovedOn(u \o v, x \o y, n)
<1>1. Len(x) \in Nat /\ Len(y) \in Nat
  OBVIOUS
<1>2. CASE n <= Len(x)
  <2>1. ~(n > Len(x)) /\ 1 = 0 + 1 /\ n \in 0 .. Len(x) /\ 0 \in 0 .. Len(y)
    BY <1>1, <1>2
  <2>2. v = SubSeq(y, 0 + 1, Len(y))
    BY <2>1, Zenon
  <2>3. u \in Seq(S) /\ MovedOn(u, x, n) /\ v \in Seq(S) /\ MovedOn(v, y, 0)
    BY <2>1, <2>2, PartOf, Zenon
  <2>4. QED
    BY <2>1, <2>3, RestOfTheFirst, Zenon
<1>3. CASE ~(n <= Len(x))
  <2>1. n > Len(x) /\ n - Len(x) \in 0 .. Len(y) /\ n = (n - Len(x)) + Len(x)
    BY <1>1, <1>3
  <2>2. v = SubSeq(y, (n - Len(x)) + 1, Len(y))
    BY <2>1, Zenon
  <2>3. u \in Seq(S) /\ Len(u) = 0
    BY <2>1
  <2>4. v \in Seq(S) /\ MovedOn(v, y, n - Len(x))
    BY <2>1, <2>2, PartOf, Zenon
  <2>5. MovedOn(u \o v, x \o y, (n - Len(x)) + Len(x))
    BY <2>1, <2>3, <2>4, RestOfTheSecond, Zenon
  <2>6. QED
    BY <2>1, <2>3, <2>4, <2>5, Zenon
<1>4. QED
  BY <1>2, <1>3

\* How many of x that wait find room.
LEMMA Room ==
    ASSUME NEW r \in 0 .. 4, NEW lim \in 1 .. 4, NEW x \in Nat,
           NEW n, n = IF r >= lim THEN 0 ELSE IF x < lim - r THEN x ELSE lim - r
    PROVE  n \in 0 .. x /\ r + n <= 4
OBVIOUS

\* drain starts the first of the line, as many as are free, and leaves the others in theirs.
LEMMA DrainKeepsTheLine ==
    ASSUME NEW js, NEW run, NEW qs, NEW lim \in 1 .. 4, Slots(js, run, qs), Requests!Drain(js, run, qs, lim)
    PROVE  /\ Slots(jobs', running', queues')
           /\ \A j \in Requests!Jobs : \/ jobs'[j] = js[j]
                                       \/ js[j].slot = "queued" /\ jobs'[j] = [js[j] EXCEPT !.slot = "taken"]
<1>1. /\ qs.prefetch \in Seq(Requests!Jobs) /\ qs.background \in Seq(Requests!Jobs) /\ run \in 0 .. 4
      /\ js \in [Requests!Jobs -> Requests!JobStates]
  BY DEF Slots
<1>2. PICK L \in Seq(Requests!Jobs) : L = qs.prefetch \o qs.background
  <2>1. qs.prefetch \o qs.background \in Seq(Requests!Jobs)
    BY <1>1, EndToEnd, Zenon
  <2>2. QED
    BY <2>1, Zenon
<1>a. L = LineOf(qs) /\ Len(L) = Len(qs.prefetch) + Len(qs.background) /\ Len(L) \in Nat
  BY <1>1, <1>2, EndToEnd, Zenon DEF LineOf
<1>3. PICK n \in 0 .. Len(L) :
        /\ run + n <= 4 /\ running' = run + n
        /\ queues' = [prefetch |-> SubSeq(qs.prefetch, n + 1, Len(qs.prefetch)),
                      background |-> SubSeq(qs.background, IF n > Len(qs.prefetch) THEN n - Len(qs.prefetch) + 1 ELSE 1,
                                            Len(qs.background))]
        /\ jobs' = [j \in Requests!Jobs |-> IF j \in Requests!ToSet(SubSeq(L, 1, n)) THEN [js[j] EXCEPT !.slot = "taken"] ELSE js[j]]
  <2> DEFINE n == IF run >= lim THEN 0
                  ELSE IF Len(qs.prefetch \o qs.background) < lim - run THEN Len(qs.prefetch \o qs.background) ELSE lim - run
  <2>1. /\ running' = run + n
        /\ queues' = [prefetch |-> SubSeq(qs.prefetch, n + 1, Len(qs.prefetch)),
                      background |-> SubSeq(qs.background, IF n > Len(qs.prefetch) THEN n - Len(qs.prefetch) + 1 ELSE 1,
                                            Len(qs.background))]
        /\ jobs' = [j \in Requests!Jobs |-> IF j \in Requests!ToSet(SubSeq(qs.prefetch \o qs.background, 1, n))
                                            THEN [js[j] EXCEPT !.slot = "taken"] ELSE js[j]]
    <3>1. Requests!Drain(js, run, qs, lim)
      OBVIOUS
    <3>2. QED
      BY <3>1, Zenon DEF Requests!Drain
  <2>2. n = IF run >= lim THEN 0 ELSE IF Len(L) < lim - run THEN Len(L) ELSE lim - run
    BY <1>2
  <2> HIDE DEF n
  <2>3. n \in 0 .. Len(L) /\ run + n <= 4
    BY <1>1, <1>a, <2>2, Room
  <2>4. QED
    BY <1>2, <2>1, <2>3, Zenon
<1>n. run + n <= 4 /\ running' = run + n
  BY <1>3, Zenon
<1>T. PICK T : T = {L[i] : i \in 1 .. n}
  OBVIOUS
<1>4. OnceEach(L)
  BY <1>a DEF Slots
<1>5. Requests!ToSet(SubSeq(L, 1, n)) = T /\ IsFiniteSet(T) /\ Cardinality(T) = n
  <2>1. \A W : W = {L[i] : i \in 1 .. n} => Requests!ToSet(SubSeq(L, 1, n)) = W /\ IsFiniteSet(W) /\ Cardinality(W) = n
    BY <1>4, FirstAreSoMany
  <2>2. QED
    BY <1>T, <2>1
<1>6. \A j \in Requests!Jobs : js[j].slot = "queued" <=> \E i \in 1 .. Len(L) : L[i] = j
  BY <1>a DEF Slots
<1>7. T \subseteq Requests!Jobs /\ \A j \in T : js[j].slot = "queued"
  <2>1. 1 .. n \subseteq 1 .. Len(L) /\ \A i \in 1 .. Len(L) : L[i] \in Requests!Jobs
    OBVIOUS
  <2>2. QED
    BY <1>6, <1>T, <2>1
<1>8. jobs' = [j \in Requests!Jobs |-> IF j \in T THEN [js[j] EXCEPT !.slot = "taken"] ELSE js[j]]
  BY <1>3, <1>5
<1>j. \A j \in Requests!Jobs : js[j] \in Requests!JobStates
  BY <1>1
<1>9. \A j \in Requests!Jobs : IF j \in T
        THEN jobs'[j] \in Requests!JobStates /\ jobs'[j].slot = "taken" /\ jobs'[j] = [js[j] EXCEPT !.slot = "taken"]
        ELSE jobs'[j] = js[j]
  BY <1>8, <1>j DEF Requests!JobStates
<1>10. jobs' \in [Requests!Jobs -> Requests!JobStates]
  <2>1. \A j \in Requests!Jobs : jobs'[j] \in Requests!JobStates
    BY <1>9, <1>j
  <2>2. QED
    BY <1>8, <2>1
<1>11. Serving(jobs') = Serving(js) \cup T /\ Serving(js) \cap T = {}
  BY <1>7, <1>9 DEF Serving
<1>12. running' = Cardinality(Serving(jobs'))
  <2>1. run = Cardinality(Serving(js)) /\ IsFiniteSet(Serving(js))
    BY ServingIsFinite DEF Slots
  <2>2. Cardinality(Serving(js) \cup T) = Cardinality(Serving(js)) + Cardinality(T) - Cardinality(Serving(js) \cap T)
    BY <2>1, <1>5, FS_Union
  <2>3. Cardinality({}) = 0
    BY FS_EmptySet
  <2>4. Cardinality(Serving(jobs')) = run + n - 0
    BY <1>5, <1>11, <2>1, <2>2, <2>3
  <2>5. QED
    BY <1>1, <1>3, <2>4
<1>13. PICK K : /\ K = LineOf(queues') /\ queues' \in [prefetch : Seq(Requests!Jobs), background : Seq(Requests!Jobs)]
                /\ MovedOn(K, L, n)
  <2>1. n \in 0 .. Len(qs.prefetch) + Len(qs.background)
    BY <1>a
  <2>2. PICK u, v : /\ u = SubSeq(qs.prefetch, n + 1, Len(qs.prefetch))
                    /\ v = SubSeq(qs.background, IF n > Len(qs.prefetch) THEN n - Len(qs.prefetch) + 1 ELSE 1,
                                  Len(qs.background))
    OBVIOUS
  <2>3. u \in Seq(Requests!Jobs) /\ v \in Seq(Requests!Jobs) /\ MovedOn(u \o v, qs.prefetch \o qs.background, n)
    <3>1. qs.prefetch \in Seq(Requests!Jobs) /\ qs.background \in Seq(Requests!Jobs)
      BY <1>1
    <3>2. QED
      BY <2>1, <2>2, <3>1, RestOfTheLine, Zenon
  <2>4. queues' = [prefetch |-> u, background |-> v]
    BY <1>3, <2>2, Zenon
  <2>5. queues' \in [prefetch : Seq(Requests!Jobs), background : Seq(Requests!Jobs)] /\ LineOf(queues') = u \o v
    BY <2>3, <2>4 DEF LineOf
  <2>6. MovedOn(LineOf(queues'), L, n)
    BY <1>2, <2>3, <2>5, Zenon
  <2>7. QED
    BY <2>5, <2>6, Zenon
<1>m. Len(K) = Len(L) - n /\ \A i \in 1 .. Len(L) - n : K[i] = L[i + n]
  BY <1>13, Zenon DEF MovedOn
<1>t. Len(L) \in Nat /\ n \in 0 .. Len(L)
  BY <1>a
<1>14. OnceEach(K)
  <2> SUFFICES ASSUME NEW i \in 1 .. Len(K), NEW j \in 1 .. Len(K), K[i] = K[j] PROVE i = j
    BY DEF OnceEach
  <2>1. i + n \in 1 .. Len(L) /\ j + n \in 1 .. Len(L) /\ i \in 1 .. Len(L) - n /\ j \in 1 .. Len(L) - n
    BY <1>t, <1>m
  <2>2. L[i + n] = L[j + n]
    BY <2>1, <1>m
  <2>3. i + n = j + n
    BY <2>1, <2>2, <1>4 DEF OnceEach
  <2>4. QED
    BY <2>3
<1>15. \A j \in Requests!Jobs : jobs'[j].slot = "queued" <=> \E i \in 1 .. Len(K) : K[i] = j
  <2> SUFFICES ASSUME NEW j \in Requests!Jobs PROVE jobs'[j].slot = "queued" <=> \E i \in 1 .. Len(K) : K[i] = j
    OBVIOUS
  <2>1. ASSUME jobs'[j].slot = "queued" PROVE \E i \in 1 .. Len(K) : K[i] = j
    <3>1. j \notin T /\ js[j].slot = "queued"
      BY <1>9, <2>1
    <3>2. PICK i \in 1 .. Len(L) : L[i] = j
      BY <1>6, <3>1
    <3>3. i \notin 1 .. n
      BY <1>T, <3>1, <3>2
    <3>4. i - n \in 1 .. Len(K) /\ i - n \in 1 .. Len(L) - n /\ (i - n) + n = i
      BY <1>t, <1>m, <3>3
    <3>5. QED
      BY <1>m, <3>2, <3>4
  <2>2. ASSUME NEW i \in 1 .. Len(K), K[i] = j PROVE jobs'[j].slot = "queued"
    <3>1. i + n \in 1 .. Len(L) /\ i \in 1 .. Len(L) - n /\ i + n \notin 1 .. n
      BY <1>t, <1>m
    <3>2. L[i + n] = j
      BY <1>m, <2>2, <3>1
    <3>3. j \notin T
      <4>1. \A m \in 1 .. n : m \in 1 .. Len(L) /\ m # i + n
        BY <1>t, <3>1
      <4>2. QED
        BY <1>4, <1>T, <3>1, <3>2, <4>1 DEF OnceEach
    <3>4. QED
      BY <1>6, <1>9, <3>1, <3>2, <3>3
  <2>3. QED
    BY <2>1, <2>2
<1>16. \A j \in Requests!Jobs : jobs'[j].slot = "back" => jobs'[j].answer # "pending"
  BY <1>9 DEF Slots
<1>17. running' \in 0 .. 4
  BY <1>1, <1>n, <1>t
<1>18. Slots(jobs', running', queues')
  BY <1>10, <1>12, <1>13, <1>14, <1>15, <1>16, <1>17 DEF Slots
<1>19. QED
  BY <1>7, <1>9, <1>18

\* A line of two parts, and who stands in it.
LEMMA InLine ==
    ASSUME NEW S, NEW x \in Seq(S), NEW y \in Seq(S), NEW j
    PROVE  j \in Requests!ToSet(x) \cup Requests!ToSet(y) <=> \E n \in 1 .. Len(x \o y) : (x \o y)[n] = j
<1>1. /\ Len(x \o y) = Len(x) + Len(y) /\ Len(x) \in Nat /\ Len(y) \in Nat
      /\ \A i \in 1 .. Len(x) + Len(y) : (x \o y)[i] = IF i <= Len(x) THEN x[i] ELSE y[i - Len(x)]
  BY EndToEnd
<1>2. DOMAIN x = 1 .. Len(x) /\ DOMAIN y = 1 .. Len(y)
  OBVIOUS
<1>3. ASSUME j \in Requests!ToSet(x) PROVE \E n \in 1 .. Len(x \o y) : (x \o y)[n] = j
  <2>1. PICK i \in 1 .. Len(x) : x[i] = j
    BY <1>2, <1>3 DEF Requests!ToSet
  <2>2. i \in 1 .. Len(x) + Len(y) /\ i <= Len(x)
    BY <1>1
  <2>3. QED
    BY <1>1, <2>1, <2>2
<1>4. ASSUME j \in Requests!ToSet(y) PROVE \E n \in 1 .. Len(x \o y) : (x \o y)[n] = j
  <2>1. PICK i \in 1 .. Len(y) : y[i] = j
    BY <1>2, <1>4 DEF Requests!ToSet
  <2>2. i + Len(x) \in 1 .. Len(x) + Len(y) /\ ~(i + Len(x) <= Len(x)) /\ (i + Len(x)) - Len(x) = i
    BY <1>1
  <2>3. (x \o y)[i + Len(x)] = j
    BY <1>1, <2>1, <2>2
  <2>4. QED
    BY <1>1, <2>2, <2>3
<1>5. ASSUME NEW n \in 1 .. Len(x \o y), (x \o y)[n] = j PROVE j \in Requests!ToSet(x) \cup Requests!ToSet(y)
  <2>1. CASE n <= Len(x)
    <3>1. n \in 1 .. Len(x) /\ n \in 1 .. Len(x) + Len(y)
      BY <1>1, <2>1
    <3>2. x[n] = j
      BY <1>1, <1>5, <2>1, <3>1
    <3>3. QED
      BY <1>2, <3>1, <3>2 DEF Requests!ToSet
  <2>2. CASE ~(n <= Len(x))
    <3>1. n - Len(x) \in 1 .. Len(y) /\ n \in 1 .. Len(x) + Len(y)
      BY <1>1, <2>2
    <3>2. y[n - Len(x)] = j
      BY <1>1, <1>5, <2>2, <3>1
    <3>3. QED
      BY <1>2, <3>1, <3>2 DEF Requests!ToSet
  <2>3. QED
    BY <2>1, <2>2
<1>6. QED
  BY <1>3, <1>4, <1>5

\* Slots is what SlotsAddUp and QueuedOnce say.
LEMMA SlotsSay ==
    ASSUME NEW js, NEW run, NEW qs, qs \in [prefetch : Seq(Requests!Jobs), background : Seq(Requests!Jobs)]
    PROVE  Slots(js, run, qs) <=>
             /\ js \in [Requests!Jobs -> Requests!JobStates] /\ run \in 0 .. 4
             /\ run = Cardinality({j \in Requests!Jobs : js[j].slot \in {"taken", "held"}})
             /\ \A m, n \in 1 .. Len(qs.prefetch \o qs.background) :
                  (qs.prefetch \o qs.background)[m] = (qs.prefetch \o qs.background)[n] => m = n
             /\ \A j \in Requests!Jobs : js[j].slot = "queued"
                     <=> j \in Requests!ToSet(qs.prefetch) \cup Requests!ToSet(qs.background)
             /\ \A j \in Requests!Jobs : js[j].slot = "back" => js[j].answer # "pending"
<1>1. qs.prefetch \in Seq(Requests!Jobs) /\ qs.background \in Seq(Requests!Jobs)
  OBVIOUS
<1>2. PICK L : L = LineOf(qs)
  OBVIOUS
<1>3. \A j : j \in Requests!ToSet(qs.prefetch) \cup Requests!ToSet(qs.background) <=> \E n \in 1 .. Len(L) : L[n] = j
  <2>1. ASSUME NEW j
        PROVE  j \in Requests!ToSet(qs.prefetch) \cup Requests!ToSet(qs.background)
               <=> \E n \in 1 .. Len(qs.prefetch \o qs.background) : (qs.prefetch \o qs.background)[n] = j
    BY <1>1, InLine
  <2>2. L = qs.prefetch \o qs.background
    BY <1>2 DEF LineOf
  <2>3. QED
    BY <2>1, <2>2
<1>4. \A j \in Requests!Jobs : (js[j].slot = "queued" <=> j \in Requests!ToSet(qs.prefetch) \cup Requests!ToSet(qs.background))
                               <=> (js[j].slot = "queued" <=> \E n \in 1 .. Len(LineOf(qs)) : LineOf(qs)[n] = j)
  BY <1>2, <1>3, Zenon
<1>5. OnceEach(LineOf(qs)) <=>
        \A m, n \in 1 .. Len(qs.prefetch \o qs.background) :
          (qs.prefetch \o qs.background)[m] = (qs.prefetch \o qs.background)[n] => m = n
  BY Zenon DEF OnceEach, LineOf
<1>6. QED
  BY <1>4, <1>5, Zenon DEF Slots, Serving

LEMMA SlotsNow == ASSUME Requests!IInv PROVE Slots(jobs, running, queues)
<1>1. /\ queues \in [prefetch : Seq(Requests!Jobs), background : Seq(Requests!Jobs)]
      /\ jobs \in [Requests!Jobs -> Requests!JobStates] /\ running \in 0 .. 4
  BY Zenon DEF Requests!IInv, Requests!TypeOK
<1>2. QED
  <2>1. Requests!QueuedOnce /\ Requests!SlotsAddUp
    BY Zenon DEF Requests!IInv
  <2>2. \A m, n \in 1 .. Len(queues.prefetch \o queues.background) :
          (queues.prefetch \o queues.background)[m] = (queues.prefetch \o queues.background)[n] => m = n
    BY <2>1, Zenon DEF Requests!QueuedOnce, Requests!Line
  <2>3. /\ running = Cardinality({j \in Requests!Jobs : jobs[j].slot \in {"taken", "held"}})
        /\ \A j \in Requests!Jobs : jobs[j].slot = "queued"
                <=> j \in Requests!ToSet(queues.prefetch) \cup Requests!ToSet(queues.background)
        /\ \A j \in Requests!Jobs : jobs[j].slot = "back" => jobs[j].answer # "pending"
    BY <2>1, SameCardinality, Zenon DEF Requests!SlotsAddUp
  <2>4. QED
    BY <1>1, <2>2, <2>3, SlotsSay, Zenon

LEMMA LimitIsSmall == ASSUME NEW p \in BOOLEAN, NEW i \in Limits PROVE Requests!limit(p, i) \in 1 .. 4
BY ClientAssumption DEF Requests!limit

\* Finish for the jobs of who, whose answers js has: what held a slot gives it back, once.
LEMMA FinishKeepsTheSlots ==
    ASSUME Requests!IInv, NEW who \in SUBSET Requests!Jobs, NEW js \in [Requests!Jobs -> Requests!JobStates],
           \A j \in Requests!Jobs : js[j].slot = jobs[j].slot /\ (jobs[j].answer # "pending" => js[j].answer # "pending"),
           \A j \in who : jobs[j].slot = "held" => js[j].answer # "pending",
           Requests!Finish(who, js)
    PROVE  /\ Slots(jobs', running', queues')
           /\ \A j \in Requests!Jobs : LET back == j \in who /\ jobs[j].slot = "held"
                                       IN  \/ back /\ jobs'[j] = [js[j] EXCEPT !.slot = "back"]
                                           \/ ~back /\ jobs'[j] = js[j]
                                           \/ jobs[j].slot = "queued" /\ jobs'[j] = [js[j] EXCEPT !.slot = "taken"]
<1>1. PICK F : F = {j \in who : jobs[j].slot = "held"}
  OBVIOUS
<1>2. Requests!Freed(who) = F
  BY <1>1 DEF Requests!Freed
<1>3. PICK ks : ks = [j \in Requests!Jobs |-> IF j \in F THEN [js[j] EXCEPT !.slot = "back"] ELSE js[j]]
  OBVIOUS
<1>4. PICK n : n = running - Cardinality(F)
  OBVIOUS
<1>5. PICK lim : lim = Requests!limit(sounding, idleLimit)
  OBVIOUS
<1>6. lim \in 1 .. 4
  <2>1. sounding \in BOOLEAN /\ idleLimit \in Limits
    BY Zenon DEF Requests!IInv, Requests!TypeOK
  <2>2. QED
    BY <1>5, <2>1, LimitIsSmall
<1>7. Requests!Drain(ks, n, queues, lim)
  <2>1. Requests!Finish(who, js)
    OBVIOUS
  <2>2. QED
    <3>1. Requests!Drain([j \in Requests!Jobs |-> IF j \in Requests!Freed(who) THEN [js[j] EXCEPT !.slot = "back"]
                                                  ELSE js[j]],
                         running - Requests!Cardinality(Requests!Freed(who)), queues, Requests!limit(sounding, idleLimit))
      BY <2>1, Zenon DEF Requests!Finish
    <3>2. QED
      BY <1>2, <1>3, <1>4, <1>5, <3>1, SameCardinality
<1>8. Slots(jobs, running, queues)
  BY SlotsNow
<1>9. \A j \in Requests!Jobs : js[j] \in Requests!JobStates /\ jobs[j] \in Requests!JobStates
  <2>1. jobs \in [Requests!Jobs -> Requests!JobStates]
    BY Zenon DEF Requests!IInv, Requests!TypeOK
  <2>2. QED
    BY <2>1
<1>10. \A j \in Requests!Jobs : IF j \in F
         THEN ks[j] \in Requests!JobStates /\ ks[j].slot = "back" /\ ks[j].answer = js[j].answer
              /\ ks[j] = [js[j] EXCEPT !.slot = "back"]
         ELSE ks[j] = js[j]
  BY <1>3, <1>9 DEF Requests!JobStates
<1>11. ks \in [Requests!Jobs -> Requests!JobStates]
  <2>1. \A j \in Requests!Jobs : ks[j] \in Requests!JobStates
    BY <1>9, <1>10
  <2>2. QED
    BY <1>3, <2>1
<1>12. F \subseteq Serving(jobs) /\ Serving(ks) = Serving(jobs) \ F
  BY <1>1, <1>10, ZenonT(30) DEF Serving
<1>13. n \in 0 .. 4 /\ n = Cardinality(Serving(ks))
  <2>1. IsFiniteSet(Serving(jobs)) /\ running = Cardinality(Serving(jobs)) /\ running \in 0 .. 4
    BY <1>8, ServingIsFinite, Zenon DEF Slots
  <2>2. Serving(jobs) \cap F = F
    BY <1>12
  <2>3. Cardinality(Serving(jobs) \ F) = Cardinality(Serving(jobs)) - Cardinality(Serving(jobs) \cap F)
    BY <2>1, FS_Difference
  <2>4. Cardinality(F) \in Nat /\ Cardinality(Serving(ks)) \in Nat
    BY <1>12, <2>1, FS_Subset, FS_CardinalityType, ServingIsFinite
  <2>5. Cardinality(Serving(ks)) = running - Cardinality(F)
    BY <1>12, <2>1, <2>2, <2>3
  <2>6. QED
    BY <1>4, <2>1, <2>4, <2>5
<1>14. \A j \in Requests!Jobs : ks[j].slot = "queued" <=> jobs[j].slot = "queued"
  BY <1>1, <1>10
<1>15. \A j \in Requests!Jobs : ks[j].slot = "back" => ks[j].answer # "pending"
  <2> TAKE j \in Requests!Jobs
  <2>1. CASE j \in F
    BY <1>1, <1>10, <2>1
  <2>2. CASE j \notin F
    <3>1. ks[j] = js[j]
      BY <1>10, <2>2
    <3>2. jobs[j].slot = "back" => jobs[j].answer # "pending"
      BY <1>8 DEF Slots
    <3>3. QED
      BY <3>1, <3>2
  <2>3. QED
    BY <2>1, <2>2
<1>16. Slots(ks, n, queues)
  BY <1>8, <1>11, <1>13, <1>14, <1>15, Zenon DEF Slots
<1>17. /\ Slots(jobs', running', queues')
       /\ \A j \in Requests!Jobs : \/ jobs'[j] = ks[j]
                                   \/ ks[j].slot = "queued" /\ jobs'[j] = [ks[j] EXCEPT !.slot = "taken"]
  BY <1>6, <1>7, <1>16, DrainKeepsTheLine
<1>18. ASSUME NEW j \in Requests!Jobs
       PROVE  LET back == j \in who /\ jobs[j].slot = "held"
              IN  \/ back /\ jobs'[j] = [js[j] EXCEPT !.slot = "back"]
                  \/ ~back /\ jobs'[j] = js[j]
                  \/ jobs[j].slot = "queued" /\ jobs'[j] = [js[j] EXCEPT !.slot = "taken"]
  <2>1. CASE j \in F
    <3>1. jobs'[j] = [js[j] EXCEPT !.slot = "back"] /\ j \in who /\ jobs[j].slot = "held"
      <4>1. ks[j] = [js[j] EXCEPT !.slot = "back"] /\ ks[j].slot = "back"
        BY <1>10, <2>1
      <4>2. jobs'[j] = ks[j]
        BY <1>17, <4>1
      <4>3. QED
        BY <1>1, <2>1, <4>1, <4>2
    <3>2. QED
      BY <3>1
  <2>2. CASE j \notin F
    <3>1. ks[j] = js[j] /\ ~(j \in who /\ jobs[j].slot = "held")
      BY <1>1, <1>10, <2>2
    <3>2. jobs'[j] = js[j] \/ (jobs[j].slot = "queued" /\ jobs'[j] = [js[j] EXCEPT !.slot = "taken"])
      BY <1>14, <1>17, <3>1
    <3>3. QED
      BY <3>1, <3>2
  <2>3. QED
    BY <2>1, <2>2
<1>19. QED
  BY <1>17, <1>18

\* What Slots says again in the words of the module, of the state a step leaves.
LEMMA SlotsThen ==
    ASSUME Slots(jobs', running', queues'), DOMAIN loads' = DOMAIN loads
    PROVE  /\ Requests!SlotsAddUp' /\ Requests!QueuedOnce'
           /\ running' \in 0 .. 4 /\ queues' \in [prefetch : Seq(Requests!Jobs), background : Seq(Requests!Jobs)]
           /\ jobs' \in [Requests!Jobs -> Requests!JobStates']
<1>1. queues' \in [prefetch : Seq(Requests!Jobs), background : Seq(Requests!Jobs)]
  BY Zenon DEF Slots
<1>2. /\ jobs' \in [Requests!Jobs -> Requests!JobStates] /\ running' \in 0 .. 4
      /\ running' = Cardinality({j \in Requests!Jobs : jobs'[j].slot \in {"taken", "held"}})
      /\ \A m, n \in 1 .. Len(queues'.prefetch \o queues'.background) :
           (queues'.prefetch \o queues'.background)[m] = (queues'.prefetch \o queues'.background)[n] => m = n
      /\ \A j \in Requests!Jobs : jobs'[j].slot = "queued"
              <=> j \in Requests!ToSet(queues'.prefetch) \cup Requests!ToSet(queues'.background)
      /\ \A j \in Requests!Jobs : jobs'[j].slot = "back" => jobs'[j].answer # "pending"
  BY <1>1, SlotsSay, Zenon
<1>3. Requests!SlotsAddUp'
  BY <1>2, SameCardinality, Zenon DEF Requests!SlotsAddUp
<1>4. Requests!QueuedOnce'
  BY <1>2, Zenon DEF Requests!QueuedOnce, Requests!Line
<1>5. Requests!JobStates' = Requests!JobStates
  BY Zenon DEF Requests!JobStates
<1>6. QED
  BY <1>1, <1>2, <1>3, <1>4, <1>5, Zenon

Entries(n) == [key : Keys, load : 1 .. n, since : 1 .. n, old : BOOLEAN]

LEMMA CacheTyped ==
    ASSUME Requests!IInv
    PROVE  /\ loads \in Seq(Requests!Load) /\ Len(loads) \in Nat /\ DOMAIN loads = 1 .. Len(loads)
           /\ \A l \in 1 .. Len(loads) : loads[l] \in Requests!Load
           /\ cache \subseteq Entries(Len(loads)) /\ IsFiniteSet(cache) /\ Cardinality(cache) <= MaxEntries
<1>1. /\ loads \in Seq(Requests!Load)
      /\ cache \subseteq [key : Keys, load : DOMAIN loads, since : DOMAIN loads, old : BOOLEAN]
      /\ Requests!IsFiniteSet(cache) /\ Requests!Cardinality(cache) <= MaxEntries
  BY Zenon DEF Requests!IInv, Requests!TypeOK
<1>2. Len(loads) \in Nat /\ DOMAIN loads = 1 .. Len(loads) /\ \A l \in 1 .. Len(loads) : loads[l] \in Requests!Load
  BY <1>1
<1>3. IsFiniteSet(cache) /\ Cardinality(cache) <= MaxEntries
  BY <1>1, SameFiniteness, SameCardinality
<1>4. QED
  BY <1>1, <1>2, <1>3, Zenon DEF Entries

\* Entries that are dropped make no more of them.
LEMMA FewerEntries ==
    ASSUME Requests!IInv, cache' \subseteq cache
    PROVE  Requests!IsFiniteSet(cache') /\ Requests!Cardinality(cache') <= MaxEntries
<1>1. IsFiniteSet(cache) /\ Cardinality(cache) <= MaxEntries
  BY CacheTyped
<1>2. IsFiniteSet(cache') /\ Cardinality(cache') <= Cardinality(cache)
  BY <1>1, FS_Subset
<1>3. Cardinality(cache') \in Nat /\ Cardinality(cache) \in Nat /\ MaxEntries \in Nat
  BY <1>1, <1>2, FS_CardinalityType, ClientAssumption
<1>4. Cardinality(cache') <= MaxEntries
  BY <1>1, <1>2, <1>3
<1>5. QED
  BY <1>2, <1>4, SameFiniteness, SameCardinality

\* The signals after a step.
SignalThen(who) == IF who \in Requests!Jobs THEN jobs'[who].aborted ELSE viewer'.asks[who].aborted

\* What a step may do to a job j, from u to v: what has timed out is over.
Going(j, u, v) ==
    /\ v.aborted \/ v.late => u.aborted \/ u.late \/ v.slot = "back"
    /\ u.slot = "held" => v.slot \in {"held", "back"}
    /\ u.slot = "back" => v.slot = "back"
    /\ j \in Prefetches /\ v.slot = "held" => u.slot = "held" /\ v.waits = u.waits

\* And what most do.
Steady(j, u, v) == v.aborted = u.aborted /\ (v.late => u.late) /\ Going(j, u, v)

\* A step that changes jobs, slots and the signals of the network, and drops entries.
LEMMA StepsAndDrops ==
    ASSUME Requests!IInv, Slots(jobs', running', queues'), UNCHANGED <<loads, viewer>>, cache' \subseteq cache,
           sounding' \in BOOLEAN, idleLimit' \in Limits,
           \A j \in Requests!Jobs : Going(j, jobs[j], jobs'[j]),
           \A e \in cache' : loads[e.load].state = "pending" => ~SignalThen(loads[e.load].by)
    PROVE  Requests!IInv'
<1>1. /\ Requests!SlotsAddUp' /\ Requests!QueuedOnce' /\ running' \in 0 .. 4
      /\ queues' \in [prefetch : Seq(Requests!Jobs), background : Seq(Requests!Jobs)]
      /\ jobs' \in [Requests!Jobs -> Requests!JobStates']
  BY SlotsThen
<1>2. Requests!Load' = Requests!Load /\ Requests!AskStates' = Requests!AskStates /\ Requests!Now' = Requests!Now
  BY Zenon DEF Requests!Load, Requests!AskStates, Requests!Callers, Requests!Now
<1>3. Requests!TypeOK'
  <2>1. /\ loads \in Seq(Requests!Load) /\ Len(loads) <= Requests!Cardinality(Prefetches) + MaxAsks
        /\ cache \subseteq [key : Keys, load : DOMAIN loads, since : DOMAIN loads, old : BOOLEAN]
        /\ viewer \in [asks : Seq(Requests!AskStates), shown : Keys \cup {None, "error"}, loading : BOOLEAN]
        /\ Requests!Now <= MaxAsks
    BY Zenon DEF Requests!IInv, Requests!TypeOK
  <2>2. cache' \subseteq [key : Keys, load : DOMAIN loads, since : DOMAIN loads, old : BOOLEAN]
    BY <2>1
  <2>3. Requests!IsFiniteSet(cache') /\ Requests!Cardinality(cache') <= MaxEntries
    BY FewerEntries
  <2>4. QED
    BY <1>1, <1>2, <2>1, <2>2, <2>3, Zenon DEF Requests!TypeOK
<1>4. Requests!AbortedAreOver'
  BY Zenon DEF Requests!IInv, Requests!AbortedAreOver, Going
<1>5. Requests!AsksInTurn'
  BY <1>2, Zenon DEF Requests!IInv, Requests!AsksInTurn
<1>6. Requests!LoadsOfCallers'
  <2>1. Requests!LoadsOfCallers
    BY Zenon DEF Requests!IInv
  <2>2. Prefetches \subseteq Requests!Jobs
    BY DEF Requests!Jobs
  <2>3. \A j \in Prefetches : jobs[j].slot \in {"held", "back"} => jobs'[j].slot \in {"held", "back"}
    BY <2>2 DEF Going
  <2>4. \A l \in 1 .. Len(loads) :
         \/ loads[l].by \in Prefetches /\ jobs'[loads[l].by].slot \in {"held", "back"}
         \/ loads[l].by \in 1 .. Requests!Now /\ viewer.asks[loads[l].by].state # "turned"
    BY <2>1, <2>3, Zenon DEF Requests!LoadsOfCallers
  <2>5. QED
    BY <1>2, <2>1, <2>4, Zenon DEF Requests!LoadsOfCallers
<1>7. Requests!BegunWaits'
  BY Zenon DEF Requests!IInv, Requests!BegunWaits, Requests!Jobs, Going
<1>8. Requests!NoDoomedEntry'
  <2>1. \A e \in cache' : loads[e.load].state # "rejected"
    BY Zenon DEF Requests!IInv, Requests!NoDoomedEntry
  <2>2. QED
    BY <2>1, Zenon DEF Requests!NoDoomedEntry, Requests!SignalOf, SignalThen
<1>9. Requests!ShowsCurrent'
  BY <1>2, Zenon DEF Requests!IInv, Requests!ShowsCurrent
<1>10. QED
  BY <1>1, <1>3, <1>4, <1>5, <1>6, <1>7, <1>8, <1>9, Zenon DEF Requests!IInv

\* A step that changes jobs, slots and the signals of the network only.
LEMMA StepsOfJobs ==
    ASSUME Requests!IInv, Slots(jobs', running', queues'), UNCHANGED <<loads, cache, viewer>>,
           sounding' \in BOOLEAN, idleLimit' \in Limits, \A j \in Requests!Jobs : Steady(j, jobs[j], jobs'[j])
    PROVE  Requests!IInv'
<1>1. \A j \in Requests!Jobs : Going(j, jobs[j], jobs'[j])
  BY Zenon DEF Steady, Going
<1>2. \A who : SignalThen(who) = Requests!SignalOf(who)
  BY Zenon DEF Requests!SignalOf, SignalThen, Steady
<1>3. \A e \in cache' : loads[e.load].state = "pending" => ~SignalThen(loads[e.load].by)
  BY <1>2, Zenon DEF Requests!IInv, Requests!NoDoomedEntry
<1>4. QED
  BY <1>1, <1>3, StepsAndDrops

LEMMA JobsTyped ==
    ASSUME Requests!IInv
    PROVE  /\ jobs \in [Requests!Jobs -> Requests!JobStates] /\ sounding \in BOOLEAN /\ idleLimit \in Limits
           /\ \A j \in Requests!Jobs : jobs[j] \in Requests!JobStates
<1>1. jobs \in [Requests!Jobs -> Requests!JobStates] /\ sounding \in BOOLEAN /\ idleLimit \in Limits
  BY Zenon DEF Requests!IInv, Requests!TypeOK
<1>2. QED
  BY <1>1

\* A slot changes and nothing else of the job.
LEMMA AnotherSlot ==
    ASSUME NEW r \in Requests!JobStates, NEW x \in {"none", "queued", "taken", "held", "back"}
    PROVE  /\ [r EXCEPT !.slot = x] \in Requests!JobStates /\ [r EXCEPT !.slot = x].slot = x
           /\ [r EXCEPT !.slot = x].answer = r.answer /\ [r EXCEPT !.slot = x].aborted = r.aborted
           /\ [r EXCEPT !.slot = x].late = r.late /\ [r EXCEPT !.slot = x].waits = r.waits
BY DEF Requests!JobStates

LEMMA setPlaybackActiveKeeps == ASSUME Requests!IInv, Requests!setPlaybackActive PROVE Requests!IInv'
<1>1. Slots(jobs, running, queues) /\ Requests!limit(~sounding, idleLimit) \in 1 .. 4
  BY SlotsNow, JobsTyped, LimitIsSmall
<1>2. Requests!Drain(jobs, running, queues, Requests!limit(~sounding, idleLimit))
  BY Zenon DEF Requests!setPlaybackActive
<1>3. /\ Slots(jobs', running', queues')
      /\ \A j \in Requests!Jobs : \/ jobs'[j] = jobs[j]
                                  \/ jobs[j].slot = "queued" /\ jobs'[j] = [jobs[j] EXCEPT !.slot = "taken"]
  BY <1>1, <1>2, DrainKeepsTheLine
<1>4. UNCHANGED <<loads, cache, viewer>> /\ sounding' \in BOOLEAN /\ idleLimit' \in Limits
  <2>1. UNCHANGED <<loads, cache, viewer>> /\ idleLimit' = idleLimit /\ sounding' = ~sounding
    BY Zenon DEF Requests!setPlaybackActive
  <2>2. QED
    BY <2>1, JobsTyped
<1>5. ASSUME NEW j \in Requests!Jobs PROVE Steady(j, jobs[j], jobs'[j])
  <2>1. jobs[j] \in Requests!JobStates
    BY JobsTyped
  <2>2. CASE jobs'[j] = jobs[j]
    BY <2>2, Zenon DEF Steady, Going
  <2>3. CASE jobs[j].slot = "queued" /\ jobs'[j] = [jobs[j] EXCEPT !.slot = "taken"]
    BY <2>1, <2>3, AnotherSlot DEF Steady, Going
  <2>4. QED
    BY <1>3, <2>2, <2>3
<1>6. QED
  BY <1>3, <1>4, <1>5, StepsOfJobs

LEMMA NetworkChangesKeeps == ASSUME Requests!IInv, Requests!NetworkChanges PROVE Requests!IInv'
<1>1. /\ UNCHANGED <<loads, cache, viewer>> /\ sounding' \in BOOLEAN /\ idleLimit' \in Limits
      /\ jobs' = jobs /\ running' = running /\ queues' = queues
  BY JobsTyped DEF Requests!NetworkChanges
<1>2. Slots(jobs', running', queues') /\ \A j \in Requests!Jobs : Steady(j, jobs[j], jobs'[j])
  BY <1>1, SlotsNow, Zenon DEF Steady, Going
<1>3. QED
  BY <1>1, <1>2, StepsOfJobs

\* A job whose work has settled, on time or late.
LEMMA FinishOfOne ==
    ASSUME Requests!IInv, NEW j \in Requests!Jobs, NEW js \in [Requests!Jobs -> Requests!JobStates],
           \A i \in Requests!Jobs : /\ js[i].slot = jobs[i].slot /\ js[i].aborted = jobs[i].aborted
                                    /\ (js[i].late => jobs[i].late) /\ js[i].waits = jobs[i].waits
                                    /\ jobs[i].answer # "pending" => js[i].answer # "pending",
           jobs[j].slot = "held" => js[j].answer # "pending",
           Requests!Finish({j}, js), UNCHANGED <<sounding, idleLimit, loads, cache, viewer>>
    PROVE  Requests!IInv'
<1>1. /\ Slots(jobs', running', queues')
      /\ \A i \in Requests!Jobs : LET back == i \in {j} /\ jobs[i].slot = "held"
                                  IN  \/ back /\ jobs'[i] = [js[i] EXCEPT !.slot = "back"]
                                      \/ ~back /\ jobs'[i] = js[i]
                                      \/ jobs[i].slot = "queued" /\ jobs'[i] = [js[i] EXCEPT !.slot = "taken"]
  <2>1. /\ {j} \in SUBSET Requests!Jobs
        /\ \A i \in Requests!Jobs : js[i].slot = jobs[i].slot /\ (jobs[i].answer # "pending" => js[i].answer # "pending")
        /\ \A i \in {j} : jobs[i].slot = "held" => js[i].answer # "pending"
    OBVIOUS
  <2>2. QED
    BY <2>1, FinishKeepsTheSlots, Zenon
<1>2. \A i \in Requests!Jobs : js[i] \in Requests!JobStates
  OBVIOUS
<1>3. ASSUME NEW i \in Requests!Jobs PROVE Steady(i, jobs[i], jobs'[i])
  <2>1. /\ js[i].slot = jobs[i].slot /\ js[i].aborted = jobs[i].aborted
        /\ (js[i].late => jobs[i].late) /\ js[i].waits = jobs[i].waits
    OBVIOUS
  <2>2. CASE jobs[i].slot = "held" /\ jobs'[i] = [js[i] EXCEPT !.slot = "back"]
    BY <1>2, <2>1, <2>2, AnotherSlot DEF Steady, Going
  <2>3. CASE jobs'[i] = js[i]
    BY <2>1, <2>3, Zenon DEF Steady, Going
  <2>4. CASE jobs[i].slot = "queued" /\ jobs'[i] = [js[i] EXCEPT !.slot = "taken"]
    BY <1>2, <2>1, <2>4, AnotherSlot DEF Steady, Going
  <2>5. QED
    BY <1>1, <2>2, <2>3, <2>4
<1>4. sounding' \in BOOLEAN /\ idleLimit' \in Limits
  BY JobsTyped
<1>5. QED
  BY <1>1, <1>3, <1>4, StepsOfJobs

\* One more in a line, at place p.
Inserted(K, L, p, j) ==
    /\ Len(K) = Len(L) + 1 /\ p \in 1 .. Len(L) + 1 /\ K[p] = j
    /\ \A i \in 1 .. p - 1 : K[i] = L[i]
    /\ \A i \in p + 1 .. Len(K) : K[i] = L[i - 1]

Among(i, K) == \E n \in 1 .. Len(K) : K[n] = i

LEMMA InsertedOnce ==
    ASSUME NEW K, NEW L, NEW p, NEW j, Len(L) \in Nat, OnceEach(L), Inserted(K, L, p, j),
           \A n \in 1 .. Len(L) : L[n] # j
    PROVE  /\ OnceEach(K)
           /\ \A i : Among(i, K) <=> i = j \/ Among(i, L)
<1>1. PICK len \in Nat : len = Len(L)
  OBVIOUS
<1>2. Len(K) = len + 1 /\ p \in 1 .. len + 1 /\ K[p] = j
  BY <1>1, Zenon DEF Inserted
<1>3. \A n \in 1 .. len + 1 : \/ n < p /\ n \in 1 .. len /\ K[n] = L[n]
                              \/ n = p
                              \/ n > p /\ n - 1 \in 1 .. len /\ K[n] = L[n - 1]
  <2> TAKE n \in 1 .. len + 1
  <2>1. CASE n < p
    <3>1. n \in 1 .. p - 1 /\ n \in 1 .. len
      BY <1>2, <2>1
    <3>2. QED
      BY <2>1, <3>1 DEF Inserted
  <2>2. CASE n > p
    <3>1. n \in p + 1 .. Len(K) /\ n - 1 \in 1 .. len
      BY <1>2, <2>2
    <3>2. QED
      BY <2>2, <3>1 DEF Inserted
  <2>3. QED
    BY <1>2, <2>1, <2>2
<1>4. \A m, n \in 1 .. len : L[m] = L[n] => m = n
  BY <1>1, Zenon DEF OnceEach
<1>5. \A n \in 1 .. len : L[n] # j
  BY <1>1
<1>6. OnceEach(K)
  <2> SUFFICES ASSUME NEW m \in 1 .. len + 1, NEW n \in 1 .. len + 1, K[m] = K[n] PROVE m = n
    BY <1>2, Zenon DEF OnceEach
  <2>1. CASE n = p \/ m = p
    BY <1>2, <1>3, <1>5, <2>1
  <2>2. CASE n < p /\ m < p
    <3>1. L[m] = L[n] /\ m \in 1 .. len /\ n \in 1 .. len
      BY <1>2, <1>3, <2>2
    <3>2. QED
      BY <1>4, <3>1, Zenon
  <2>3. CASE n > p /\ m > p
    <3>1. L[m - 1] = L[n - 1] /\ m - 1 \in 1 .. len /\ n - 1 \in 1 .. len
      BY <1>2, <1>3, <2>3
    <3>2. m - 1 = n - 1
      BY <1>4, <3>1, Zenon
    <3>3. QED
      BY <3>2
  <2>4. CASE m < p /\ n > p
    <3>1. L[m] = L[n - 1] /\ m \in 1 .. len /\ n - 1 \in 1 .. len
      BY <1>2, <1>3, <2>4
    <3>2. m = n - 1
      BY <1>4, <3>1, Zenon
    <3>3. QED
      BY <1>2, <2>4, <3>2
  <2>5. CASE m > p /\ n < p
    <3>1. L[m - 1] = L[n] /\ m - 1 \in 1 .. len /\ n \in 1 .. len
      BY <1>2, <1>3, <2>5
    <3>2. m - 1 = n
      BY <1>4, <3>1, Zenon
    <3>3. QED
      BY <1>2, <2>5, <3>2
  <2>6. QED
    BY <1>2, <2>1, <2>2, <2>3, <2>4, <2>5
<1>7. ASSUME NEW i PROVE (\E n \in 1 .. Len(K) : K[n] = i) <=> i = j \/ \E n \in 1 .. Len(L) : L[n] = i
  <2>1. ASSUME NEW n \in 1 .. len + 1, K[n] = i PROVE i = j \/ \E m \in 1 .. len : L[m] = i
    BY <1>2, <1>3, <2>1
  <2>2. ASSUME i = j PROVE \E n \in 1 .. len + 1 : K[n] = i
    BY <1>2, <2>2
  <2>3. ASSUME NEW m \in 1 .. len, L[m] = i PROVE \E n \in 1 .. len + 1 : K[n] = i
    <3>1. CASE m < p
      <4>1. m \in 1 .. p - 1 /\ m \in 1 .. len + 1
        BY <1>2, <3>1
      <4>2. K[m] = L[m]
        BY <4>1 DEF Inserted
      <4>3. QED
        BY <2>3, <4>1, <4>2
    <3>2. CASE ~(m < p)
      <4>1. m + 1 \in p + 1 .. Len(K) /\ m + 1 \in 1 .. len + 1 /\ (m + 1) - 1 = m
        BY <1>2, <3>2
      <4>2. K[m + 1] = L[(m + 1) - 1]
        BY <4>1, Zenon DEF Inserted
      <4>3. QED
        BY <2>3, <4>1, <4>2
    <3>3. QED
      BY <3>1, <3>2
  <2>4. QED
    BY <1>1, <1>2, <2>1, <2>2, <2>3
<1>8. QED
  BY <1>6, <1>7, Zenon DEF Among

LEMMA AppendAt ==
    ASSUME NEW S, NEW x \in Seq(S), NEW j \in S
    PROVE  /\ Append(x, j) \in Seq(S) /\ Len(Append(x, j)) = Len(x) + 1 /\ Append(x, j)[Len(x) + 1] = j
           /\ \A i \in 1 .. Len(x) : Append(x, j)[i] = x[i]
OBVIOUS

LEMMA InsertedInFirst ==
    ASSUME NEW S, NEW x \in Seq(S), NEW y \in Seq(S), NEW j \in S
    PROVE  Inserted(Append(x, j) \o y, x \o y, Len(x) + 1, j)
<1>1. PICK z : z = Append(x, j)
  OBVIOUS
<1>2. z \in Seq(S) /\ Len(z) = Len(x) + 1 /\ z[Len(x) + 1] = j /\ \A i \in 1 .. Len(x) : z[i] = x[i]
  BY <1>1, AppendAt
<1>3. /\ Len(x \o y) = Len(x) + Len(y) /\ Len(x) \in Nat /\ Len(y) \in Nat
      /\ \A i \in 1 .. Len(x) + Len(y) : (x \o y)[i] = IF i <= Len(x) THEN x[i] ELSE y[i - Len(x)]
  BY EndToEnd
<1>4. /\ Len(z \o y) = Len(z) + Len(y)
      /\ \A i \in 1 .. Len(z) + Len(y) : (z \o y)[i] = IF i <= Len(z) THEN z[i] ELSE y[i - Len(z)]
  BY <1>2, EndToEnd
<1>5. Len(z \o y) = Len(x \o y) + 1 /\ Len(x) + 1 \in 1 .. Len(x \o y) + 1
  BY <1>2, <1>3, <1>4
<1>6. (z \o y)[Len(x) + 1] = j
  BY <1>2, <1>3, <1>4
<1>7. ASSUME NEW i \in 1 .. (Len(x) + 1) - 1 PROVE (z \o y)[i] = (x \o y)[i]
  <2>1. i \in 1 .. Len(x) /\ i \in 1 .. Len(x) + Len(y) /\ i \in 1 .. Len(z) + Len(y) /\ i <= Len(x) /\ i <= Len(z)
    BY <1>2, <1>3
  <2>2. (z \o y)[i] = z[i] /\ (x \o y)[i] = x[i]
    BY <1>3, <1>4, <2>1, Zenon
  <2>3. QED
    BY <1>2, <2>1, <2>2
<1>8. ASSUME NEW i \in (Len(x) + 1) + 1 .. Len(z \o y) PROVE (z \o y)[i] = (x \o y)[i - 1]
  <2>1. /\ i - 1 \in 1 .. Len(x) + Len(y) /\ i \in 1 .. Len(z) + Len(y) /\ ~(i - 1 <= Len(x)) /\ ~(i <= Len(z))
        /\ i - Len(z) = (i - 1) - Len(x)
    BY <1>2, <1>3, <1>4
  <2>2. (z \o y)[i] = y[i - Len(z)] /\ (x \o y)[i - 1] = y[(i - 1) - Len(x)]
    BY <1>3, <1>4, <2>1, Zenon
  <2>3. QED
    BY <2>1, <2>2
<1>9. Inserted(z \o y, x \o y, Len(x) + 1, j)
  BY <1>5, <1>6, <1>7, <1>8, Zenon DEF Inserted
<1>10. QED
  BY <1>1, <1>9

LEMMA InsertedInSecond ==
    ASSUME NEW S, NEW x \in Seq(S), NEW y \in Seq(S), NEW j \in S
    PROVE  Inserted(x \o Append(y, j), x \o y, Len(x \o y) + 1, j)
<1>1. PICK z : z = Append(y, j)
  OBVIOUS
<1>2. z \in Seq(S) /\ Len(z) = Len(y) + 1 /\ z[Len(y) + 1] = j /\ \A i \in 1 .. Len(y) : z[i] = y[i]
  BY <1>1, AppendAt
<1>3. /\ Len(x \o y) = Len(x) + Len(y) /\ Len(x) \in Nat /\ Len(y) \in Nat
      /\ \A i \in 1 .. Len(x) + Len(y) : (x \o y)[i] = IF i <= Len(x) THEN x[i] ELSE y[i - Len(x)]
  BY EndToEnd
<1>4. /\ Len(x \o z) = Len(x) + Len(z)
      /\ \A i \in 1 .. Len(x) + Len(z) : (x \o z)[i] = IF i <= Len(x) THEN x[i] ELSE z[i - Len(x)]
  BY <1>2, EndToEnd
<1>5. Len(x \o z) = Len(x \o y) + 1 /\ Len(x \o y) + 1 \in 1 .. Len(x \o y) + 1
  BY <1>2, <1>3, <1>4
<1>6. (x \o z)[Len(x \o y) + 1] = j
  <2>1. /\ Len(x \o y) + 1 \in 1 .. Len(x) + Len(z) /\ ~(Len(x \o y) + 1 <= Len(x))
        /\ (Len(x \o y) + 1) - Len(x) = Len(y) + 1
    BY <1>2, <1>3
  <2>2. QED
    BY <1>2, <1>4, <2>1
<1>7. ASSUME NEW i \in 1 .. (Len(x \o y) + 1) - 1 PROVE (x \o z)[i] = (x \o y)[i]
  <2>1. i \in 1 .. Len(x) + Len(y) /\ i \in 1 .. Len(x) + Len(z)
    BY <1>2, <1>3
  <2>2. CASE i <= Len(x)
    BY <1>3, <1>4, <2>1, <2>2, Zenon
  <2>3. CASE ~(i <= Len(x))
    <3>1. i - Len(x) \in 1 .. Len(y)
      BY <1>3, <2>1, <2>3
    <3>2. (x \o z)[i] = z[i - Len(x)] /\ (x \o y)[i] = y[i - Len(x)]
      BY <1>3, <1>4, <2>1, <2>3, Zenon
    <3>3. QED
      BY <1>2, <3>1, <3>2
  <2>4. QED
    BY <2>2, <2>3
<1>8. \A i \in (Len(x \o y) + 1) + 1 .. Len(x \o z) : (x \o z)[i] = (x \o y)[i - 1]
  BY <1>3, <1>5
<1>9. Inserted(x \o z, x \o y, Len(x \o y) + 1, j)
  BY <1>5, <1>6, <1>7, <1>8, Zenon DEF Inserted
<1>10. QED
  BY <1>1, <1>9

LEMMA runLowPriorityKeeps ==
    ASSUME Requests!IInv, NEW j \in Requests!Jobs, Requests!runLowPriority(j) PROVE Requests!IInv'
<1>1. PICK q : q = IF j \in Prefetches THEN "prefetch" ELSE "background"
  OBVIOUS
<1>2. PICK js : js = [jobs EXCEPT ![j].slot = "queued"]
  OBVIOUS
<1>3. PICK qs : qs = [queues EXCEPT ![q] = Append(@, j)]
  OBVIOUS
<1>4. /\ jobs[j].slot = "none" /\ Requests!Drain(js, running, qs, Requests!limit(sounding, idleLimit))
      /\ UNCHANGED <<sounding, idleLimit, loads, cache, viewer>>
  BY <1>1, <1>2, <1>3 DEF Requests!runLowPriority
<1>5. /\ Slots(jobs, running, queues) /\ queues \in [prefetch : Seq(Requests!Jobs), background : Seq(Requests!Jobs)]
      /\ Requests!limit(sounding, idleLimit) \in 1 .. 4 /\ jobs \in [Requests!Jobs -> Requests!JobStates]
      /\ \A i \in Requests!Jobs : jobs[i] \in Requests!JobStates
  BY SlotsNow, JobsTyped, LimitIsSmall, Zenon DEF Slots
<1>6. /\ js[j] \in Requests!JobStates /\ js[j].slot = "queued" /\ js[j] = [jobs[j] EXCEPT !.slot = "queued"]
      /\ js[j].answer = jobs[j].answer /\ js[j].aborted = jobs[j].aborted /\ js[j].late = jobs[j].late
      /\ \A i \in Requests!Jobs \ {j} : js[i] = jobs[i]
  <2>1. js[j] = [jobs[j] EXCEPT !.slot = "queued"] /\ \A i \in Requests!Jobs \ {j} : js[i] = jobs[i]
    BY <1>2, <1>5
  <2>2. PICK r \in Requests!JobStates : r = jobs[j]
    BY <1>5
  <2>3. /\ [r EXCEPT !.slot = "queued"] \in Requests!JobStates /\ [r EXCEPT !.slot = "queued"].slot = "queued"
        /\ [r EXCEPT !.slot = "queued"].answer = r.answer /\ [r EXCEPT !.slot = "queued"].aborted = r.aborted
        /\ [r EXCEPT !.slot = "queued"].late = r.late
    BY AnotherSlot
  <2>4. QED
    BY <2>1, <2>2, <2>3, Zenon
<1>7. js \in [Requests!Jobs -> Requests!JobStates]
  <2>1. \A i \in Requests!Jobs : js[i] \in Requests!JobStates
    BY <1>5, <1>6
  <2>2. js = [i \in Requests!Jobs |-> js[i]]
    BY <1>2, <1>5
  <2>3. QED
    BY <2>1, <2>2
<1>8. Serving(js) = Serving(jobs)
  BY <1>4, <1>6 DEF Serving
<1>9. PICK L : L = LineOf(queues)
  OBVIOUS
<1>10. Len(L) \in Nat /\ OnceEach(L) /\ \A n \in 1 .. Len(L) : L[n] # j
  <2>1. queues.prefetch \in Seq(Requests!Jobs) /\ queues.background \in Seq(Requests!Jobs)
    BY <1>5
  <2>2. L \in Seq(Requests!Jobs)
    BY <1>9, <2>1, EndToEnd, Zenon DEF LineOf
  <2>3. OnceEach(L) /\ \A i \in Requests!Jobs : jobs[i].slot = "queued" <=> \E n \in 1 .. Len(L) : L[n] = i
    BY <1>5, <1>9, Zenon DEF Slots
  <2>4. \A n \in 1 .. Len(L) : L[n] # j
    BY <1>4, <2>3
  <2>5. QED
    BY <2>2, <2>3, <2>4
<1>11. /\ qs \in [prefetch : Seq(Requests!Jobs), background : Seq(Requests!Jobs)]
       /\ \E p : Inserted(LineOf(qs), L, p, j)
  <2>1. PICK x \in Seq(Requests!Jobs), y \in Seq(Requests!Jobs) : queues = [prefetch |-> x, background |-> y]
    BY <1>5
  <2>2. L = x \o y
    BY <1>9, <2>1 DEF LineOf
  <2>3. CASE q = "prefetch"
    <3>1. qs = [prefetch |-> Append(x, j), background |-> y]
      BY <1>3, <2>1, <2>3
    <3>2. Append(x, j) \in Seq(Requests!Jobs) /\ Inserted(Append(x, j) \o y, x \o y, Len(x) + 1, j)
      BY AppendAt, InsertedInFirst
    <3>3. QED
      BY <2>2, <3>1, <3>2 DEF LineOf
  <2>4. CASE q = "background"
    <3>1. qs = [prefetch |-> x, background |-> Append(y, j)]
      BY <1>3, <2>1, <2>4
    <3>2. Append(y, j) \in Seq(Requests!Jobs) /\ Inserted(x \o Append(y, j), x \o y, Len(x \o y) + 1, j)
      BY AppendAt, InsertedInSecond
    <3>3. QED
      BY <2>2, <3>1, <3>2 DEF LineOf
  <2>5. QED
    BY <1>1, <2>3, <2>4
<1>12. PICK K : K = LineOf(qs)
  OBVIOUS
<1>13. OnceEach(K) /\ \A i : (\E n \in 1 .. Len(K) : K[n] = i) <=> i = j \/ \E n \in 1 .. Len(L) : L[n] = i
  <2>1. PICK p : Inserted(K, L, p, j)
    BY <1>11, <1>12, Zenon
  <2>2. Len(L) \in Nat /\ OnceEach(L) /\ \A n \in 1 .. Len(L) : L[n] # j
    BY <1>10, Zenon
  <2>3. OnceEach(K)
    BY <2>1, <2>2, InsertedOnce
  <2>4. \A i : Among(i, K) <=> i = j \/ Among(i, L)
    BY <2>1, <2>2, InsertedOnce, Zenon
  <2>5. QED
    BY <2>3, <2>4, Zenon DEF Among
<1>14. \A i \in Requests!Jobs : js[i].slot = "queued" <=> \E n \in 1 .. Len(K) : K[n] = i
  <2>1. \A i \in Requests!Jobs : jobs[i].slot = "queued" <=> \E n \in 1 .. Len(L) : L[n] = i
    BY <1>5, <1>9, Zenon DEF Slots
  <2>2. \A i \in Requests!Jobs : js[i].slot = "queued" <=> i = j \/ jobs[i].slot = "queued"
    BY <1>6
  <2>3. QED
    BY <1>13, <2>1, <2>2
<1>15. \A i \in Requests!Jobs : js[i].slot = "back" => js[i].answer # "pending"
  <2>1. \A i \in Requests!Jobs : jobs[i].slot = "back" => jobs[i].answer # "pending"
    BY <1>5, Zenon DEF Slots
  <2>2. QED
    BY <1>6, <2>1
<1>16. Slots(js, running, qs)
  <2>1. running \in 0 .. 4 /\ running = Cardinality(Serving(js))
    BY <1>5, <1>8, Zenon DEF Slots
  <2>2. qs \in [prefetch : Seq(Requests!Jobs), background : Seq(Requests!Jobs)]
    BY <1>11
  <2>3. OnceEach(LineOf(qs)) /\ \A i \in Requests!Jobs : js[i].slot = "queued" <=> \E n \in 1 .. Len(LineOf(qs)) : LineOf(qs)[n] = i
    BY <1>12, <1>13, <1>14
  <2>4. QED
    BY <1>7, <1>15, <2>1, <2>2, <2>3, Zenon DEF Slots
<1>17. /\ Slots(jobs', running', queues')
       /\ \A i \in Requests!Jobs : \/ jobs'[i] = js[i]
                                   \/ js[i].slot = "queued" /\ jobs'[i] = [js[i] EXCEPT !.slot = "taken"]
  BY <1>4, <1>5, <1>16, DrainKeepsTheLine
<1>18. ASSUME NEW i \in Requests!Jobs PROVE Steady(i, jobs[i], jobs'[i])
  <2>1. js[i] \in Requests!JobStates /\ js[i].aborted = jobs[i].aborted /\ js[i].late = jobs[i].late
    BY <1>6, <1>7
  <2>2. \/ js[i] = jobs[i]
        \/ js[i].slot = "queued" /\ jobs[i].slot = "none"
    BY <1>4, <1>6
  <2>3. CASE jobs'[i] = js[i]
    BY <2>1, <2>2, <2>3 DEF Steady, Going
  <2>4. CASE js[i].slot = "queued" /\ jobs'[i] = [js[i] EXCEPT !.slot = "taken"]
    <3>1. /\ jobs'[i].slot = "taken" /\ jobs'[i].aborted = js[i].aborted /\ jobs'[i].late = js[i].late
      BY <2>1, <2>4, AnotherSlot
    <3>2. jobs[i].slot \in {"none", "queued"}
      BY <2>2, <2>4
    <3>3. QED
      BY <2>1, <3>1, <3>2 DEF Steady, Going
  <2>5. QED
    BY <1>17, <2>3, <2>4
<1>19. sounding' \in BOOLEAN /\ idleLimit' \in Limits
  BY <1>4, JobsTyped
<1>20. QED
  BY <1>4, <1>17, <1>18, <1>19, StepsOfJobs

\* The jobs after an answer has come.
LEMMA ImageSettlesKeeps ==
    ASSUME Requests!IInv, NEW j \in Requests!Jobs, NEW how \in {"resolved", "rejected"}, Requests!ImageSettles(j, how)
    PROVE  Requests!IInv'
<1>1. PICK js : js = [jobs EXCEPT ![j].answer = how]
  OBVIOUS
<1>2. jobs[j].answer = "pending" /\ Requests!Finish({j}, js) /\ UNCHANGED <<sounding, idleLimit, loads, cache, viewer>>
  BY <1>1 DEF Requests!ImageSettles
<1>3. jobs \in [Requests!Jobs -> Requests!JobStates]
  BY JobsTyped
<1>4. /\ js \in [Requests!Jobs -> Requests!JobStates] /\ js[j].answer # "pending"
      /\ \A i \in Requests!Jobs : /\ js[i].slot = jobs[i].slot /\ js[i].aborted = jobs[i].aborted
                                  /\ (js[i].late => jobs[i].late) /\ js[i].waits = jobs[i].waits
                                  /\ jobs[i].answer # "pending" => js[i].answer # "pending"
  BY <1>1, <1>3 DEF Requests!JobStates, Requests!Settled
<1>5. QED
  BY <1>2, <1>4, FinishOfOne

LEMMA LateSettleKeeps ==
    ASSUME Requests!IInv, NEW j \in Requests!Jobs, Requests!LateSettle(j) PROVE Requests!IInv'
<1>1. PICK js : js = [jobs EXCEPT ![j].late = FALSE]
  OBVIOUS
<1>2. jobs[j].late /\ Requests!Finish({j}, js) /\ UNCHANGED <<sounding, idleLimit, loads, cache, viewer>>
  BY <1>1 DEF Requests!LateSettle
<1>3. jobs \in [Requests!Jobs -> Requests!JobStates] /\ jobs[j].slot = "back"
  BY <1>2, JobsTyped, Zenon DEF Requests!IInv, Requests!AbortedAreOver
<1>4. /\ js \in [Requests!Jobs -> Requests!JobStates]
      /\ \A i \in Requests!Jobs : /\ js[i].slot = jobs[i].slot /\ js[i].aborted = jobs[i].aborted
                                  /\ (js[i].late => jobs[i].late) /\ js[i].waits = jobs[i].waits
                                  /\ jobs[i].answer # "pending" => js[i].answer # "pending"
  BY <1>1, <1>3, ZenonT(30) DEF Requests!JobStates
<1>5. QED
  BY <1>2, <1>3, <1>4, FinishOfOne

LEMMA JoinSettledKeeps ==
    ASSUME Requests!IInv, NEW j \in Requests!Jobs, Requests!JoinSettled(j) PROVE Requests!IInv'
<1>1. PICK how : how = loads[jobs[j].waits].state
  OBVIOUS
<1>2. PICK js : js = [jobs EXCEPT ![j].answer = how]
  OBVIOUS
<1>3. /\ j \in Prefetches /\ jobs[j].slot = "held" /\ how # "pending"
      /\ Requests!Finish({j}, js) /\ UNCHANGED <<sounding, idleLimit, loads, cache, viewer>>
  BY <1>1, <1>2 DEF Requests!JoinSettled
<1>4. jobs \in [Requests!Jobs -> Requests!JobStates]
  BY JobsTyped
<1>5. how \in {"resolved", "rejected"}
  <2>1. jobs[j].waits # None /\ jobs[j] \in Requests!JobStates
    BY <1>3, JobsTyped, Zenon DEF Requests!IInv, Requests!BegunWaits
  <2>2. jobs[j].waits \in DOMAIN loads
    BY <2>1 DEF Requests!JobStates
  <2>3. loads \in Seq(Requests!Load)
    BY Zenon DEF Requests!IInv, Requests!TypeOK
  <2>4. loads[jobs[j].waits] \in Requests!Load
    BY <2>2, <2>3
  <2>5. QED
    BY <1>1, <1>3, <2>4 DEF Requests!Load, Requests!Settled
<1>6. /\ js \in [Requests!Jobs -> Requests!JobStates] /\ js[j].answer # "pending"
      /\ \A i \in Requests!Jobs : /\ js[i].slot = jobs[i].slot /\ js[i].aborted = jobs[i].aborted
                                  /\ (js[i].late => jobs[i].late) /\ js[i].waits = jobs[i].waits
                                  /\ jobs[i].answer # "pending" => js[i].answer # "pending"
  BY <1>2, <1>4, <1>5 DEF Requests!JobStates, Requests!Settled
<1>7. QED
  BY <1>3, <1>6, FinishOfOne

-----------------------------------------------------------------------------
(* The cache of promises.                                                  *)

LEMMA FirstNumber == ASSUME NEW T \in SUBSET Nat, T # {} PROVE \E n \in T : \A m \in T : n <= m
<1> DEFINE R == {ss \in Nat \X Nat : ss[1] < ss[2]}
<1>1. IsWellFoundedOn(R, Nat)
  BY NatLessThanWellFounded DEF OpToRel
<1> HIDE DEF R
<1>2. \E n \in T : \A m \in T : ~(<<m, n>> \in R)
  BY <1>1, WFMin
<1>3. PICK n \in T : \A m \in T : ~(<<m, n>> \in R)
  BY <1>2
<1>4. ASSUME NEW m \in T PROVE n <= m
  <2>1. <<m, n>> \in Nat \X Nat /\ ~(<<m, n>> \in R)
    BY <1>3
  <2>2. ~(m < n)
    BY <2>1 DEF R
  <2>3. QED
    BY <2>2
<1>5. QED
  BY <1>4

LEMMA OldestIsThere ==
    ASSUME NEW c1, c1 # {}, \A e \in c1 : e.since \in Nat
    PROVE  Requests!Oldest(c1) \in c1
<1>1. PICK T \in SUBSET Nat : T = {e.since : e \in c1}
  OBVIOUS
<1>2. PICK n \in T : \A m \in T : n <= m
  <2>1. PICK e \in c1 : TRUE
    OBVIOUS
  <2>2. e.since \in T
    BY <1>1
  <2>3. T # {}
    BY <2>2
  <2>4. QED
    BY <2>3, FirstNumber
<1>3. PICK e \in c1 : e.since = n
  BY <1>1, <1>2
<1>4. \A f \in c1 : e.since <= f.since
  BY <1>1, <1>2, <1>3
<1>5. Requests!Oldest(c1) = CHOOSE g \in c1 : \A f \in c1 : g.since <= f.since
  BY Zenon DEF Requests!Oldest
<1>6. (CHOOSE g \in c1 : \A f \in c1 : g.since <= f.since) \in c1
  BY <1>4
<1>7. QED
  BY <1>5, <1>6

LEMMA ViewerTyped ==
    ASSUME Requests!IInv
    PROVE  /\ viewer \in [asks : Seq(Requests!AskStates), shown : Keys \cup {None, "error"}, loading : BOOLEAN]
           /\ Requests!Now \in Nat /\ Requests!Now <= MaxAsks /\ DOMAIN viewer.asks = 1 .. Requests!Now
           /\ \A n \in 1 .. Requests!Now : viewer.asks[n] \in Requests!AskStates
<1>1. /\ viewer \in [asks : Seq(Requests!AskStates), shown : Keys \cup {None, "error"}, loading : BOOLEAN]
      /\ Requests!Now <= MaxAsks
  BY Zenon DEF Requests!IInv, Requests!TypeOK
<1>2. viewer.asks \in Seq(Requests!AskStates)
  BY <1>1
<1>3. /\ Requests!Now \in Nat /\ DOMAIN viewer.asks = 1 .. Requests!Now
      /\ \A n \in 1 .. Requests!Now : viewer.asks[n] \in Requests!AskStates
  BY <1>2 DEF Requests!Now
<1>4. QED
  BY <1>1, <1>3

\* No more loads than there are callers.
LEMMA LoadsAreFew ==
    ASSUME NEW ls \in Seq(Requests!Load), \A l, m \in 1 .. Len(ls) : ls[l].by = ls[m].by => l = m,
           \A l \in 1 .. Len(ls) : ls[l].by \in Prefetches \cup 1 .. MaxAsks
    PROVE  Len(ls) <= Requests!Cardinality(Prefetches) + MaxAsks
<1>1. IsFiniteSet(Prefetches) /\ MaxAsks \in Nat
  BY ClientAssumption
<1>2. IsFiniteSet(1 .. MaxAsks) /\ Cardinality(1 .. MaxAsks) = MaxAsks
  BY <1>1, FS_Interval
<1>3. /\ IsFiniteSet(Prefetches \cup 1 .. MaxAsks) /\ Cardinality(Prefetches \cap 1 .. MaxAsks) \in Nat
      /\ Cardinality(Prefetches) \in Nat
      /\ Cardinality(Prefetches \cup 1 .. MaxAsks) =
           Cardinality(Prefetches) + Cardinality(1 .. MaxAsks) - Cardinality(Prefetches \cap 1 .. MaxAsks)
  BY <1>1, <1>2, FS_Union, FS_Intersection, FS_CardinalityType
<1>4. PICK f : f = [l \in 1 .. Len(ls) |-> ls[l].by]
  OBVIOUS
<1>5. f \in Injection(1 .. Len(ls), Prefetches \cup 1 .. MaxAsks)
  <2>1. f \in [1 .. Len(ls) -> Prefetches \cup 1 .. MaxAsks]
    BY <1>4
  <2>2. IsInjective(f)
    BY <1>4 DEF IsInjective
  <2>3. QED
    BY <2>1, <2>2, Zenon DEF Injection
<1>6. Cardinality(1 .. Len(ls)) <= Cardinality(Prefetches \cup 1 .. MaxAsks)
  BY <1>3, <1>5, FS_Injection
<1>7. Len(ls) \in Nat /\ Cardinality(1 .. Len(ls)) = Len(ls)
  <2>1. Len(ls) \in Nat
    OBVIOUS
  <2>2. PICK n \in Nat : n = Len(ls)
    BY <2>1
  <2>3. Cardinality(1 .. n) = n
    <3>1. Cardinality(1 .. n) = IF 1 > n THEN 0 ELSE n - 1 + 1
      BY FS_Interval
    <3>2. QED
      BY <3>1
  <2>4. QED
    BY <2>2, <2>3
<1>8. Len(ls) <= Cardinality(Prefetches) + MaxAsks
  <2>1. PICK n \in Nat, p \in Nat, x \in Nat : n = Len(ls) /\ p = Cardinality(Prefetches) /\ x = Cardinality(Prefetches \cap 1 .. MaxAsks)
    BY <1>3, <1>7
  <2>2. n <= p + MaxAsks - x
    BY <1>2, <1>3, <1>6, <1>7, <2>1
  <2>3. n <= p + MaxAsks
    BY <1>1, <2>2
  <2>4. QED
    BY <2>1, <2>3
<1>9. QED
  BY <1>8, SameCardinality

\* The entry that is made, and the one that has to go for it.
LEMMA TrimmedFits ==
    ASSUME NEW n \in Nat, NEW c1 \in SUBSET Entries(n), NEW e \in Entries(n),
           IsFiniteSet(c1), Cardinality(c1) <= MaxEntries
    PROVE  LET t == Requests!Trimmed(c1 \cup {e})
           IN  t \subseteq c1 \cup {e} /\ IsFiniteSet(t) /\ Cardinality(t) <= MaxEntries
<1>1. PICK d : d = c1 \cup {e}
  OBVIOUS
<1>2. IsFiniteSet(d) /\ Cardinality(d) <= Cardinality(c1) + 1 /\ Cardinality(d) \in Nat /\ Cardinality(c1) \in Nat
  <2>1. IsFiniteSet(d) /\ Cardinality(d) = IF e \in c1 THEN Cardinality(c1) ELSE Cardinality(c1) + 1
    BY <1>1, FS_AddElement
  <2>2. Cardinality(d) \in Nat /\ Cardinality(c1) \in Nat
    BY <2>1, FS_CardinalityType
  <2>3. QED
    BY <2>1, <2>2
<1>3. MaxEntries \in Nat
  BY ClientAssumption
<1>4. Requests!Oldest(d) \in d
  <2>1. \A f \in d : f.since \in Nat
    BY <1>1 DEF Entries
  <2>2. d # {}
    BY <1>1
  <2>3. QED
    BY <2>1, <2>2, OldestIsThere
<1>5. CASE Cardinality(d) > MaxEntries
  <2>1. Requests!Trimmed(d) = d \ {Requests!Oldest(d)}
    BY <1>5, SameCardinality DEF Requests!Trimmed
  <2>2. IsFiniteSet(d \ {Requests!Oldest(d)}) /\ Cardinality(d \ {Requests!Oldest(d)}) = Cardinality(d) - 1
    BY <1>2, <1>4, FS_RemoveElement
  <2>3. Cardinality(d) - 1 <= MaxEntries
    BY <1>2, <1>3
  <2>4. QED
    BY <1>1, <2>1, <2>2, <2>3
<1>6. CASE ~(Cardinality(d) > MaxEntries)
  <2>1. Requests!Trimmed(d) = d
    BY <1>6, SameCardinality DEF Requests!Trimmed
  <2>2. Cardinality(d) <= MaxEntries
    BY <1>2, <1>3, <1>6
  <2>3. QED
    BY <1>1, <1>2, <2>1, <2>2
<1>7. QED
  BY <1>5, <1>6

\* Entries that change in their place are no more than they were.
LEMMA InTheirPlace ==
    ASSUME NEW c1, IsFiniteSet(c1), NEW f, f = [e \in c1 |-> f[e]], NEW d, d = {f[e] : e \in c1}
    PROVE  IsFiniteSet(d) /\ Cardinality(d) <= Cardinality(c1)
<1>1. f \in Surjection(c1, d)
  <2>1. f \in [c1 -> d] /\ \A t \in d : \E s \in c1 : f[s] = t
    OBVIOUS
  <2>2. QED
    BY <2>1 DEF Surjection
<1>2. QED
  BY <1>1, FS_Surjection

\* What remember does: the load of another is joined, or one is made for who, and the
\* cache has it.
Remembered(k, who) ==
    /\ loads' \in Seq(Requests!Load) /\ Len(loads') \in {Len(loads), Len(loads) + 1}
    /\ \A l \in 1 .. Len(loads) : loads'[l] = loads[l]
    /\ Len(loads') = Len(loads) + 1 => loads'[Len(loads) + 1].by = who /\ loads'[Len(loads) + 1].state = "pending"
    /\ Requests!Joined(k) \in 1 .. Len(loads') /\ (Requests!Hits(k) # {} => Requests!Joined(k) \in 1 .. Len(loads))
    /\ cache' \subseteq Entries(Len(loads')) /\ IsFiniteSet(cache') /\ Cardinality(cache') <= MaxEntries
    /\ \A e \in cache' : \/ e.load = Len(loads) + 1 /\ Len(loads') = Len(loads) + 1
                         \/ \E f \in cache : f.load = e.load

LEMMA rememberKeeps ==
    ASSUME Requests!IInv, NEW k \in Keys, NEW who \in Requests!Callers, Requests!remember(k, who)
    PROVE  Remembered(k, who)
<1> USE CacheTyped
<1>1. CASE Requests!Hits(k) # {}
  <2>1. loads' = loads /\ cache' = cache
    BY <1>1, Zenon DEF Requests!remember
  <2>2. PICK e : e = CHOOSE g \in Requests!Hits(k) : TRUE
    OBVIOUS
  <2>3. e \in Requests!Hits(k)
    BY <1>1, <2>2
  <2>4. e \in cache
    BY <2>3 DEF Requests!Hits
  <2>5. Requests!Joined(k) = e.load
    BY <1>1, <2>2, Zenon DEF Requests!Joined
  <2>6. Requests!Joined(k) \in 1 .. Len(loads)
    BY <2>4, <2>5 DEF Entries
  <2>7. Len(loads') \in {Len(loads), Len(loads) + 1} /\ Len(loads') # Len(loads) + 1
    <3>1. PICK n \in Nat : n = Len(loads)
      BY Zenon
    <3>2. n \in {n, n + 1} /\ n # n + 1
      OBVIOUS
    <3>3. QED
      BY <2>1, <3>1, <3>2, Zenon
  <2>8. QED
    BY <2>1, <2>6, <2>7, Zenon DEF Remembered
<1>2. CASE Requests!Hits(k) = {}
  <2>1. PICK n \in Nat : n = Len(loads)
    OBVIOUS
  <2>2. PICK r : r = [key |-> k, by |-> who, step |-> 1, state |-> "pending"]
    OBVIOUS
  <2>3. loads' = Append(loads, r) /\ Requests!Joined(k) = n + 1
    BY <1>2, <2>1, <2>2 DEF Requests!remember, Requests!Joined
  <2>4. r \in Requests!Load /\ r.by = who /\ r.state = "pending"
    BY <2>2 DEF Requests!Load
  <2>5. /\ loads' \in Seq(Requests!Load) /\ Len(loads') = n + 1 /\ loads'[n + 1] = r
        /\ \A l \in 1 .. n : loads'[l] = loads[l]
    BY <2>1, <2>3, <2>4, AppendAt
  <2>6. \A e \in cache : e \in Entries(n + 1) /\ e.load \in 1 .. n
    BY <2>1 DEF Entries
  <2>7. /\ cache' \subseteq Entries(n + 1) /\ IsFiniteSet(cache') /\ Cardinality(cache') <= MaxEntries
        /\ \A e \in cache' : e.load = n + 1 \/ \E f \in cache : f.load = e.load
    <3>1. CASE \E e \in cache : e.key = k
      <4>1. PICK f : f = [e \in cache |-> IF e.key = k THEN [e EXCEPT !.load = n + 1, !.old = FALSE] ELSE e]
        OBVIOUS
      <4>2. cache' = {f[e] : e \in cache}
        <5>1. cache' = {IF e.key = k THEN [e EXCEPT !.load = n + 1, !.old = FALSE] ELSE e : e \in cache}
          BY <1>2, <2>1, <3>1 DEF Requests!remember
        <5>2. QED
          BY <4>1, <5>1, Zenon
      <4>3. IsFiniteSet(cache') /\ Cardinality(cache') <= Cardinality(cache)
        <5>1. f = [e \in cache |-> f[e]]
          BY <4>1
        <5>2. QED
          BY <4>2, <5>1, InTheirPlace
      <4>4. Cardinality(cache') <= MaxEntries
        <5>1. Cardinality(cache') \in Nat /\ Cardinality(cache) \in Nat /\ MaxEntries \in Nat
          BY <4>3, FS_CardinalityType, ClientAssumption
        <5>2. QED
          BY <4>3, <5>1
      <4>5. \A e \in cache : \/ f[e] = e
                             \/ f[e] \in Entries(n + 1) /\ f[e].load = n + 1
        <5> TAKE e \in cache
        <5>1. CASE e.key = k
          <6>1. f[e] = [e EXCEPT !.load = n + 1, !.old = FALSE]
            BY <4>1, <5>1
          <6>2. e \in Entries(n + 1) /\ n + 1 \in 1 .. n + 1
            BY <2>6
          <6>3. \A x \in Entries(n + 1) : [x EXCEPT !.load = n + 1, !.old = FALSE] \in Entries(n + 1)
                                          /\ [x EXCEPT !.load = n + 1, !.old = FALSE].load = n + 1
            <7>1. n + 1 \in 1 .. n + 1
              BY <6>2
            <7>2. QED
              BY <7>1 DEF Entries
          <6>4. QED
            BY <6>1, <6>2, <6>3
        <5>2. CASE e.key # k
          BY <4>1, <5>2
        <5>3. QED
          BY <5>1, <5>2
      <4>6. QED
        BY <2>6, <4>2, <4>3, <4>4, <4>5
    <3>2. CASE ~(\E e \in cache : e.key = k)
      <4>1. PICK e : e = [key |-> k, load |-> n + 1, since |-> n + 1, old |-> FALSE]
        OBVIOUS
      <4>2. e \in Entries(n + 1) /\ e.load = n + 1
        BY <2>1, <4>1 DEF Entries
      <4>3. cache' = Requests!Trimmed(cache \cup {e})
        BY <1>2, <2>1, <3>2, <4>1 DEF Requests!remember
      <4>4. cache \in SUBSET Entries(n + 1) /\ n + 1 \in Nat
        BY <2>1, <2>6
      <4>5. cache' \subseteq cache \cup {e} /\ IsFiniteSet(cache') /\ Cardinality(cache') <= MaxEntries
        BY <4>2, <4>3, <4>4, TrimmedFits
      <4>6. QED
        BY <2>6, <4>2, <4>5
    <3>3. QED
      BY <3>1, <3>2
  <2>8. Requests!Joined(k) \in 1 .. Len(loads')
    BY <2>1, <2>3, <2>5
  <2>9. QED
    BY <1>2, <2>1, <2>4, <2>5, <2>7, <2>8 DEF Remembered
<1>3. QED
  BY <1>1, <1>2

\* A load that is made is of who, whose signal has not been aborted.
LEMMA RememberedHolds ==
    ASSUME Requests!IInv, NEW k, NEW who \in Prefetches \cup 1 .. Requests!Now, Remembered(k, who),
           \A l \in 1 .. Len(loads) : loads[l].by # who,
           ~SignalThen(who), \A l \in 1 .. Len(loads) : SignalThen(loads[l].by) = Requests!SignalOf(loads[l].by),
           Requests!Now' = Requests!Now,
           \A j \in Prefetches : jobs[j].slot \in {"held", "back"} \/ j = who => jobs'[j].slot \in {"held", "back"},
           \A n \in 1 .. Requests!Now : viewer.asks[n].state # "turned" \/ n = who => viewer'.asks[n].state # "turned"
    PROVE  Requests!LoadsOfCallers' /\ Requests!NoDoomedEntry'
           /\ Len(loads') <= Requests!Cardinality(Prefetches) + MaxAsks
<1>1. Len(loads) \in Nat /\ cache \subseteq Entries(Len(loads))
  BY CacheTyped
<1>2. \A l \in 1 .. Len(loads') : \/ l \in 1 .. Len(loads) /\ loads'[l] = loads[l]
                                  \/ l = Len(loads) + 1 /\ loads'[l].by = who /\ loads'[l].state = "pending"
  BY <1>1 DEF Remembered
<1>3. /\ \A l, m \in 1 .. Len(loads) : loads[l].by = loads[m].by => l = m
      /\ \A l \in 1 .. Len(loads) :
           \/ loads[l].by \in Prefetches /\ jobs[loads[l].by].slot \in {"held", "back"}
           \/ loads[l].by \in 1 .. Requests!Now /\ viewer.asks[loads[l].by].state # "turned"
  BY Zenon DEF Requests!IInv, Requests!LoadsOfCallers
<1>n. Len(loads) + 1 \notin 1 .. Len(loads)
  BY <1>1
<1>4. \A l, m \in 1 .. Len(loads') : loads'[l].by = loads'[m].by => l = m
  <2> SUFFICES ASSUME NEW l \in 1 .. Len(loads'), NEW m \in 1 .. Len(loads'), loads'[l].by = loads'[m].by PROVE l = m
    OBVIOUS
  <2>1. CASE l \in 1 .. Len(loads) /\ loads'[l] = loads[l]
    <3>1. loads'[m].by # who
      BY <2>1
    <3>2. m \in 1 .. Len(loads) /\ loads'[m] = loads[m]
      BY <1>2, <3>1, Zenon
    <3>3. QED
      BY <1>3, <2>1, <3>2
  <2>2. CASE l = Len(loads) + 1 /\ loads'[l].by = who
    <3>1. ~(m \in 1 .. Len(loads) /\ loads'[m] = loads[m])
      BY <2>2
    <3>2. QED
      BY <1>2, <2>2, <3>1
  <2>3. QED
    BY <1>2, <2>1, <2>2
<1>5. \A l \in 1 .. Len(loads') :
        \/ loads'[l].by \in Prefetches /\ jobs'[loads'[l].by].slot \in {"held", "back"}
        \/ loads'[l].by \in 1 .. Requests!Now /\ viewer'.asks[loads'[l].by].state # "turned"
  <2> TAKE l \in 1 .. Len(loads')
  <2>1. CASE l \in 1 .. Len(loads) /\ loads'[l] = loads[l]
    BY <1>3, <2>1
  <2>2. CASE loads'[l].by = who
    BY <2>2
  <2>3. QED
    BY <1>2, <2>1, <2>2
<1>6. Requests!LoadsOfCallers'
  BY <1>4, <1>5, Zenon DEF Requests!LoadsOfCallers
<1>7. Requests!NoDoomedEntry'
  <2> SUFFICES ASSUME NEW e \in cache'
               PROVE  /\ loads'[e.load].state # "rejected"
                      /\ loads'[e.load].state = "pending" => ~SignalThen(loads'[e.load].by)
    BY Zenon DEF Requests!NoDoomedEntry, Requests!SignalOf, SignalThen
  <2>1. CASE e.load = Len(loads) + 1 /\ Len(loads') = Len(loads) + 1
    <3>1. loads'[e.load].by = who /\ loads'[e.load].state = "pending"
      BY <2>1 DEF Remembered
    <3>2. QED
      BY <3>1
  <2>2. ASSUME NEW f \in cache, f.load = e.load
        PROVE  /\ loads'[e.load].state # "rejected"
               /\ loads'[e.load].state = "pending" => ~SignalThen(loads'[e.load].by)
    <3>1. e.load \in 1 .. Len(loads)
      BY <1>1, <2>2 DEF Entries
    <3>2. loads'[e.load] = loads[e.load]
      BY <3>1 DEF Remembered
    <3>3. /\ loads[e.load].state # "rejected"
          /\ loads[e.load].state = "pending" => ~Requests!SignalOf(loads[e.load].by)
      BY <2>2, Zenon DEF Requests!IInv, Requests!NoDoomedEntry
    <3>4. SignalThen(loads[e.load].by) = Requests!SignalOf(loads[e.load].by)
      BY <3>1
    <3>5. QED
      BY <3>2, <3>3, <3>4
  <2>3. QED
    BY <2>1, <2>2 DEF Remembered
<1>8. Len(loads') <= Requests!Cardinality(Prefetches) + MaxAsks
  <2>1. 1 .. Requests!Now \subseteq 1 .. MaxAsks
    <3>1. Requests!Now \in Nat /\ Requests!Now <= MaxAsks
      BY ViewerTyped
    <3>2. QED
      BY <3>1, ClientAssumption
  <2>2. \A l \in 1 .. Len(loads') : loads'[l].by \in Prefetches \cup 1 .. MaxAsks
    BY <1>5, <2>1
  <2>3. loads' \in Seq(Requests!Load)
    BY DEF Remembered
  <2>4. QED
    BY <1>4, <2>2, <2>3, LoadsAreFew
<1>9. QED
  BY <1>6, <1>7, <1>8

-----------------------------------------------------------------------------
(* The steps of the requests, one by one.                                  *)

LEMMA Numbers ==
    /\ \A j \in Requests!Jobs : j \notin Nat
    /\ None \notin Nat /\ Prefetches \subseteq Requests!Jobs /\ Requests!Asks = 1 .. MaxAsks
    /\ Requests!Callers = Requests!Jobs \cup 1 .. MaxAsks
BY ClientAssumption DEF Requests!Jobs, Requests!Asks, Requests!Callers

\* Types that speak of the loads grow with them.
LEMMA TypesGrow ==
    ASSUME DOMAIN loads \subseteq DOMAIN loads'
    PROVE  /\ Requests!JobStates \subseteq Requests!JobStates' /\ Requests!AskStates \subseteq Requests!AskStates'
           /\ Requests!Load' = Requests!Load
<1>1. Requests!JobStates \subseteq Requests!JobStates'
  BY DEF Requests!JobStates
<1>2. Requests!AskStates \subseteq Requests!AskStates'
  BY DEF Requests!AskStates
<1>3. QED
  BY <1>1, <1>2, Zenon DEF Requests!Load, Requests!Callers

LEMMA LineOfMore == ASSUME NEW S, NEW T, S \subseteq T, NEW s \in Seq(S) PROVE s \in Seq(T)
OBVIOUS

\* A step that moves no job in or out of a slot, or in its line.
LEMMA SameSlots ==
    ASSUME Requests!IInv, UNCHANGED <<running, queues>>,
           \A j \in Requests!Jobs : /\ jobs'[j].slot \in {"taken", "held"} <=> jobs[j].slot \in {"taken", "held"}
                                    /\ jobs'[j].slot = "queued" <=> jobs[j].slot = "queued"
                                    /\ jobs'[j].slot = "back" => jobs[j].slot = "back" /\ jobs'[j].answer = jobs[j].answer
    PROVE  Requests!SlotsAddUp' /\ Requests!QueuedOnce'
<1>1. {j \in Requests!Jobs : jobs'[j].slot \in {"taken", "held"}} = {j \in Requests!Jobs : jobs[j].slot \in {"taken", "held"}}
  OBVIOUS
<1>2. Requests!SlotsAddUp /\ Requests!QueuedOnce
  BY Zenon DEF Requests!IInv
<1>3. running' = Requests!Cardinality({j \in Requests!Jobs : jobs'[j].slot \in {"taken", "held"}})
  BY <1>1, <1>2, Zenon DEF Requests!SlotsAddUp
<1>4. \A j \in Requests!Jobs : jobs'[j].slot = "queued"
         <=> j \in Requests!ToSet(queues'.prefetch) \cup Requests!ToSet(queues'.background)
  BY <1>2, Zenon DEF Requests!SlotsAddUp
<1>5. \A j \in Requests!Jobs : jobs'[j].slot = "back" => jobs'[j].answer # "pending"
  BY <1>2, Zenon DEF Requests!SlotsAddUp
<1>6. QED
  BY <1>2, <1>3, <1>4, <1>5, Zenon DEF Requests!SlotsAddUp, Requests!QueuedOnce,
     Requests!Line

\* The work of a prefetch begins: it asks for the load of its key.
LEMMA BeginPrefetchKeeps ==
    ASSUME Requests!IInv, NEW j \in Requests!Jobs, Requests!BeginPrefetch(j) PROVE Requests!IInv'
<1>1. /\ j \in Prefetches /\ jobs[j].slot = "taken" /\ Requests!remember(KeyOf[j], j)
      /\ jobs' = [jobs EXCEPT ![j].slot = "held", ![j].waits = Requests!Joined(KeyOf[j])]
      /\ UNCHANGED <<sounding, idleLimit, running, queues, viewer>>
  BY Zenon DEF Requests!BeginPrefetch
<1>2. KeyOf[j] \in Keys /\ j \in Requests!Callers /\ j \notin Nat
  BY <1>1, ClientAssumption, Numbers
<1>3. Remembered(KeyOf[j], j)
  BY <1>1, <1>2, rememberKeeps
<1>4. /\ loads' \in Seq(Requests!Load) /\ Len(loads) \in Nat /\ Len(loads') \in {Len(loads), Len(loads) + 1}
      /\ Requests!Joined(KeyOf[j]) \in 1 .. Len(loads')
      /\ cache' \subseteq Entries(Len(loads')) /\ IsFiniteSet(cache') /\ Cardinality(cache') <= MaxEntries
  BY <1>3, CacheTyped, Zenon DEF Remembered
<1>5. PICK w : w = Requests!Joined(KeyOf[j])
  OBVIOUS
<1>6. DOMAIN loads = 1 .. Len(loads) /\ DOMAIN loads' = 1 .. Len(loads') /\ DOMAIN loads \subseteq DOMAIN loads'
  <2>1. DOMAIN loads = 1 .. Len(loads)
    BY CacheTyped, Zenon
  <2>2. DOMAIN loads' = 1 .. Len(loads')
    BY <1>4
  <2>3. 1 .. Len(loads) \subseteq 1 .. Len(loads')
    BY <1>4
  <2>4. QED
    BY <2>1, <2>2, <2>3
<1>7. w \in DOMAIN loads' /\ w # None /\ Requests!JobStates \subseteq Requests!JobStates'
      /\ Requests!AskStates \subseteq Requests!AskStates' /\ Requests!Load' = Requests!Load
  <2>1. w \in Nat
    BY <1>4, <1>5
  <2>2. QED
    BY <1>4, <1>5, <1>6, <2>1, Numbers, TypesGrow, Zenon
<1>8. jobs[j] \in Requests!JobStates' /\ jobs \in [Requests!Jobs -> Requests!JobStates]
  BY <1>7, JobsTyped
<1>9. /\ jobs'[j].slot = "held" /\ jobs'[j].waits = w /\ jobs'[j].aborted = jobs[j].aborted /\ jobs'[j].late = jobs[j].late
      /\ jobs'[j] \in Requests!JobStates' /\ \A i \in Requests!Jobs \ {j} : jobs'[i] = jobs[i]
  <2>1. jobs'[j] = [jobs[j] EXCEPT !.slot = "held", !.waits = w] /\ \A i \in Requests!Jobs \ {j} : jobs'[i] = jobs[i]
    BY <1>1, <1>5, <1>8
  <2>2. QED
    BY <1>7, <1>8, <2>1, ZenonT(60) DEF Requests!JobStates
<1>10. jobs' \in [Requests!Jobs -> Requests!JobStates']
  <2>1. \A i \in Requests!Jobs : jobs'[i] \in Requests!JobStates'
    BY <1>7, <1>8, <1>9
  <2>2. jobs' = [i \in Requests!Jobs |-> jobs'[i]]
    BY <1>1, <1>8
  <2>3. QED
    BY <2>1, <2>2
<1>11. Requests!SlotsAddUp' /\ Requests!QueuedOnce'
  <2>1. \A i \in Requests!Jobs : /\ jobs'[i].slot \in {"taken", "held"} <=> jobs[i].slot \in {"taken", "held"}
                                 /\ jobs'[i].slot = "queued" <=> jobs[i].slot = "queued"
                                 /\ jobs'[i].slot = "back" => jobs[i].slot = "back" /\ jobs'[i].answer = jobs[i].answer
    BY <1>1, <1>9
  <2>2. QED
    BY <1>1, <2>1, SameSlots
<1>12. Requests!AbortedAreOver' /\ ~jobs[j].aborted
  <2>1. \A i \in Requests!Jobs : jobs[i].aborted \/ jobs[i].late => jobs[i].slot = "back"
    BY Zenon DEF Requests!IInv, Requests!AbortedAreOver
  <2>2. \A i \in Requests!Jobs : jobs'[i].aborted \/ jobs'[i].late => jobs'[i].slot = "back"
    BY <1>1, <1>9, <2>1
  <2>3. QED
    BY <1>1, <2>1, <2>2, Zenon DEF Requests!AbortedAreOver
<1>13. Requests!Now' = Requests!Now
  BY <1>1, Zenon DEF Requests!Now
<1>14. Requests!AsksInTurn' /\ Requests!ShowsCurrent'
  BY <1>1, <1>13, Zenon DEF Requests!IInv, Requests!AsksInTurn, Requests!ShowsCurrent
<1>15. \A l \in 1 .. Len(loads) : loads[l].by # j
  <2>1. \A l \in 1 .. Len(loads) : \/ loads[l].by \in Prefetches /\ jobs[loads[l].by].slot \in {"held", "back"}
                                   \/ loads[l].by \in 1 .. Requests!Now
    BY Zenon DEF Requests!IInv, Requests!LoadsOfCallers
  <2>2. j \notin 1 .. Requests!Now
    BY <1>2
  <2>3. QED
    BY <1>1, <2>1, <2>2
<1>16. /\ ~SignalThen(j)
       /\ \A l \in 1 .. Len(loads) : SignalThen(loads[l].by) = Requests!SignalOf(loads[l].by)
  <2>1. \A who : SignalThen(who) = Requests!SignalOf(who)
    <3> TAKE who
    <3>1. CASE who \in Requests!Jobs
      BY <1>9, <3>1 DEF SignalThen, Requests!SignalOf
    <3>2. CASE who \notin Requests!Jobs
      BY <1>1, <3>2 DEF SignalThen, Requests!SignalOf
    <3>3. QED
      BY <3>1, <3>2
  <2>2. ~SignalThen(j)
    BY <1>9, <1>12 DEF SignalThen
  <2>3. QED
    BY <2>1, <2>2
<1>17. \A i \in Prefetches : jobs[i].slot \in {"held", "back"} \/ i = j => jobs'[i].slot \in {"held", "back"}
  BY <1>9, Numbers
<1>18. \A n \in 1 .. Requests!Now : viewer.asks[n].state # "turned" \/ n = j => viewer'.asks[n].state # "turned"
  BY <1>1, <1>2
<1>19. Requests!LoadsOfCallers' /\ Requests!NoDoomedEntry' /\ Len(loads') <= Requests!Cardinality(Prefetches) + MaxAsks
  <2>1. j \in Prefetches \cup 1 .. Requests!Now
    BY <1>1
  <2>2. QED
    BY <1>3, <1>13, <1>15, <1>16, <1>17, <1>18, <2>1, RememberedHolds
<1>20. Requests!BegunWaits'
  <2>1. \A i \in Prefetches : jobs'[i].slot = "held" => jobs'[i].waits # None
    BY <1>7, <1>9, Numbers DEF Requests!IInv, Requests!BegunWaits
  <2>2. QED
    BY <2>1, Zenon DEF Requests!BegunWaits
<1>21. Requests!TypeOK'
  <2>1. /\ sounding \in BOOLEAN /\ idleLimit \in Limits /\ running \in 0 .. 4
        /\ queues \in [prefetch : Seq(Requests!Jobs), background : Seq(Requests!Jobs)]
        /\ viewer \in [asks : Seq(Requests!AskStates), shown : Keys \cup {None, "error"}, loading : BOOLEAN]
        /\ Requests!Now <= MaxAsks
    BY Zenon DEF Requests!IInv, Requests!TypeOK
  <2>2. viewer' \in [asks : Seq(Requests!AskStates'), shown : Keys \cup {None, "error"}, loading : BOOLEAN]
    <3>1. \A s \in Seq(Requests!AskStates) : s \in Seq(Requests!AskStates')
      BY <1>7, LineOfMore, Zenon
    <3>2. QED
      BY <1>1, <2>1, <3>1
  <2>3. /\ cache' \subseteq [key : Keys, load : DOMAIN loads', since : DOMAIN loads', old : BOOLEAN]
        /\ Requests!IsFiniteSet(cache') /\ Requests!Cardinality(cache') <= MaxEntries
    BY <1>4, <1>6, SameFiniteness, SameCardinality, Zenon DEF Entries
  <2>4. QED
    BY <1>1, <1>4, <1>7, <1>10, <1>13, <1>19, <2>1, <2>2, <2>3, Zenon DEF Requests!TypeOK
<1>22. QED
  BY <1>11, <1>12, <1>14, <1>19, <1>20, <1>21, Zenon DEF Requests!IInv

LEMMA BeginImageKeeps ==
    ASSUME Requests!IInv, NEW j \in Requests!Jobs, Requests!BeginImage(j) PROVE Requests!IInv'
<1>1. /\ j \in Images /\ jobs[j].slot = "taken" /\ jobs' = [jobs EXCEPT ![j].slot = "held"]
      /\ UNCHANGED <<sounding, idleLimit, running, queues, loads, cache, viewer>>
  BY Zenon DEF Requests!BeginImage
<1>2. /\ j \notin Prefetches /\ jobs \in [Requests!Jobs -> Requests!JobStates] /\ jobs[j] \in Requests!JobStates
      /\ Slots(jobs, running, queues)
  BY <1>1, JobsTyped, SlotsNow, ClientAssumption
<1>3. /\ jobs'[j] = [jobs[j] EXCEPT !.slot = "held"] /\ \A i \in Requests!Jobs \ {j} : jobs'[i] = jobs[i]
      /\ jobs' = [i \in Requests!Jobs |-> jobs'[i]]
  BY <1>1, <1>2
<1>4. /\ jobs'[j] \in Requests!JobStates /\ jobs'[j].slot = "held" /\ jobs'[j].answer = jobs[j].answer
      /\ jobs'[j].aborted = jobs[j].aborted /\ jobs'[j].late = jobs[j].late
  <2>1. PICK r \in Requests!JobStates : r = jobs[j]
    BY <1>2
  <2>2. /\ [r EXCEPT !.slot = "held"] \in Requests!JobStates /\ [r EXCEPT !.slot = "held"].slot = "held"
        /\ [r EXCEPT !.slot = "held"].answer = r.answer /\ [r EXCEPT !.slot = "held"].aborted = r.aborted
        /\ [r EXCEPT !.slot = "held"].late = r.late
    BY AnotherSlot
  <2>3. QED
    BY <1>3, <2>1, <2>2, Zenon
<1>5. jobs' \in [Requests!Jobs -> Requests!JobStates]
  <2>1. \A i \in Requests!Jobs : jobs'[i] \in Requests!JobStates
    BY <1>2, <1>3, <1>4
  <2>2. QED
    BY <1>3, <2>1
<1>6. Serving(jobs') = Serving(jobs)
  BY <1>1, <1>3, <1>4 DEF Serving
<1>7. \A i \in Requests!Jobs : /\ jobs'[i].slot = "queued" <=> jobs[i].slot = "queued"
                               /\ jobs'[i].slot = "back" => jobs[i].slot = "back" /\ jobs'[i].answer = jobs[i].answer
  BY <1>1, <1>3, <1>4
<1>8. Slots(jobs', running', queues')
  <2>1. /\ running \in 0 .. 4 /\ queues \in [prefetch : Seq(Requests!Jobs), background : Seq(Requests!Jobs)]
        /\ running = Cardinality(Serving(jobs)) /\ OnceEach(LineOf(queues))
        /\ \A i \in Requests!Jobs : jobs[i].slot = "queued" <=> \E n \in 1 .. Len(LineOf(queues)) : LineOf(queues)[n] = i
        /\ \A i \in Requests!Jobs : jobs[i].slot = "back" => jobs[i].answer # "pending"
    BY <1>2, Zenon DEF Slots
  <2>2. \A i \in Requests!Jobs : jobs'[i].slot = "queued" <=> \E n \in 1 .. Len(LineOf(queues)) : LineOf(queues)[n] = i
    BY <1>7, <2>1, Zenon
  <2>3. \A i \in Requests!Jobs : jobs'[i].slot = "back" => jobs'[i].answer # "pending"
    BY <1>7, <2>1, Zenon
  <2>4. running' = running /\ queues' = queues
    BY <1>1
  <2>5. QED
    BY <1>5, <1>6, <2>1, <2>2, <2>3, <2>4, Zenon DEF Slots
<1>9. \A i \in Requests!Jobs : Steady(i, jobs[i], jobs'[i])
  BY <1>1, <1>2, <1>3, <1>4 DEF Steady, Going
<1>10. sounding' \in BOOLEAN /\ idleLimit' \in Limits
  BY <1>1, JobsTyped
<1>11. QED
  BY <1>1, <1>8, <1>9, <1>10, StepsOfJobs

\* The slot of a job times out: its signal is aborted, what it started leaves the cache.
LEMMA SlotTimesOutKeeps ==
    ASSUME Requests!IInv, NEW j \in Requests!Jobs, Requests!SlotTimesOut(j) PROVE Requests!IInv'
<1>1. PICK js : js = [jobs EXCEPT ![j].answer = "rejected", ![j].aborted = TRUE, ![j].late = TRUE]
  OBVIOUS
<1>2. /\ jobs[j].slot = "held" /\ cache' = Requests!AbortedOut(cache, j) /\ Requests!Finish({j}, js)
      /\ UNCHANGED <<sounding, idleLimit, loads, viewer>>
  BY <1>1 DEF Requests!SlotTimesOut
<1>3. jobs \in [Requests!Jobs -> Requests!JobStates] /\ jobs[j] \in Requests!JobStates
  BY JobsTyped
<1>4. /\ js[j] = [jobs[j] EXCEPT !.answer = "rejected", !.aborted = TRUE, !.late = TRUE]
      /\ \A i \in Requests!Jobs \ {j} : js[i] = jobs[i]
      /\ js = [i \in Requests!Jobs |-> js[i]]
  BY <1>1, <1>3
<1>5. /\ js[j] \in Requests!JobStates /\ js[j].slot = jobs[j].slot /\ js[j].answer = "rejected"
  BY <1>3, <1>4 DEF Requests!JobStates, Requests!Settled
<1>6. js \in [Requests!Jobs -> Requests!JobStates] /\ \A i \in Requests!Jobs : js[i] \in Requests!JobStates
  <2>1. \A i \in Requests!Jobs : js[i] \in Requests!JobStates
    BY <1>3, <1>4, <1>5
  <2>2. QED
    BY <1>4, <2>1
<1>7. /\ {j} \in SUBSET Requests!Jobs
      /\ \A i \in Requests!Jobs : js[i].slot = jobs[i].slot /\ (jobs[i].answer # "pending" => js[i].answer # "pending")
      /\ \A i \in {j} : jobs[i].slot = "held" => js[i].answer # "pending"
  BY <1>4, <1>5
<1>8. /\ Slots(jobs', running', queues')
      /\ \A i \in Requests!Jobs : LET back == i \in {j} /\ jobs[i].slot = "held"
                                  IN  \/ back /\ jobs'[i] = [js[i] EXCEPT !.slot = "back"]
                                      \/ ~back /\ jobs'[i] = js[i]
                                      \/ jobs[i].slot = "queued" /\ jobs'[i] = [js[i] EXCEPT !.slot = "taken"]
  BY <1>2, <1>6, <1>7, FinishKeepsTheSlots, ZenonT(30)
<1>9. jobs'[j].slot = "back"
  <2>1. jobs'[j] = [js[j] EXCEPT !.slot = "back"]
    BY <1>2, <1>8
  <2>2. QED
    BY <1>6, <2>1, AnotherSlot
<1>10. ASSUME NEW i \in Requests!Jobs \ {j}
       PROVE  jobs'[i].aborted = jobs[i].aborted /\ Going(i, jobs[i], jobs'[i])
  <2>1. js[i] = jobs[i] /\ jobs[i] \in Requests!JobStates
    BY <1>4, <1>6
  <2>2. CASE jobs'[i] = js[i]
    BY <2>1, <2>2, Zenon DEF Going
  <2>3. CASE jobs[i].slot = "queued" /\ jobs'[i] = [js[i] EXCEPT !.slot = "taken"]
    BY <2>1, <2>3, AnotherSlot DEF Going
  <2>4. QED
    BY <1>8, <2>2, <2>3
<1>11. \A i \in Requests!Jobs : Going(i, jobs[i], jobs'[i])
  BY <1>2, <1>9, <1>10 DEF Going
<1>12. cache' \subseteq cache /\ \A e \in cache' : loads[e.load].state = "pending" => loads[e.load].by # j
  BY <1>2 DEF Requests!AbortedOut
<1>13. ASSUME NEW e \in cache', loads[e.load].state = "pending" PROVE ~SignalThen(loads[e.load].by)
  <2>1. loads[e.load].by # j /\ ~Requests!SignalOf(loads[e.load].by)
    BY <1>12, <1>13 DEF Requests!IInv, Requests!NoDoomedEntry
  <2>2. CASE loads[e.load].by \in Requests!Jobs
    BY <1>10, <2>1, <2>2 DEF SignalThen, Requests!SignalOf
  <2>3. CASE loads[e.load].by \notin Requests!Jobs
    BY <1>2, <2>1, <2>3 DEF SignalThen, Requests!SignalOf
  <2>4. QED
    BY <2>2, <2>3
<1>14. sounding' \in BOOLEAN /\ idleLimit' \in Limits
  BY <1>2, JobsTyped
<1>15. QED
  BY <1>2, <1>8, <1>11, <1>12, <1>13, <1>14, StepsAndDrops

\* What a step may do to the loads, to the cache and to the viewer when it makes no load
\* and turns the viewer to no other track.
LoadsGoOn ==
    /\ loads' \in Seq(Requests!Load) /\ Len(loads') = Len(loads)
    /\ \A l \in 1 .. Len(loads) : loads'[l].by = loads[l].by
CacheGoesOn ==
    /\ cache' \subseteq Entries(Len(loads)) /\ IsFiniteSet(cache') /\ Cardinality(cache') <= MaxEntries
    /\ \A e \in cache' : /\ loads'[e.load].state # "rejected"
                         /\ loads'[e.load].state = "pending" =>
                              loads[e.load].state = "pending" /\ \E f \in cache : f.load = e.load
AsksGoOn ==
    /\ viewer' \in [asks : Seq(Requests!AskStates), shown : Keys \cup {None, "error"}, loading : BOOLEAN]
    /\ Requests!Now' = Requests!Now
    /\ \A n \in 1 .. Requests!Now :
         /\ viewer'.asks[n].aborted = viewer.asks[n].aborted
         /\ viewer.asks[n].state # "turned" => viewer'.asks[n].state # "turned"
    /\ Requests!Now = 0 => viewer'.shown = None /\ ~viewer'.loading
    /\ viewer'.shown \in Keys => viewer'.shown = viewer'.asks[Requests!Now].key
    /\ viewer'.loading => viewer'.asks[Requests!Now].state # "over"

LEMMA StepsGoOn ==
    ASSUME Requests!IInv, Slots(jobs', running', queues'), sounding' \in BOOLEAN, idleLimit' \in Limits,
           \A j \in Requests!Jobs : Steady(j, jobs[j], jobs'[j]), LoadsGoOn, CacheGoesOn, AsksGoOn
    PROVE  Requests!IInv'
<1>1. /\ loads \in Seq(Requests!Load) /\ loads' \in Seq(Requests!Load) /\ Len(loads') = Len(loads)
      /\ DOMAIN loads = 1 .. Len(loads) /\ DOMAIN loads' = 1 .. Len(loads)
  <2>1. /\ loads \in Seq(Requests!Load) /\ loads' \in Seq(Requests!Load) /\ Len(loads') = Len(loads)
    BY CacheTyped, Zenon DEF LoadsGoOn
  <2>2. QED
    BY <2>1
<1>2. /\ Requests!SlotsAddUp' /\ Requests!QueuedOnce' /\ running' \in 0 .. 4
      /\ queues' \in [prefetch : Seq(Requests!Jobs), background : Seq(Requests!Jobs)]
      /\ jobs' \in [Requests!Jobs -> Requests!JobStates']
  BY <1>1, SlotsThen
<1>3. /\ Requests!Load' = Requests!Load /\ Requests!AskStates' = Requests!AskStates /\ Requests!Now' = Requests!Now
  BY <1>1, Zenon DEF Requests!Load, Requests!AskStates, Requests!Callers, AsksGoOn
<1>4. Requests!TypeOK'
  <2>1. Len(loads) <= Requests!Cardinality(Prefetches) + MaxAsks /\ Requests!Now <= MaxAsks
    BY Zenon DEF Requests!IInv, Requests!TypeOK
  <2>2. /\ cache' \subseteq [key : Keys, load : DOMAIN loads', since : DOMAIN loads', old : BOOLEAN]
        /\ Requests!IsFiniteSet(cache') /\ Requests!Cardinality(cache') <= MaxEntries
    BY <1>1, SameFiniteness, SameCardinality, Zenon DEF CacheGoesOn, Entries
  <2>3. viewer' \in [asks : Seq(Requests!AskStates'), shown : Keys \cup {None, "error"}, loading : BOOLEAN]
    BY <1>3, Zenon DEF AsksGoOn
  <2>4. QED
    BY <1>1, <1>2, <1>3, <2>1, <2>2, <2>3, Zenon DEF Requests!TypeOK
<1>5. Requests!AbortedAreOver'
  <2>1. \A j \in Requests!Jobs : jobs[j].aborted \/ jobs[j].late => jobs[j].slot = "back"
    BY Zenon DEF Requests!IInv, Requests!AbortedAreOver
  <2>2. \A j \in Requests!Jobs : jobs'[j].aborted \/ jobs'[j].late => jobs'[j].slot = "back"
    BY <2>1, Zenon DEF Steady, Going
  <2>3. QED
    BY <2>2, Zenon DEF Requests!AbortedAreOver
<1>6. Requests!AsksInTurn'
  BY <1>3, Zenon DEF Requests!IInv, Requests!AsksInTurn, AsksGoOn
<1>7. /\ \A l, m \in 1 .. Len(loads) : loads[l].by = loads[m].by => l = m
      /\ \A l \in 1 .. Len(loads) :
           \/ loads[l].by \in Prefetches /\ jobs[loads[l].by].slot \in {"held", "back"}
           \/ loads[l].by \in 1 .. Requests!Now /\ viewer.asks[loads[l].by].state # "turned"
  BY Zenon DEF Requests!IInv, Requests!LoadsOfCallers
<1>8. Requests!LoadsOfCallers'
  <2>1. Prefetches \subseteq Requests!Jobs
    BY Numbers
  <2>2. \A j \in Prefetches : jobs[j].slot \in {"held", "back"} => jobs'[j].slot \in {"held", "back"}
    BY <2>1 DEF Steady, Going
  <2>3. \A l, m \in 1 .. Len(loads) : loads'[l].by = loads'[m].by => l = m
    BY <1>7, Zenon DEF LoadsGoOn
  <2>4. \A l \in 1 .. Len(loads) :
         \/ loads'[l].by \in Prefetches /\ jobs'[loads'[l].by].slot \in {"held", "back"}
         \/ loads'[l].by \in 1 .. Requests!Now /\ viewer'.asks[loads'[l].by].state # "turned"
    BY <1>7, <2>2, ZenonT(30) DEF LoadsGoOn, AsksGoOn
  <2>5. QED
    BY <1>1, <1>3, <2>3, <2>4, Zenon DEF Requests!LoadsOfCallers
<1>9. Requests!BegunWaits'
  BY Zenon DEF Requests!IInv, Requests!BegunWaits, Requests!Jobs, Steady, Going
<1>10. Requests!NoDoomedEntry'
  <2> SUFFICES ASSUME NEW e \in cache', loads'[e.load].state = "pending" PROVE ~SignalThen(loads'[e.load].by)
    BY Zenon DEF Requests!NoDoomedEntry, Requests!SignalOf, SignalThen, CacheGoesOn
  <2>1. loads[e.load].state = "pending" /\ \E f \in cache : f.load = e.load
    BY Zenon DEF CacheGoesOn
  <2>2. ~Requests!SignalOf(loads[e.load].by)
    BY <2>1, Zenon DEF Requests!IInv, Requests!NoDoomedEntry
  <2>3. e.load \in 1 .. Len(loads)
    BY DEF CacheGoesOn, Entries
  <2>4. loads'[e.load].by = loads[e.load].by
    BY <2>3, Zenon DEF LoadsGoOn
  <2>5. loads[e.load].by \in Prefetches \/ loads[e.load].by \in 1 .. Requests!Now
    BY <1>7, <2>3, Zenon
  <2>6. CASE loads[e.load].by \in Requests!Jobs
    BY <2>2, <2>4, <2>6, Zenon DEF Requests!SignalOf, SignalThen, Steady
  <2>7. CASE loads[e.load].by \notin Requests!Jobs
    <3>1. loads[e.load].by \in 1 .. Requests!Now
      BY <2>5, <2>7, Numbers
    <3>2. QED
      BY <2>2, <2>4, <2>7, <3>1, Zenon DEF Requests!SignalOf, SignalThen, AsksGoOn
  <2>8. QED
    BY <2>6, <2>7
<1>11. Requests!ShowsCurrent'
  BY <1>3, Zenon DEF Requests!ShowsCurrent, AsksGoOn
<1>12. QED
  BY <1>2, <1>4, <1>5, <1>6, <1>8, <1>9, <1>10, <1>11, Zenon DEF Requests!IInv

\* What is left alone goes on.
LEMMA LeftAlone ==
    ASSUME Requests!IInv
    PROVE  /\ loads' = loads => LoadsGoOn
           /\ viewer' = viewer => AsksGoOn
           /\ loads' = loads /\ cache' = cache => CacheGoesOn
           /\ UNCHANGED <<running, queues, jobs>> =>
                Slots(jobs', running', queues') /\ \A j \in Requests!Jobs : Steady(j, jobs[j], jobs'[j])
           /\ UNCHANGED <<sounding, idleLimit>> => sounding' \in BOOLEAN /\ idleLimit' \in Limits
<1>1. loads' = loads => LoadsGoOn
  BY CacheTyped, Zenon DEF LoadsGoOn
<1>2. viewer' = viewer => AsksGoOn
  <2>1. /\ Requests!Now = 0 => viewer.shown = None /\ ~viewer.loading
        /\ viewer.shown \in Keys => viewer.shown = viewer.asks[Requests!Now].key
        /\ viewer.loading => viewer.asks[Requests!Now].state # "over"
    BY Zenon DEF Requests!IInv, Requests!AsksInTurn, Requests!ShowsCurrent
  <2>2. viewer' = viewer => Requests!Now' = Requests!Now
    BY Zenon DEF Requests!Now
  <2>3. QED
    BY <2>1, <2>2, ViewerTyped, Zenon DEF AsksGoOn
<1>3. loads' = loads /\ cache' = cache => CacheGoesOn
  BY CacheTyped, Zenon DEF CacheGoesOn, Requests!IInv, Requests!NoDoomedEntry
<1>4. UNCHANGED <<running, queues, jobs>> =>
        Slots(jobs', running', queues') /\ \A j \in Requests!Jobs : Steady(j, jobs[j], jobs'[j])
  <2> SUFFICES ASSUME UNCHANGED <<running, queues, jobs>>
               PROVE  Slots(jobs', running', queues') /\ \A j \in Requests!Jobs : Steady(j, jobs[j], jobs'[j])
    OBVIOUS
  <2>1. running' = running /\ queues' = queues /\ jobs' = jobs
    OBVIOUS
  <2>2. QED
    BY <2>1, SlotsNow, Zenon DEF Steady, Going
<1>5. UNCHANGED <<sounding, idleLimit>> => sounding' \in BOOLEAN /\ idleLimit' \in Limits
  BY JobsTyped
<1>6. QED
  BY <1>1, <1>2, <1>3, <1>4, <1>5

LEMMA FallBackKeeps == ASSUME Requests!IInv, NEW l \in Nat \ {0}, Requests!FallBack(l) PROVE Requests!IInv'
<1>1. /\ l <= Len(loads) /\ loads' = [loads EXCEPT ![l].step = @ + 1] /\ cache' = cache /\ viewer' = viewer
      /\ UNCHANGED <<running, queues, jobs>> /\ UNCHANGED <<sounding, idleLimit>>
  BY DEF Requests!FallBack
<1>2. /\ loads \in Seq(Requests!Load) /\ Len(loads) \in Nat /\ DOMAIN loads = 1 .. Len(loads)
      /\ \A m \in 1 .. Len(loads) : loads[m] \in Requests!Load
  BY CacheTyped
<1>3. PICK r : r = [loads[l] EXCEPT !.step = @ + 1]
  OBVIOUS
<1>4. l \in 1 .. Len(loads) /\ loads[l] \in Requests!Load
  BY <1>1, <1>2
<1>5. r \in Requests!Load /\ r.by = loads[l].by /\ r.state = loads[l].state
  BY <1>3, <1>4 DEF Requests!Load
<1>6. loads' \in Seq(Requests!Load) /\ Len(loads') = Len(loads) /\ loads'[l] = r
      /\ \A m \in 1 .. Len(loads) : m # l => loads'[m] = loads[m]
  <2>1. loads' = [loads EXCEPT ![l] = r]
    BY <1>1, <1>3, <1>4, <1>2
  <2>2. QED
    BY <1>2, <1>4, <1>5, <2>1
<1>7. \A m \in 1 .. Len(loads) : loads'[m].by = loads[m].by /\ loads'[m].state = loads[m].state
  BY <1>5, <1>6
<1>8. LoadsGoOn
  BY <1>6, <1>7, Zenon DEF LoadsGoOn
<1>9. CacheGoesOn
  <2>1. /\ cache' \subseteq Entries(Len(loads)) /\ IsFiniteSet(cache') /\ Cardinality(cache') <= MaxEntries
    BY <1>1, CacheTyped
  <2>2. \A e \in cache : e.load \in 1 .. Len(loads)
    BY CacheTyped DEF Entries
  <2>3. \A e \in cache : loads[e.load].state # "rejected"
    BY Zenon DEF Requests!IInv, Requests!NoDoomedEntry
  <2>4. QED
    BY <1>1, <1>7, <2>1, <2>2, <2>3, Zenon DEF CacheGoesOn
<1>10. QED
  BY <1>1, <1>8, <1>9, LeftAlone, StepsGoOn

LEMMA ExpireKeeps == ASSUME Requests!IInv, NEW e \in cache, Requests!Expire(e) PROVE Requests!IInv'
<1>1. /\ cache' = (cache \ {e}) \cup {[e EXCEPT !.old = TRUE]} /\ loads' = loads /\ viewer' = viewer
      /\ UNCHANGED <<running, queues, jobs>> /\ UNCHANGED <<sounding, idleLimit>>
  BY DEF Requests!Expire
<1>2. PICK f : f = [e EXCEPT !.old = TRUE]
  OBVIOUS
<1>3. e \in Entries(Len(loads)) /\ cache \subseteq Entries(Len(loads)) /\ IsFiniteSet(cache) /\ Cardinality(cache) <= MaxEntries
  BY CacheTyped
<1>4. f \in Entries(Len(loads)) /\ f.load = e.load
  BY <1>2, <1>3 DEF Entries
<1>5. IsFiniteSet(cache') /\ Cardinality(cache') <= MaxEntries
  <2>1. PICK d : d = cache \ {e}
    OBVIOUS
  <2>2. IsFiniteSet(d) /\ Cardinality(d) = Cardinality(cache) - 1
    BY <1>3, <2>1, FS_RemoveElement
  <2>3. IsFiniteSet(cache') /\ Cardinality(cache') = IF f \in d THEN Cardinality(d) ELSE Cardinality(d) + 1
    BY <1>1, <1>2, <2>1, <2>2, FS_AddElement
  <2>4. Cardinality(d) \in Nat /\ Cardinality(cache) \in Nat /\ MaxEntries \in Nat
    BY <1>3, <2>2, FS_CardinalityType, ClientAssumption
  <2>5. QED
    BY <1>3, <2>2, <2>3, <2>4
<1>6. CacheGoesOn
  <2>1. cache' \subseteq Entries(Len(loads)) /\ \A g \in cache' : \E h \in cache : h.load = g.load
    BY <1>1, <1>2, <1>3, <1>4
  <2>2. ASSUME NEW g \in cache'
        PROVE  /\ loads'[g.load].state # "rejected"
               /\ loads'[g.load].state = "pending" => loads[g.load].state = "pending"
    <3>1. PICK h \in cache : h.load = g.load
      BY <2>1
    <3>2. loads[h.load].state # "rejected"
      BY Zenon DEF Requests!IInv, Requests!NoDoomedEntry
    <3>3. QED
      BY <1>1, <3>1, <3>2
  <2>3. QED
    BY <1>5, <2>1, <2>2, Zenon DEF CacheGoesOn
<1>7. QED
  BY <1>1, <1>6, LeftAlone, StepsGoOn

LEMMA cleanExpiredEntriesKeeps == ASSUME Requests!IInv, Requests!cleanExpiredEntries PROVE Requests!IInv'
<1>1. /\ cache' \subseteq cache /\ loads' = loads /\ viewer' = viewer
      /\ UNCHANGED <<running, queues, jobs>> /\ UNCHANGED <<sounding, idleLimit>>
  BY DEF Requests!cleanExpiredEntries
<1>2. CacheGoesOn
  <2>1. cache' \subseteq Entries(Len(loads)) /\ IsFiniteSet(cache') /\ Cardinality(cache') <= MaxEntries
    BY <1>1, CacheTyped, FewerEntries, SameFiniteness, SameCardinality
  <2>2. \A g \in cache : loads[g.load].state # "rejected"
    BY Zenon DEF Requests!IInv, Requests!NoDoomedEntry
  <2>3. QED
    BY <1>1, <2>1, <2>2, Zenon DEF CacheGoesOn
<1>3. QED
  BY <1>1, <1>2, LeftAlone, StepsGoOn

\* The answer that a shown viewer owes to its last turn, as one fact to cite.
LEMMA ShownIsOwed ==
    ASSUME Requests!IInv
    PROVE  /\ \A n \in 1 .. Requests!Now : viewer.asks[n].aborted <=> n # Requests!Now
           /\ Requests!Now = 0 => viewer.shown = None /\ ~viewer.loading
           /\ viewer.shown \in Keys => viewer.shown = viewer.asks[Requests!Now].key
           /\ viewer.loading => viewer.asks[Requests!Now].state # "over"
BY Zenon DEF Requests!IInv, Requests!AsksInTurn, Requests!ShowsCurrent

\* One of a line is replaced.
Replaced(T, s, i, r, z) ==
    z \in Seq(T) /\ Len(z) = Len(s) /\ \A m \in 1 .. Len(s) : z[m] = IF m = i THEN r ELSE s[m]

LEMMA OneReplaced ==
    ASSUME NEW T, NEW s \in Seq(T), NEW i \in 1 .. Len(s), NEW r \in T
    PROVE  Replaced(T, s, i, r, [s EXCEPT ![i] = r])
BY ExceptSeq DEF Replaced

\* One ask of the viewer changes, and keeps its track and its signal.
LEMMA OneAskGoesOn ==
    ASSUME Requests!IInv, NEW x \in 1 .. Requests!Now, NEW T, Requests!AskStates \subseteq T, NEW r \in T,
           r.key = viewer.asks[x].key, r.aborted = viewer.asks[x].aborted, r.state # "turned",
           NEW sh \in Keys \cup {None, "error"}, NEW lo \in BOOLEAN,
           viewer' = [asks |-> [viewer.asks EXCEPT ![x] = r], shown |-> sh, loading |-> lo],
           sh \in Keys => sh = viewer.asks[Requests!Now].key,
           lo => (IF x = Requests!Now THEN r ELSE viewer.asks[Requests!Now]).state # "over"
    PROVE  /\ viewer' \in [asks : Seq(T), shown : Keys \cup {None, "error"}, loading : BOOLEAN]
           /\ Requests!Now' = Requests!Now
           /\ viewer'.asks[x] = r /\ \A n \in 1 .. Requests!Now : n # x => viewer'.asks[n] = viewer.asks[n]
           /\ \A n \in 1 .. Requests!Now :
                /\ viewer'.asks[n].aborted = viewer.asks[n].aborted
                /\ viewer.asks[n].state # "turned" => viewer'.asks[n].state # "turned"
           /\ viewer'.shown \in Keys => viewer'.shown = viewer'.asks[Requests!Now].key
           /\ viewer'.loading => viewer'.asks[Requests!Now].state # "over"
<1>1. PICK as \in Seq(Requests!AskStates) : as = viewer.asks
  BY ViewerTyped
<1>2. PICK n \in Nat : n = Len(as) /\ n = Requests!Now
  BY <1>1 DEF Requests!Now
<1>3. as \in Seq(T)
  BY <1>1
<1>4. PICK bs : bs = [as EXCEPT ![x] = r]
  OBVIOUS
<1>5. /\ bs \in Seq(T) /\ Len(bs) = n /\ bs[x] = r /\ \A m \in 1 .. n : m # x => bs[m] = as[m]
  <2>1. x \in 1 .. Len(as)
    BY <1>2
  <2>2. Replaced(T, as, x, r, [as EXCEPT ![x] = r])
    BY <1>3, <2>1, OneReplaced, Zenon
  <2>3. Replaced(T, as, x, r, bs)
    BY <1>4, <2>2, Zenon
  <2>4. QED
    BY <1>2, <2>1, <2>3 DEF Replaced
<1>6. viewer'.asks = bs /\ viewer'.shown = sh /\ viewer'.loading = lo
      /\ viewer' = [asks |-> bs, shown |-> sh, loading |-> lo]
  BY <1>1, <1>4
<1>7. viewer' \in [asks : Seq(T), shown : Keys \cup {None, "error"}, loading : BOOLEAN]
  BY <1>5, <1>6
<1>8. Requests!Now' = Requests!Now
  BY <1>2, <1>5, <1>6 DEF Requests!Now
<1>9. \A m \in 1 .. n : /\ bs[m].aborted = as[m].aborted
                        /\ as[m].state # "turned" => bs[m].state # "turned"
                        /\ bs[m].key = as[m].key
  BY <1>1, <1>5
<1>10. n \in 1 .. n
  BY <1>2
<1>11. (sh \in Keys => sh = bs[n].key) /\ (lo => bs[n].state # "over")
  BY <1>1, <1>2, <1>5, <1>9, <1>10
<1>12. QED
  BY <1>1, <1>2, <1>5, <1>6, <1>7, <1>8, <1>9, <1>11, ZenonT(30)

LEMMA ShowKeeps == ASSUME Requests!IInv, NEW x \in 1 .. MaxAsks, Requests!Show(x) PROVE Requests!IInv'
<1>1. PICK sh : sh = IF ~(x = Requests!Now) THEN viewer.shown
                     ELSE IF viewer.asks[x].state = "resolved" THEN viewer.asks[x].key ELSE "error"
  OBVIOUS
<1>2. PICK lo : lo = IF x = Requests!Now THEN FALSE ELSE viewer.loading
  OBVIOUS
<1>3. PICK r : r = [viewer.asks[x] EXCEPT !.state = "over"]
  OBVIOUS
<1>4. /\ viewer \in [asks : Seq(Requests!AskStates), shown : Keys \cup {None, "error"}, loading : BOOLEAN]
      /\ Requests!Now \in Nat /\ x <= Requests!Now
  BY ViewerTyped DEF Requests!Show
<1>5. x \in 1 .. Requests!Now /\ viewer.asks[x] \in Requests!AskStates
  BY <1>4, ViewerTyped
<1>6. /\ viewer' = [viewer EXCEPT !.asks[x].state = "over", !.shown = sh, !.loading = lo]
      /\ loads' = loads /\ cache' = cache /\ UNCHANGED <<running, queues, jobs>> /\ UNCHANGED <<sounding, idleLimit>>
  BY <1>1, <1>2, <1>4 DEF Requests!Show, Requests!Current
<1>7. viewer' = [asks |-> [viewer.asks EXCEPT ![x] = r], shown |-> sh, loading |-> lo]
  BY <1>3, <1>4, <1>5, <1>6
<1>8. r \in Requests!AskStates /\ r.key = viewer.asks[x].key /\ r.aborted = viewer.asks[x].aborted
      /\ r.state # "turned" /\ viewer.asks[x].key \in Keys \cup {None}
  BY <1>3, <1>5 DEF Requests!AskStates
<1>9. sh \in Keys \cup {None, "error"} /\ lo \in BOOLEAN
  BY <1>1, <1>2, <1>4, <1>8
<1>10. (sh \in Keys => sh = viewer.asks[Requests!Now].key)
       /\ (lo => (IF x = Requests!Now THEN r ELSE viewer.asks[Requests!Now]).state # "over")
  BY <1>1, <1>2, ShownIsOwed, ClientAssumption
<1>11. AsksGoOn
  <2>1. Requests!Now # 0 /\ Requests!AskStates \subseteq Requests!AskStates
    BY <1>5
  <2>2. QED
    BY <1>5, <1>7, <1>8, <1>9, <1>10, <2>1, OneAskGoesOn, ZenonT(30) DEF AsksGoOn
<1>12. QED
  BY <1>6, <1>11, LeftAlone, StepsGoOn

\* The viewer asks for the lyrics of its track, unless it has been turned further.
LEMMA AskKeeps == ASSUME Requests!IInv, NEW x \in 1 .. MaxAsks, Requests!Ask(x) PROVE Requests!IInv'
<1>1. PICK k : k = viewer.asks[x].key
  OBVIOUS
<1>2. /\ viewer \in [asks : Seq(Requests!AskStates), shown : Keys \cup {None, "error"}, loading : BOOLEAN]
      /\ Requests!Now \in Nat /\ x <= Requests!Now /\ viewer.asks[x].state = "turned"
      /\ UNCHANGED <<running, queues, jobs>> /\ UNCHANGED <<sounding, idleLimit>>
  BY ViewerTyped DEF Requests!Ask
<1>3. x \in 1 .. Requests!Now /\ viewer.asks[x] \in Requests!AskStates /\ k \in Keys \cup {None}
  <2>1. x \in 1 .. Requests!Now /\ viewer.asks[x] \in Requests!AskStates
    BY <1>2, ViewerTyped
  <2>2. QED
    BY <1>1, <2>1 DEF Requests!AskStates
<1>4. CASE x # Requests!Now \/ k = None
  <2>1. PICK lo : lo = IF x = Requests!Now THEN FALSE ELSE viewer.loading
    OBVIOUS
  <2>2. PICK r : r = [viewer.asks[x] EXCEPT !.state = "over"]
    OBVIOUS
  <2>3. PICK sh : sh = viewer.shown
    OBVIOUS
  <2>4. /\ viewer' = [viewer EXCEPT !.asks[x].state = "over", !.loading = lo] /\ loads' = loads /\ cache' = cache
    BY <1>1, <1>2, <1>4, <2>1 DEF Requests!Ask
  <2>5. viewer' = [asks |-> [viewer.asks EXCEPT ![x] = r], shown |-> sh, loading |-> lo]
    BY <1>2, <1>3, <2>2, <2>3, <2>4
  <2>6. r \in Requests!AskStates /\ r.key = viewer.asks[x].key /\ r.aborted = viewer.asks[x].aborted /\ r.state # "turned"
    BY <1>3, <2>2 DEF Requests!AskStates
  <2>7. sh \in Keys \cup {None, "error"} /\ lo \in BOOLEAN
    BY <1>2, <2>1, <2>3
  <2>8. (sh \in Keys => sh = viewer.asks[Requests!Now].key)
        /\ (lo => (IF x = Requests!Now THEN r ELSE viewer.asks[Requests!Now]).state # "over")
    BY <2>1, <2>3, ShownIsOwed
  <2>9. AsksGoOn
    <3>1. Requests!Now # 0 /\ Requests!AskStates \subseteq Requests!AskStates
      BY <1>3
    <3>2. QED
      BY <1>3, <2>5, <2>6, <2>7, <2>8, <3>1, OneAskGoesOn, ZenonT(60) DEF AsksGoOn
  <2>10. QED
    BY <1>2, <2>4, <2>9, LeftAlone, StepsGoOn
<1>5. CASE x = Requests!Now /\ k # None
  <2>1. k \in Keys /\ x \in Requests!Callers /\ x \notin Requests!Jobs
    <3>1. x \in Nat
      BY <1>3
    <3>2. QED
      BY <1>3, <1>5, <3>1, Numbers
  <2>2. PICK w : w = Requests!Joined(k)
    OBVIOUS
  <2>3. PICK st : st = IF Requests!Hits(k) # {} /\ loads[w].state # "pending" THEN loads[w].state ELSE "asked"
    OBVIOUS
  <2>4. Requests!remember(k, x) /\ viewer' = [viewer EXCEPT !.asks[x].waits = w, !.asks[x].state = st]
    <3>1. ~(x # Requests!Now \/ viewer.asks[x].key = None)
      BY <1>1, <1>5
    <3>2. /\ Requests!remember(viewer.asks[x].key, x)
          /\ viewer' = [viewer EXCEPT !.asks[x].waits = Requests!Joined(viewer.asks[x].key),
                 !.asks[x].state = IF Requests!Hits(viewer.asks[x].key) # {}
                                        /\ loads[Requests!Joined(viewer.asks[x].key)].state # "pending"
                                   THEN loads[Requests!Joined(viewer.asks[x].key)].state ELSE "asked"]
      BY <3>1, Zenon DEF Requests!Ask
    <3>3. QED
      BY <1>1, <2>2, <2>3, <3>2, Zenon
  <2>5. Remembered(k, x)
    BY <2>1, <2>4, rememberKeeps
  <2>6. /\ loads' \in Seq(Requests!Load) /\ Len(loads) \in Nat /\ Len(loads') \in {Len(loads), Len(loads) + 1}
        /\ w \in 1 .. Len(loads') /\ (Requests!Hits(k) # {} => w \in 1 .. Len(loads))
        /\ cache' \subseteq Entries(Len(loads')) /\ IsFiniteSet(cache') /\ Cardinality(cache') <= MaxEntries
    BY <2>2, <2>5, CacheTyped, Zenon DEF Remembered
  <2>7. DOMAIN loads = 1 .. Len(loads) /\ DOMAIN loads' = 1 .. Len(loads') /\ DOMAIN loads \subseteq DOMAIN loads'
    BY <2>6, CacheTyped
  <2>8. /\ Requests!JobStates \subseteq Requests!JobStates' /\ Requests!AskStates \subseteq Requests!AskStates'
        /\ Requests!Load' = Requests!Load
    BY <2>7, TypesGrow
  <2>9. st \in {"asked", "resolved", "rejected"}
    <3>1. CASE Requests!Hits(k) # {} /\ loads[w].state # "pending"
      <4>1. loads[w] \in Requests!Load
        BY <2>6, <3>1, CacheTyped
      <4>2. QED
        BY <2>3, <3>1, <4>1 DEF Requests!Load, Requests!Settled
    <3>2. CASE ~(Requests!Hits(k) # {} /\ loads[w].state # "pending")
      BY <2>3, <3>2
    <3>3. QED
      BY <3>1, <3>2
  <2>10. PICK r : r = [viewer.asks[x] EXCEPT !.waits = w, !.state = st]
    OBVIOUS
  <2>11. PICK sh : sh = viewer.shown
    OBVIOUS
  <2>12. PICK lo : lo = viewer.loading
    OBVIOUS
  <2>13. viewer' = [asks |-> [viewer.asks EXCEPT ![x] = r], shown |-> sh, loading |-> lo]
    BY <1>2, <1>3, <2>4, <2>10, <2>11, <2>12, ZenonT(60)
  <2>14. /\ r \in Requests!AskStates' /\ r.key = viewer.asks[x].key /\ r.aborted = viewer.asks[x].aborted
         /\ r.state \in {"asked", "resolved", "rejected"}
    BY <1>3, <2>6, <2>7, <2>8, <2>9, <2>10, Zenon DEF Requests!AskStates, Requests!Settled
  <2>15. sh \in Keys \cup {None, "error"} /\ lo \in BOOLEAN
    BY <1>2, <2>11, <2>12
  <2>16. (sh \in Keys => sh = viewer.asks[Requests!Now].key)
         /\ (lo => (IF x = Requests!Now THEN r ELSE viewer.asks[Requests!Now]).state # "over")
         /\ r.state # "turned"
    BY <1>5, <2>11, <2>14, ShownIsOwed
  <2>17. /\ viewer' \in [asks : Seq(Requests!AskStates'), shown : Keys \cup {None, "error"}, loading : BOOLEAN]
         /\ Requests!Now' = Requests!Now
         /\ viewer'.asks[x] = r /\ \A n \in 1 .. Requests!Now : n # x => viewer'.asks[n] = viewer.asks[n]
         /\ \A n \in 1 .. Requests!Now :
              /\ viewer'.asks[n].aborted = viewer.asks[n].aborted
              /\ viewer.asks[n].state # "turned" => viewer'.asks[n].state # "turned"
         /\ viewer'.shown \in Keys => viewer'.shown = viewer'.asks[Requests!Now].key
         /\ viewer'.loading => viewer'.asks[Requests!Now].state # "over"
    BY <1>3, <2>8, <2>13, <2>14, <2>15, <2>16, OneAskGoesOn, Zenon
  <2>18. Requests!AsksInTurn' /\ Requests!ShowsCurrent'
    <3>1. Requests!Now # 0
      BY <1>3
    <3>2. QED
      BY <2>17, <3>1, ShownIsOwed, Zenon DEF Requests!AsksInTurn, Requests!ShowsCurrent
  <2>19. \A l \in 1 .. Len(loads) : /\ loads[l].by # x
                                    /\ loads[l].by \in Prefetches \/ loads[l].by \in 1 .. Requests!Now
    <3>1. \A l \in 1 .. Len(loads) :
           \/ loads[l].by \in Prefetches /\ jobs[loads[l].by].slot \in {"held", "back"}
           \/ loads[l].by \in 1 .. Requests!Now /\ viewer.asks[loads[l].by].state # "turned"
      BY Zenon DEF Requests!IInv, Requests!LoadsOfCallers
    <3>2. x \notin Prefetches
      BY <2>1, Numbers
    <3>3. QED
      BY <1>2, <3>1, <3>2, Zenon
  <2>20. /\ ~SignalThen(x)
         /\ \A l \in 1 .. Len(loads) : SignalThen(loads[l].by) = Requests!SignalOf(loads[l].by)
    <3>1. ~SignalThen(x)
      BY <1>3, <1>5, <2>1, <2>17, ShownIsOwed, Zenon DEF SignalThen
    <3>2. ASSUME NEW l \in 1 .. Len(loads) PROVE SignalThen(loads[l].by) = Requests!SignalOf(loads[l].by)
      <4>1. CASE loads[l].by \in Requests!Jobs
        BY <1>2, <4>1 DEF SignalThen, Requests!SignalOf
      <4>2. CASE loads[l].by \notin Requests!Jobs
        <5>1. loads[l].by \in 1 .. Requests!Now
          BY <2>19, <4>2, Numbers
        <5>2. QED
          BY <2>17, <4>2, <5>1, Zenon DEF SignalThen, Requests!SignalOf
      <4>3. QED
        BY <4>1, <4>2
    <3>3. QED
      BY <3>1, <3>2
  <2>21. /\ jobs' = jobs /\ running' = running /\ queues' = queues
    BY <1>2
  <2>22. Requests!LoadsOfCallers' /\ Requests!NoDoomedEntry' /\ Len(loads') <= Requests!Cardinality(Prefetches) + MaxAsks
    <3>1. /\ x \in Prefetches \cup 1 .. Requests!Now /\ \A l \in 1 .. Len(loads) : loads[l].by # x
          /\ \A j \in Prefetches : jobs[j].slot \in {"held", "back"} \/ j = x => jobs'[j].slot \in {"held", "back"}
      BY <1>3, <2>1, <2>19, <2>21, Numbers
    <3>2. \A n \in 1 .. Requests!Now : viewer.asks[n].state # "turned" \/ n = x => viewer'.asks[n].state # "turned"
      BY <2>16, <2>17, Zenon
    <3>3. QED
      BY <2>5, <2>17, <2>20, <3>1, <3>2, RememberedHolds
  <2>23. Requests!SlotsAddUp' /\ Requests!QueuedOnce' /\ Requests!AbortedAreOver' /\ Requests!BegunWaits'
    <3>1. Requests!SlotsAddUp' /\ Requests!QueuedOnce'
      BY <2>21, Zenon DEF Requests!IInv, Requests!SlotsAddUp, Requests!QueuedOnce,
         Requests!Line
    <3>2. QED
      BY <2>21, <3>1, Zenon DEF Requests!IInv, Requests!AbortedAreOver, Requests!BegunWaits
  <2>24. Requests!TypeOK'
    <3>1. /\ sounding \in BOOLEAN /\ idleLimit \in Limits /\ running \in 0 .. 4
          /\ queues \in [prefetch : Seq(Requests!Jobs), background : Seq(Requests!Jobs)]
          /\ Requests!Now <= MaxAsks
      BY Zenon DEF Requests!IInv, Requests!TypeOK
    <3>2. jobs' \in [Requests!Jobs -> Requests!JobStates']
      <4>1. jobs \in [Requests!Jobs -> Requests!JobStates]
        BY JobsTyped, Zenon
      <4>2. QED
        BY <2>8, <2>21, <4>1
    <3>3. /\ cache' \subseteq [key : Keys, load : DOMAIN loads', since : DOMAIN loads', old : BOOLEAN]
          /\ Requests!IsFiniteSet(cache') /\ Requests!Cardinality(cache') <= MaxEntries
      BY <2>6, <2>7, SameFiniteness, SameCardinality, Zenon DEF Entries
    <3>4. sounding' = sounding /\ idleLimit' = idleLimit
      BY <1>2
    <3>5. QED
      BY <2>6, <2>8, <2>17, <2>21, <2>22, <3>1, <3>2, <3>3, <3>4, Zenon DEF Requests!TypeOK
  <2>25. QED
    BY <2>18, <2>22, <2>23, <2>24, Zenon DEF Requests!IInv
<1>6. QED
  BY <1>4, <1>5

LEMMA FunctionIsLine == ASSUME NEW S, NEW n \in Nat, NEW f \in [1 .. n -> S] PROVE f \in Seq(S) /\ Len(f) = n
OBVIOUS

\* The viewer is turned to another track: the load of the last turn is dropped.
LEMMA TurnToKeeps == ASSUME Requests!IInv, NEW k \in Keys \cup {None}, Requests!TurnTo(k) PROVE Requests!IInv'
<1>1. PICK n \in Nat : n = Requests!Now
  BY ViewerTyped
<1>2. PICK as \in Seq(Requests!AskStates) : as = viewer.asks
  BY ViewerTyped
<1>3. PICK bs : bs = [q \in DOMAIN as |-> [as[q] EXCEPT !.aborted = TRUE,
                                                       !.state = IF @ = "asked" THEN "rejected" ELSE @]]
  OBVIOUS
<1>4. PICK new : new = [Requests!NewAsk EXCEPT !.key = k, !.state = "turned"]
  OBVIOUS
<1>5. PICK lo : lo = (k # None)
  OBVIOUS
<1>6. /\ n < MaxAsks /\ cache' = IF n = 0 THEN cache ELSE Requests!AbortedOut(cache, n)
      /\ viewer' = [asks |-> Append(bs, new), shown |-> None, loading |-> lo]
      /\ UNCHANGED <<sounding, idleLimit, running, queues, jobs, loads>>
  BY <1>1, <1>2, <1>3, <1>4, <1>5 DEF Requests!TurnTo
<1>7. Len(as) = n /\ DOMAIN as = 1 .. n
  BY <1>1, <1>2 DEF Requests!Now
<1>8. ASSUME NEW q \in 1 .. n
      PROVE  /\ bs[q] \in Requests!AskStates /\ bs[q].aborted = TRUE
             /\ as[q].state # "turned" => bs[q].state # "turned"
  <2>1. as[q] \in Requests!AskStates
    BY <1>2, <1>7
  <2>2. bs[q] = [as[q] EXCEPT !.aborted = TRUE, !.state = IF @ = "asked" THEN "rejected" ELSE @]
    BY <1>3, <1>7
  <2>3. QED
    BY <2>1, <2>2 DEF Requests!AskStates, Requests!Settled
<1>9. bs \in Seq(Requests!AskStates) /\ Len(bs) = n
  <2>1. bs \in [1 .. n -> Requests!AskStates]
    BY <1>3, <1>7, <1>8, ZenonT(30)
  <2>2. QED
    BY <2>1, FunctionIsLine, ZenonT(30)
<1>10. /\ new \in Requests!AskStates /\ new.aborted = FALSE /\ new.state = "turned"
  BY <1>4 DEF Requests!AskStates, Requests!NewAsk
<1>11. /\ Append(bs, new) \in Seq(Requests!AskStates) /\ Len(Append(bs, new)) = n + 1
       /\ Append(bs, new)[n + 1] = new /\ \A q \in 1 .. n : Append(bs, new)[q] = bs[q]
  <2>1. Append(bs, new) \in Seq(Requests!AskStates) /\ Len(Append(bs, new)) = n + 1
    BY <1>9, <1>10
  <2>2. Append(bs, new)[n + 1] = new /\ \A q \in 1 .. n : Append(bs, new)[q] = bs[q]
    BY <1>9, <1>10, AppendAt
  <2>3. QED
    BY <2>1, <2>2
<1>12. PICK cs : cs = Append(bs, new)
  OBVIOUS
<1>13. /\ viewer' = [asks |-> cs, shown |-> None, loading |-> lo] /\ viewer'.asks = cs
       /\ viewer'.shown = None /\ lo \in BOOLEAN
  BY <1>5, <1>6, <1>12
<1>14. Requests!Now' = n + 1
  BY <1>11, <1>12, <1>13 DEF Requests!Now
<1>15. Requests!AsksInTurn'
  <2>1. \A q \in 1 .. n + 1 : cs[q].aborted <=> q # n + 1
    <3>1. \A q \in 1 .. n : cs[q].aborted /\ q # n + 1
      <4>1. \A q \in 1 .. n : q # n + 1
        OBVIOUS
      <4>2. QED
        BY <1>8, <1>11, <1>12, <4>1, Zenon
    <3>2. ~cs[n + 1].aborted
      BY <1>10, <1>11, <1>12
    <3>3. QED
      BY <3>1, <3>2
  <2>2. n + 1 # 0
    OBVIOUS
  <2>3. QED
    BY <1>13, <1>14, <2>1, <2>2, Zenon DEF Requests!AsksInTurn
<1>16. Requests!ShowsCurrent'
  <2>1. cs[n + 1].state # "over" /\ None \notin Keys
    BY <1>10, <1>11, <1>12, ClientAssumption
  <2>2. QED
    BY <1>13, <1>14, <2>1, Zenon DEF Requests!ShowsCurrent
<1>17. /\ \A l, m \in 1 .. Len(loads) : loads[l].by = loads[m].by => l = m
       /\ \A l \in 1 .. Len(loads) :
            \/ loads[l].by \in Prefetches /\ jobs[loads[l].by].slot \in {"held", "back"}
            \/ loads[l].by \in 1 .. n /\ as[loads[l].by].state # "turned"
  BY <1>1, <1>2, Zenon DEF Requests!IInv, Requests!LoadsOfCallers
<1>18. loads' = loads /\ jobs' = jobs /\ running' = running /\ queues' = queues
       /\ sounding' = sounding /\ idleLimit' = idleLimit
  BY <1>6
<1>19. Requests!LoadsOfCallers'
  <2>1. \A q \in 1 .. n : q \in 1 .. n + 1 /\ (as[q].state # "turned" => cs[q].state # "turned")
    <3>1. \A q \in 1 .. n : q \in 1 .. n + 1
      OBVIOUS
    <3>2. QED
      BY <1>8, <1>11, <1>12, <3>1, Zenon
  <2>2. \A l \in 1 .. Len(loads) :
            \/ loads[l].by \in Prefetches /\ jobs[loads[l].by].slot \in {"held", "back"}
            \/ loads[l].by \in 1 .. n + 1 /\ cs[loads[l].by].state # "turned"
    BY <1>17, <2>1, Zenon
  <2>3. QED
    BY <1>13, <1>14, <1>17, <1>18, <2>2, Zenon DEF Requests!LoadsOfCallers
<1>20. cache' \subseteq cache /\ \A e \in cache' : loads[e.load].state = "pending" => n = 0 \/ loads[e.load].by # n
  BY <1>6 DEF Requests!AbortedOut
<1>21. Requests!NoDoomedEntry'
  <2>1. \A e \in cache' : loads[e.load].state # "rejected"
    BY <1>20, Zenon DEF Requests!IInv, Requests!NoDoomedEntry
  <2>2. ASSUME NEW e \in cache', loads[e.load].state = "pending" PROVE ~SignalThen(loads[e.load].by)
    <3>1. ~Requests!SignalOf(loads[e.load].by)
      BY <1>20, <2>2, Zenon DEF Requests!IInv, Requests!NoDoomedEntry
    <3>2. CASE loads[e.load].by \in Requests!Jobs
      BY <1>18, <3>1, <3>2, Zenon DEF Requests!SignalOf, SignalThen
    <3>3. CASE loads[e.load].by \notin Requests!Jobs
      <4>1. e.load \in 1 .. Len(loads)
        BY <1>20, CacheTyped DEF Entries
      <4>2. loads[e.load].by \in 1 .. n
        BY <1>17, <3>3, <4>1, Numbers
      <4>3. loads[e.load].by # n
        BY <1>20, <2>2, <4>2
      <4>4. Requests!SignalOf(loads[e.load].by)
        BY <1>1, <3>3, <4>2, <4>3, ShownIsOwed, Zenon DEF Requests!SignalOf
      <4>5. QED
        BY <3>1, <4>4
    <3>4. QED
      BY <3>2, <3>3
  <2>3. QED
    BY <1>18, <2>1, <2>2, Zenon DEF Requests!NoDoomedEntry, Requests!SignalOf, SignalThen
<1>22. Requests!SlotsAddUp' /\ Requests!QueuedOnce' /\ Requests!AbortedAreOver' /\ Requests!BegunWaits'
  <2>1. Requests!SlotsAddUp' /\ Requests!QueuedOnce'
    BY <1>18, Zenon DEF Requests!IInv, Requests!SlotsAddUp, Requests!QueuedOnce,
       Requests!Line
  <2>2. QED
    BY <1>18, <2>1, Zenon DEF Requests!IInv, Requests!AbortedAreOver, Requests!BegunWaits
<1>23. Requests!TypeOK'
  <2>1. /\ sounding \in BOOLEAN /\ idleLimit \in Limits /\ running \in 0 .. 4
        /\ queues \in [prefetch : Seq(Requests!Jobs), background : Seq(Requests!Jobs)]
        /\ jobs \in [Requests!Jobs -> Requests!JobStates]
        /\ loads \in Seq(Requests!Load) /\ Len(loads) <= Requests!Cardinality(Prefetches) + MaxAsks
        /\ cache \subseteq [key : Keys, load : DOMAIN loads, since : DOMAIN loads, old : BOOLEAN]
    BY Zenon DEF Requests!IInv, Requests!TypeOK
  <2>2. /\ Requests!JobStates' = Requests!JobStates /\ Requests!Load' = Requests!Load
        /\ Requests!AskStates' = Requests!AskStates
    BY <1>18, Zenon DEF Requests!JobStates, Requests!Load, Requests!Callers,
       Requests!AskStates
  <2>3. viewer' \in [asks : Seq(Requests!AskStates), shown : Keys \cup {None, "error"}, loading : BOOLEAN]
    BY <1>11, <1>12, <1>13
  <2>4. cache' \subseteq [key : Keys, load : DOMAIN loads, since : DOMAIN loads, old : BOOLEAN]
    BY <1>20, <2>1, Zenon
  <2>5. Requests!IsFiniteSet(cache') /\ Requests!Cardinality(cache') <= MaxEntries
    BY <1>20, FewerEntries
  <2>6. n + 1 <= MaxAsks
    BY <1>6, ClientAssumption
  <2>7. QED
    BY <1>14, <1>18, <2>1, <2>2, <2>3, <2>4, <2>5, <2>6, Zenon DEF Requests!TypeOK
<1>24. QED
  BY <1>15, <1>16, <1>19, <1>21, <1>22, <1>23, Zenon DEF Requests!IInv

\* A load is answered: the jobs that wait for it give their slots back.
LEMMA SettleKeeps ==
    ASSUME Requests!IInv, NEW l \in Nat \ {0}, NEW how \in {"resolved", "rejected"}, Requests!Settle(l, how)
    PROVE  Requests!IInv'
<1>1. PICK W : W = Requests!Waiting(l)
  OBVIOUS
<1>2. PICK js : js = [j \in Requests!Jobs |-> IF j \in W THEN [jobs[j] EXCEPT !.answer = how] ELSE jobs[j]]
  OBVIOUS
<1>3. PICK bs : bs = [q \in DOMAIN viewer.asks |-> IF viewer.asks[q].waits = l /\ viewer.asks[q].state = "asked"
                                                    THEN [viewer.asks[q] EXCEPT !.state = how] ELSE viewer.asks[q]]
  OBVIOUS
<1>4. viewer \in [asks : Seq(Requests!AskStates), shown : Keys \cup {None, "error"}, loading : BOOLEAN]
  BY ViewerTyped
<1>5. /\ l <= Len(loads) /\ loads[l].state = "pending" /\ loads' = [loads EXCEPT ![l].state = how]
      /\ cache' = IF how = "rejected" THEN Requests!Evict(cache, l) ELSE cache
      /\ Requests!Finish(W, js) /\ viewer' = [viewer EXCEPT !.asks = bs]
      /\ sounding' = sounding /\ idleLimit' = idleLimit
  BY <1>1, <1>2, <1>3 DEF Requests!Settle
<1>6. /\ loads \in Seq(Requests!Load) /\ Len(loads) \in Nat /\ DOMAIN loads = 1 .. Len(loads)
      /\ \A m \in 1 .. Len(loads) : loads[m] \in Requests!Load
      /\ cache \subseteq Entries(Len(loads)) /\ IsFiniteSet(cache) /\ Cardinality(cache) <= MaxEntries
  BY CacheTyped
<1>7. l \in 1 .. Len(loads) /\ loads[l] \in Requests!Load
  BY <1>5, <1>6
<1>8. PICK r : r = [loads[l] EXCEPT !.state = how]
  OBVIOUS
<1>9. r \in Requests!Load /\ r.by = loads[l].by /\ r.state = how
  BY <1>7, <1>8 DEF Requests!Load, Requests!Settled
<1>10. /\ loads' \in Seq(Requests!Load) /\ Len(loads') = Len(loads) /\ loads'[l] = r
       /\ \A m \in 1 .. Len(loads) : m # l => loads'[m] = loads[m]
  <2>1. loads' = [loads EXCEPT ![l] = r]
    BY <1>5, <1>6, <1>7, <1>8
  <2>2. QED
    BY <1>6, <1>7, <1>9, <2>1
<1>11. LoadsGoOn
  <2>1. \A m \in 1 .. Len(loads) : loads'[m].by = loads[m].by
    BY <1>9, <1>10
  <2>2. QED
    BY <1>10, <2>1, Zenon DEF LoadsGoOn
<1>12. CacheGoesOn
  <2>1. cache' \subseteq cache /\ (how = "rejected" => \A e \in cache' : e.load # l)
    BY <1>5 DEF Requests!Evict
  <2>2. IsFiniteSet(cache') /\ Cardinality(cache') <= MaxEntries
    BY <2>1, FewerEntries, SameFiniteness, SameCardinality, Zenon
  <2>3. ASSUME NEW e \in cache'
        PROVE  /\ loads'[e.load].state # "rejected"
               /\ loads'[e.load].state = "pending" => loads[e.load].state = "pending"
    <3>1. loads[e.load].state # "rejected" /\ e.load \in 1 .. Len(loads)
      BY <1>6, <2>1 DEF Requests!IInv, Requests!NoDoomedEntry, Entries
    <3>2. CASE e.load = l
      BY <1>5, <1>9, <1>10, <2>1, <3>2
    <3>3. CASE e.load # l
      BY <1>10, <3>1, <3>3
    <3>4. QED
      BY <3>2, <3>3
  <2>4. cache' \subseteq Entries(Len(loads)) /\ \A e \in cache' : \E f \in cache : f.load = e.load
    BY <1>6, <2>1
  <2>5. QED
    BY <2>2, <2>3, <2>4, Zenon DEF CacheGoesOn
<1>13. jobs \in [Requests!Jobs -> Requests!JobStates] /\ \A j \in Requests!Jobs : jobs[j] \in Requests!JobStates
  BY JobsTyped
<1>14. /\ W \subseteq Requests!Jobs /\ \A j \in W : jobs[j].answer = "pending"
  BY <1>1, Numbers DEF Requests!Waiting
<1>15. ASSUME NEW j \in Requests!Jobs
       PROVE  /\ js[j] \in Requests!JobStates /\ js[j].slot = jobs[j].slot /\ js[j].aborted = jobs[j].aborted
              /\ js[j].late = jobs[j].late /\ js[j].waits = jobs[j].waits
              /\ j \in W => js[j].answer # "pending" /\ (jobs[j].answer # "pending" => js[j].answer # "pending")
              /\ jobs[j].answer # "pending" => js[j].answer # "pending"
  <2>1. jobs[j] \in Requests!JobStates
    BY <1>13
  <2>2. CASE j \in W
    <3>1. js[j] = [jobs[j] EXCEPT !.answer = how]
      BY <1>2, <2>2
    <3>2. QED
      BY <2>1, <3>1 DEF Requests!JobStates, Requests!Settled
  <2>3. CASE j \notin W
    BY <1>2, <2>1, <2>3
  <2>4. QED
    BY <2>2, <2>3
<1>16. js \in [Requests!Jobs -> Requests!JobStates]
  BY <1>2, <1>15
<1>17. /\ Slots(jobs', running', queues')
       /\ \A j \in Requests!Jobs : LET back == j \in W /\ jobs[j].slot = "held"
                                   IN  \/ back /\ jobs'[j] = [js[j] EXCEPT !.slot = "back"]
                                       \/ ~back /\ jobs'[j] = js[j]
                                       \/ jobs[j].slot = "queued" /\ jobs'[j] = [js[j] EXCEPT !.slot = "taken"]
  <2>1. /\ W \in SUBSET Requests!Jobs
        /\ \A j \in Requests!Jobs : js[j].slot = jobs[j].slot /\ (jobs[j].answer # "pending" => js[j].answer # "pending")
        /\ \A j \in W : jobs[j].slot = "held" => js[j].answer # "pending"
    BY <1>14, <1>15
  <2>2. QED
    BY <1>5, <1>16, <2>1, FinishKeepsTheSlots, Zenon
<1>18. ASSUME NEW j \in Requests!Jobs PROVE Steady(j, jobs[j], jobs'[j])
  <2>1. /\ js[j] \in Requests!JobStates /\ js[j].slot = jobs[j].slot /\ js[j].aborted = jobs[j].aborted
        /\ js[j].late = jobs[j].late /\ js[j].waits = jobs[j].waits
    BY <1>15
  <2>2. CASE jobs[j].slot = "held" /\ jobs'[j] = [js[j] EXCEPT !.slot = "back"]
    BY <2>1, <2>2, AnotherSlot DEF Steady, Going
  <2>3. CASE jobs'[j] = js[j]
    BY <2>1, <2>3, Zenon DEF Steady, Going
  <2>4. CASE jobs[j].slot = "queued" /\ jobs'[j] = [js[j] EXCEPT !.slot = "taken"]
    BY <2>1, <2>4, AnotherSlot DEF Steady, Going
  <2>5. QED
    BY <1>17, <2>2, <2>3, <2>4
<1>19. AsksGoOn
  <2>1. PICK as \in Seq(Requests!AskStates) : as = viewer.asks
    BY <1>4
  <2>2. PICK n \in Nat : n = Requests!Now /\ n = Len(as) /\ DOMAIN as = 1 .. n
    BY <2>1 DEF Requests!Now
  <2>3. ASSUME NEW q \in 1 .. n
        PROVE  /\ bs[q] \in Requests!AskStates /\ bs[q].aborted = as[q].aborted /\ bs[q].key = as[q].key
               /\ as[q].state # "turned" => bs[q].state # "turned"
               /\ as[q].state # "over" => bs[q].state # "over"
    <3>1. as[q] \in Requests!AskStates
      BY <2>1, <2>2
    <3>2. bs[q] = IF as[q].waits = l /\ as[q].state = "asked" THEN [as[q] EXCEPT !.state = how] ELSE as[q]
      BY <1>3, <2>1, <2>2
    <3>3. QED
      BY <3>1, <3>2 DEF Requests!AskStates, Requests!Settled
  <2>4. bs \in Seq(Requests!AskStates) /\ Len(bs) = n
    <3>1. bs \in [1 .. n -> Requests!AskStates]
      BY <1>3, <2>1, <2>2, <2>3
    <3>2. QED
      BY <3>1, FunctionIsLine, Zenon
  <2>5. /\ viewer' = [asks |-> bs, shown |-> viewer.shown, loading |-> viewer.loading] /\ viewer'.asks = bs
        /\ viewer'.shown = viewer.shown /\ viewer'.loading = viewer.loading
    BY <1>4, <1>5
  <2>6. viewer' \in [asks : Seq(Requests!AskStates), shown : Keys \cup {None, "error"}, loading : BOOLEAN]
    BY <1>4, <2>4, <2>5
  <2>7. Requests!Now' = n
    BY <2>4, <2>5 DEF Requests!Now
  <2>8. /\ n = 0 => viewer.shown = None /\ ~viewer.loading
        /\ viewer.shown \in Keys => viewer.shown = as[n].key
        /\ viewer.loading => as[n].state # "over"
    BY <2>1, <2>2, ShownIsOwed, Zenon
  <2>9. /\ viewer.shown \in Keys => viewer.shown = bs[n].key
        /\ viewer.loading => bs[n].state # "over"
    <3>1. CASE n = 0
      BY <2>8, <3>1, ClientAssumption
    <3>2. CASE n # 0
      <4>1. n \in 1 .. n
        BY <3>2
      <4>2. QED
        BY <2>3, <2>8, <4>1, Zenon
    <3>3. QED
      BY <3>1, <3>2
  <2>10. QED
    BY <2>1, <2>2, <2>3, <2>5, <2>6, <2>7, <2>8, <2>9, Zenon DEF AsksGoOn
<1>20. sounding' \in BOOLEAN /\ idleLimit' \in Limits
  BY <1>5, JobsTyped
<1>21. QED
  BY <1>11, <1>12, <1>17, <1>18, <1>19, <1>20, StepsGoOn

LEMMA RequestsStart == Requests!Init => Requests!IInv
<1> SUFFICES ASSUME Requests!Init PROVE Requests!IInv
  OBVIOUS
<1>1. /\ sounding = FALSE /\ idleLimit \in Limits /\ running = 0
      /\ queues = [prefetch |-> <<>>, background |-> <<>>]
      /\ jobs = [j \in Requests!Jobs |-> Requests!NewJob] /\ loads = <<>> /\ cache = {}
      /\ viewer = [asks |-> <<>>, shown |-> None, loading |-> FALSE]
  BY Zenon DEF Requests!Init
<1>2. \A j \in Requests!Jobs : /\ jobs[j].slot = "none" /\ jobs[j].answer = "pending" /\ ~jobs[j].aborted
                               /\ ~jobs[j].late /\ jobs[j] \in Requests!JobStates
  BY <1>1 DEF Requests!NewJob, Requests!JobStates
<1>3. Requests!Now = 0 /\ Len(loads) = 0
  BY <1>1 DEF Requests!Now
<1>4. Requests!IsFiniteSet(cache) /\ Requests!Cardinality(cache) = 0
  BY <1>1, FS_EmptySet, SameFiniteness, SameCardinality
<1>5. Requests!TypeOK
  <2>1. MaxEntries \in Nat \ {0} /\ MaxAsks \in Nat /\ Cardinality(Prefetches) \in Nat
    BY FS_CardinalityType, ClientAssumption
  <2>2. Requests!Cardinality(cache) <= MaxEntries /\ Requests!Now <= MaxAsks
    BY <1>3, <1>4, <2>1
  <2>3. Len(loads) <= Requests!Cardinality(Prefetches) + MaxAsks
    BY <1>3, <2>1, SameCardinality
  <2>4. jobs \in [Requests!Jobs -> Requests!JobStates]
    BY <1>1, <1>2
  <2>5. /\ queues \in [prefetch : Seq(Requests!Jobs), background : Seq(Requests!Jobs)]
        /\ loads \in Seq(Requests!Load) /\ running \in 0 .. 4
        /\ viewer \in [asks : Seq(Requests!AskStates), shown : Keys \cup {None, "error"}, loading : BOOLEAN]
    BY <1>1
  <2>6. /\ cache \subseteq [key : Keys, load : DOMAIN loads, since : DOMAIN loads, old : BOOLEAN]
        /\ sounding \in BOOLEAN
    BY <1>1
  <2>7. QED
    BY <1>1, <1>4, <2>2, <2>3, <2>4, <2>5, <2>6, Zenon DEF Requests!TypeOK
<1>6. Requests!QueuedOnce /\ Requests!SlotsAddUp
  <2>1. Slots(jobs, running, queues)
    <3>1. LineOf(queues) = <<>> /\ queues \in [prefetch : Seq(Requests!Jobs), background : Seq(Requests!Jobs)]
      BY <1>1 DEF LineOf
    <3>2. OnceEach(LineOf(queues)) /\ ~\E n \in 1 .. Len(LineOf(queues)) : TRUE
      BY <3>1 DEF OnceEach
    <3>3. Serving(jobs) = {}
      BY <1>2 DEF Serving
    <3>4. jobs \in [Requests!Jobs -> Requests!JobStates] /\ running \in 0 .. 4
      BY <1>1, <1>2
    <3>5. running = Cardinality(Serving(jobs))
      BY <1>1, <3>3, FS_EmptySet
    <3>6. /\ \A j \in Requests!Jobs : jobs[j].slot = "queued" <=> \E n \in 1 .. Len(LineOf(queues)) : LineOf(queues)[n] = j
          /\ \A j \in Requests!Jobs : jobs[j].slot = "back" => jobs[j].answer # "pending"
      BY <1>2, <3>2
    <3>7. QED
      BY <3>1, <3>2, <3>4, <3>5, <3>6, Zenon DEF Slots
  <2>2. /\ running = Cardinality({j \in Requests!Jobs : jobs[j].slot \in {"taken", "held"}})
        /\ \A m, n \in 1 .. Len(queues.prefetch \o queues.background) :
             (queues.prefetch \o queues.background)[m] = (queues.prefetch \o queues.background)[n] => m = n
        /\ \A j \in Requests!Jobs : jobs[j].slot = "queued"
                <=> j \in Requests!ToSet(queues.prefetch) \cup Requests!ToSet(queues.background)
        /\ \A j \in Requests!Jobs : jobs[j].slot = "back" => jobs[j].answer # "pending"
    <3>1. queues \in [prefetch : Seq(Requests!Jobs), background : Seq(Requests!Jobs)]
      BY <1>1
    <3>2. QED
      BY <2>1, <3>1, SlotsSay, Zenon
  <2>3. QED
    BY <2>2, SameCardinality, Zenon DEF Requests!QueuedOnce, Requests!Line,
       Requests!SlotsAddUp
<1>7. Requests!AbortedAreOver /\ Requests!BegunWaits
  BY <1>2, Numbers DEF Requests!AbortedAreOver, Requests!BegunWaits
<1>8. Requests!AsksInTurn /\ Requests!LoadsOfCallers
  BY <1>1, <1>3 DEF Requests!AsksInTurn, Requests!LoadsOfCallers
<1>9. Requests!NoDoomedEntry /\ Requests!ShowsCurrent
  BY <1>1, ClientAssumption DEF Requests!NoDoomedEntry, Requests!ShowsCurrent
<1>10. QED
  BY <1>5, <1>6, <1>7, <1>8, <1>9, Zenon DEF Requests!IInv

LEMMA RequestsStay == ASSUME Requests!IInv, UNCHANGED requestVars PROVE Requests!IInv'
<1>1. /\ loads' = loads /\ cache' = cache /\ viewer' = viewer
      /\ UNCHANGED <<running, queues, jobs>> /\ UNCHANGED <<sounding, idleLimit>>
  BY DEF requestVars
<1>2. QED
  BY <1>1, LeftAlone, StepsGoOn

LEMMA RequestsStep == ASSUME Requests!IInv, [Requests!Next]_requestVars PROVE Requests!IInv'
<1>1. ASSUME NEW j \in Requests!Jobs, Requests!JobSteps(j) PROVE Requests!IInv'
  BY <1>1, runLowPriorityKeeps, BeginPrefetchKeeps, BeginImageKeeps, SlotTimesOutKeeps,
     LateSettleKeeps,
     JoinSettledKeeps, ImageSettlesKeeps, Zenon DEF Requests!JobSteps
<1>2. ASSUME NEW l \in Requests!Loads, Requests!FallBack(l) \/ \E how \in {"resolved", "rejected"} : Requests!Settle(l, how)
      PROVE  Requests!IInv'
  <2>1. l \in Nat \ {0}
    BY SameCardinality, FS_CardinalityType, ClientAssumption DEF Requests!Loads
  <2>2. QED
    BY <1>2, <2>1, FallBackKeeps, SettleKeeps, Zenon
<1>3. ASSUME NEW x \in Requests!Asks, Requests!Ask(x) \/ Requests!Show(x) PROVE Requests!IInv'
  BY <1>3, AskKeeps, ShowKeeps, Numbers, Zenon
<1>4. CASE Requests!Next
  BY <1>1, <1>2, <1>3, <1>4, setPlaybackActiveKeeps, NetworkChangesKeeps,
     cleanExpiredEntriesKeeps, ExpireKeeps,
     TurnToKeeps, Zenon DEF Requests!Next
<1>5. CASE UNCHANGED requestVars
  BY <1>5, RequestsStay
<1>6. QED
  BY <1>4, <1>5

\* The slots of the low-priority requests add up, nobody joins a load that has failed or
\* was aborted, and the viewer shows what it was last turned to, for any prefetches,
\* images and keys, any limits of the connection, and however often the viewer is turned.
THEOREM RequestsAreServed == ClientSpec => []RequestsHold
<1>1. ClientInit => Requests!IInv
  BY RequestsStart DEF ClientInit
<1>2. Requests!IInv /\ [ClientNext]_clientVars => Requests!IInv'
  <2> SUFFICES ASSUME Requests!IInv, [ClientNext]_clientVars PROVE Requests!IInv'
    OBVIOUS
  <2>1. [Requests!Next]_requestVars
    BY DEF ClientNext, clientVars, requestVars
  <2>2. QED
    BY <2>1, RequestsStep
<1>3. Requests!IInv => RequestsHold
  BY DEF Requests!IInv, RequestsHold
<1>4. QED
  BY <1>1, <1>2, <1>3, PTL DEF ClientSpec
=============================================================================
