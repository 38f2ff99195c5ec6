--------------------------- MODULE RequestBudget ---------------------------
(***************************************************************************)
(* The web client's low-priority requests: the slots of                    *)
(* web/src/lib/requestBudget.ts, the images that take them                 *)
(* (components/BudgetedImage.vue), the prefetches of the track about to    *)
(* play and the cache of promises they share with the lyrics viewer        *)
(* (lib/trackPrefetch.ts, views/NowPlaying.vue).                           *)
(* One page, one event loop: an action is a macrotask with its microtasks. *)
(* A network request may stay unanswered for ever.                         *)
(***************************************************************************)
EXTENDS Integers, Sequences, FiniteSets, SequencesExt

CONSTANTS
    Prefetches,  \* jobs of preloadTrack, queued as "prefetch"
    Images,      \* images of a library page, queued as "background"
    Keys,        \* cache keys: what is fetched for one track
    KeyOf,       \* the key of a prefetch
    StepsOf,     \* requests a load of the key may need: lyrics have two fallbacks
    Limits,      \* what the network allows while nothing plays (limit)
    MaxEntries,  \* entries a cache keeps
    MaxAsks,     \* bound: how often the viewer is turned to another track
    None

Jobs == Prefetches \cup Images
Asks == 1 .. MaxAsks
Loads == 1 .. Cardinality(Prefetches) + MaxAsks   \* each asks for one at most
Callers == Jobs \cup Asks           \* who has a signal

VARIABLES
    playing,     \* playbackActive
    idleLimit,   \* the limit of the present connection
    running,     \* slots taken
    queues,      \* waiting jobs by priority
    jobs,        \* [slot, answer, aborted, late, waits]: closure of each runLowPriority
    loads,       \* requests behind the cache: [key, by, step, state]
    cache,       \* entries: [key, load, since, old]; since orders them by insertion
    viewer       \* the lyrics viewer: its asks and what it shows

budgetVars == <<playing, idleLimit, running, queues, jobs, loads, cache, viewer>>

NewJob == [slot |-> "none", answer |-> "pending", aborted |-> FALSE, late |-> FALSE, waits |-> None]
NewAsk == [key |-> None, state |-> "none", aborted |-> FALSE, waits |-> None]

Init ==
    /\ playing = FALSE
    /\ idleLimit \in Limits
    /\ running = 0
    /\ queues = [prefetch |-> <<>>, background |-> <<>>]
    /\ jobs = [j \in Jobs |-> NewJob]
    /\ loads = <<>>
    /\ cache = {}
    /\ viewer = [asks |-> <<>>, shown |-> None, loading |-> FALSE]

-----------------------------------------------------------------------------
(* The slots *)

limit(active, idle) == IF active THEN 1 ELSE idle

\* drain: what waits takes what is free, prefetches first. js, run and qs are
\* the state the caller leaves.
Drain(js, run, qs, lim) ==
    LET line == qs.prefetch \o qs.background
        n == IF run >= lim THEN 0
             ELSE IF Len(line) < lim - run THEN Len(line) ELSE lim - run
        p == Len(qs.prefetch)
        started == ToSet(SubSeq(line, 1, n))
    IN  /\ running' = run + n
        /\ queues' = [prefetch |-> SubSeq(qs.prefetch, n + 1, p),
                      background |-> SubSeq(qs.background, IF n > p THEN n - p + 1 ELSE 1,
                                            Len(qs.background))]
        /\ jobs' = [j \in Jobs |-> IF j \in started THEN [js[j] EXCEPT !.slot = "taken"] ELSE js[j]]

\* release of each job in who: at most once per job
FreedAgain(who) == who
Freed(who) == {j \in who : jobs[j].slot = "held"}

\* resolve or reject, then release, for the jobs whose work has settled
Finish(who, js) ==
    Drain([j \in Jobs |-> IF j \in Freed(who) THEN [js[j] EXCEPT !.slot = "back"] ELSE js[j]],
          running - Cardinality(Freed(who)), queues, limit(playing, idleLimit))

setPlaybackActive ==
    /\ playing' = ~playing
    /\ Drain(jobs, running, queues, limit(~playing, idleLimit))
    /\ UNCHANGED <<idleLimit, loads, cache, viewer>>

\* nothing is drained when the connection changes
NetworkChanges ==
    /\ idleLimit' \in Limits \ {idleLimit}
    /\ UNCHANGED <<playing, running, queues, jobs, loads, cache, viewer>>

runLowPriority(j) ==
    /\ jobs[j].slot = "none"
    /\ LET q == IF j \in Prefetches THEN "prefetch" ELSE "background"
       IN  Drain([jobs EXCEPT ![j].slot = "queued"], running,
                 [queues EXCEPT ![q] = Append(@, j)], limit(playing, idleLimit))
    /\ UNCHANGED <<playing, idleLimit, loads, cache, viewer>>

-----------------------------------------------------------------------------
(* The cache of promises *)

\* evict: only if the entry is still this load's
Evict(c, l) == {e \in c : e.load # l}

Oldest(c) == CHOOSE e \in c : \A f \in c : e.since <= f.since
Trimmed(c) == IF Cardinality(c) > MaxEntries THEN c \ {Oldest(c)} ELSE c

\* remember, after the hit test of its caller: the load that is joined or made; an old
\* entry is replaced at its place
Hits(k) == {e \in cache : e.key = k /\ ~e.old}
Joined(k) == IF Hits(k) # {} THEN (CHOOSE e \in Hits(k) : TRUE).load ELSE Len(loads) + 1

remember(k, who) ==
    IF Hits(k) # {} THEN UNCHANGED <<loads, cache>>
    ELSE LET l == Len(loads) + 1
         IN  /\ loads' = Append(loads, [key |-> k, by |-> who, step |-> 1, state |-> "pending"])
             /\ cache' = IF \E e \in cache : e.key = k
                         THEN {IF e.key = k THEN [e EXCEPT !.load = l, !.old = FALSE] ELSE e : e \in cache}
                         ELSE Trimmed(cache \cup {[key |-> k, load |-> l, since |-> l, old |-> FALSE]})

\* The signal of who is aborted: the pending loads it started leave the cache at
\* once; their requests fail later (Settle).
AbortedLater(c, who) == c
AbortedOut(c, who) ==
    {e \in c : ~(loads[e.load].by = who /\ loads[e.load].state = "pending")}

SignalOf(who) == IF who \in Jobs THEN jobs[who].aborted ELSE viewer.asks[who].aborted

-----------------------------------------------------------------------------
(* Jobs *)

\* the microtask that starts the work of a job
BeginPrefetch(j) ==
    /\ j \in Prefetches /\ jobs[j].slot = "taken"
    /\ remember(KeyOf[j], j)
    /\ jobs' = [jobs EXCEPT ![j].slot = "held", ![j].waits = Joined(KeyOf[j])]
    /\ UNCHANGED <<playing, idleLimit, running, queues, viewer>>

BeginImage(j) ==
    /\ j \in Images /\ jobs[j].slot = "taken"
    /\ jobs' = [jobs EXCEPT ![j].slot = "held"]
    /\ UNCHANGED <<playing, idleLimit, running, queues, loads, cache, viewer>>

\* loadImage: loaded, failed, or its element unmounted, before or after it began
ImageSettles(j, how) ==
    /\ j \in Images /\ jobs[j].slot = "held" /\ jobs[j].answer = "pending"
    /\ Finish({j}, [jobs EXCEPT ![j].answer = how])
    /\ UNCHANGED <<playing, idleLimit, loads, cache, viewer>>

SlotTimesOutKept(j) ==
    /\ jobs[j].slot = "held" /\ jobs[j].answer = "pending"
    /\ cache' = AbortedOut(cache, j)
    /\ jobs' = [jobs EXCEPT ![j].answer = "rejected", ![j].aborted = TRUE,
                       ![j].late = TRUE]
    /\ UNCHANGED <<playing, idleLimit, running, queues, loads, viewer>>

\* SLOT_TIMEOUT_MS: abort, reject, release
SlotTimesOut(j) ==
    /\ jobs[j].slot = "held" /\ jobs[j].answer = "pending"
    /\ cache' = AbortedOut(cache, j)
    /\ Finish({j}, [jobs EXCEPT ![j].answer = "rejected", ![j].aborted = TRUE,
                       ![j].late = TRUE])
    /\ UNCHANGED <<playing, idleLimit, loads, viewer>>

\* The abort settles the work too, after the timer: awaitWithSignal or the
\* image's listener rejects, and the second release must do nothing.
LateSettle(j) ==
    /\ jobs[j].late
    /\ Finish({j}, [jobs EXCEPT ![j].late = FALSE])
    /\ UNCHANGED <<playing, idleLimit, loads, cache, viewer>>

-----------------------------------------------------------------------------
(* Requests behind the cache *)

Waiting(l) == {j \in Prefetches : jobs[j].waits = l /\ jobs[j].answer = "pending"}

\* A load settles: every caller that still waits gets the same answer; a
\* failure leaves the cache.
Settle(l, how) ==
    /\ l <= Len(loads) /\ loads[l].state = "pending"
    /\ SignalOf(loads[l].by) => how = "rejected"
    /\ loads' = [loads EXCEPT ![l].state = how]
    /\ cache' = IF how = "rejected" THEN Evict(cache, l) ELSE cache
    /\ Finish(Waiting(l), [j \in Jobs |-> IF j \in Waiting(l) THEN [jobs[j] EXCEPT !.answer = how]
                                          ELSE jobs[j]])
    /\ viewer' = [viewer EXCEPT !.asks =
         [a \in DOMAIN @ |-> IF @[a].waits = l /\ @[a].state = "asked"
                             THEN [@[a] EXCEPT !.state = how] ELSE @[a]]]
    /\ UNCHANGED <<playing, idleLimit>>

\* getTrackLyrics: an empty answer, or a failed first request that was not
\* aborted, falls back to the next form
FallBack(l) ==
    /\ l <= Len(loads) /\ loads[l].state = "pending" /\ loads[l].step < StepsOf[loads[l].key]
    /\ ~SignalOf(loads[l].by)
    /\ loads' = [loads EXCEPT ![l].step = @ + 1]
    /\ UNCHANGED <<playing, idleLimit, running, queues, jobs, cache, viewer>>

\* cleanExpiredEntries deletes what isExpired; until then a hit test sees it
Expire(e) ==
    /\ ~e.old
    /\ cache' = (cache \ {e}) \cup {[e EXCEPT !.old = TRUE]}
    /\ UNCHANGED <<playing, idleLimit, running, queues, jobs, loads, viewer>>

cleanExpiredEntries ==
    /\ \E e \in cache : e.old
    /\ cache' = {e \in cache : ~e.old}
    /\ UNCHANGED <<playing, idleLimit, running, queues, jobs, loads, viewer>>

-----------------------------------------------------------------------------
(* The lyrics viewer *)

Now == Len(viewer.asks)

\* The watch of the current track: the last controller is aborted, the page cleared
TurnTo(k) ==
    /\ Now < MaxAsks
    /\ cache' = IF Now = 0 THEN cache ELSE AbortedOut(cache, Now)
    /\ viewer' = [asks |-> Append([a \in DOMAIN viewer.asks |->
                                     [viewer.asks[a] EXCEPT !.aborted = TRUE,
                                        !.state = IF @ = "asked" THEN "rejected" ELSE @]],
                                  [NewAsk EXCEPT !.key = k, !.state = "turned"]),
                  shown |-> None, loading |-> k # None]
    /\ UNCHANGED <<playing, idleLimit, running, queues, jobs, loads>>

\* after nextTick
Ask(a) ==
    /\ a <= Now /\ viewer.asks[a].state = "turned"
    /\ IF a # Now \/ viewer.asks[a].key = None
       THEN /\ viewer' = [viewer EXCEPT !.asks[a].state = "over",
                                        !.loading = IF a = Now THEN FALSE ELSE @]
            /\ UNCHANGED <<loads, cache>>
       ELSE LET k == viewer.asks[a].key IN
            /\ remember(k, a)
            /\ viewer' = [viewer EXCEPT !.asks[a].waits = Joined(k),
                 !.asks[a].state = IF Hits(k) # {} /\ loads[Joined(k)].state # "pending"
                                   THEN loads[Joined(k)].state ELSE "asked"]
    /\ UNCHANGED <<playing, idleLimit, running, queues, jobs>>

\* the continuation after getTrackLyrics: only of the latest request
CurrentAny(a) == TRUE
Current(a) == a = Now

Show(a) ==
    /\ a <= Now /\ viewer.asks[a].state \in {"resolved", "rejected"}
    /\ viewer' = [viewer EXCEPT
         !.asks[a].state = "over",
         !.shown = IF ~Current(a) THEN @
                   ELSE IF viewer.asks[a].state = "resolved" THEN viewer.asks[a].key ELSE "error",
         !.loading = IF Current(a) THEN FALSE ELSE @]
    /\ UNCHANGED <<playing, idleLimit, running, queues, jobs, loads, cache>>

-----------------------------------------------------------------------------
\* A job that joins a load that has settled takes its answer in the same turn
JoinSettled(j) ==
    /\ j \in Prefetches /\ jobs[j].slot = "held" /\ jobs[j].answer = "pending"
    /\ loads[jobs[j].waits].state # "pending"
    /\ Finish({j}, [jobs EXCEPT ![j].answer = loads[jobs[j].waits].state])
    /\ UNCHANGED <<playing, idleLimit, loads, cache, viewer>>

JobSteps(j) ==
    \/ runLowPriority(j) \/ BeginPrefetch(j) \/ BeginImage(j)
    \/ SlotTimesOut(j) \/ LateSettle(j) \/ JoinSettled(j)
    \/ \E how \in {"resolved", "rejected"} : ImageSettles(j, how)

Next ==
    \/ setPlaybackActive \/ NetworkChanges \/ cleanExpiredEntries
    \/ \E j \in Jobs : JobSteps(j)
    \/ \E l \in Loads : FallBack(l) \/ \E how \in {"resolved", "rejected"} : Settle(l, how)
    \/ \E e \in cache : Expire(e)
    \/ \E k \in Keys \cup {None} : TurnTo(k)
    \/ \E a \in Asks : Ask(a) \/ Show(a)

Spec == Init /\ [][Next]_budgetVars

(* Timers fire and microtasks run; the network owes nothing. *)
Timely(j) == BeginPrefetch(j) \/ BeginImage(j) \/ SlotTimesOut(j) \/ JoinSettled(j)
LiveSpec == Spec /\ \A j \in Jobs : WF_budgetVars(Timely(j))

-----------------------------------------------------------------------------
Settled == {"resolved", "rejected"}
Load == [key : Keys, by : Callers, step : Nat, state : {"pending"} \cup Settled]
JobStates == [slot : {"none", "queued", "taken", "held", "back"}, answer : {"pending"} \cup Settled,
              aborted : BOOLEAN, late : BOOLEAN, waits : DOMAIN loads \cup {None}]
AskStates == [key : Keys \cup {None}, state : {"turned", "asked", "over"} \cup Settled,
              aborted : BOOLEAN, waits : DOMAIN loads \cup {None}]

TypeOK ==
    /\ playing \in BOOLEAN /\ idleLimit \in Limits /\ running \in 0 .. 4
    /\ queues \in [prefetch : Seq(Jobs), background : Seq(Jobs)]
    /\ jobs \in [Jobs -> JobStates]
    /\ loads \in Seq(Load) /\ Len(loads) <= Cardinality(Prefetches) + MaxAsks
    /\ cache \subseteq [key : Keys, load : DOMAIN loads, since : DOMAIN loads, old : BOOLEAN]
    /\ IsFiniteSet(cache) /\ Cardinality(cache) <= MaxEntries
    /\ viewer \in [asks : Seq(AskStates), shown : Keys \cup {None, "error"}, loading : BOOLEAN]
    /\ Now <= MaxAsks

(* The counter is the number of jobs between their start and their release,
   although a job that times out is released by the timer and by the work the
   timer aborts, and every waiting job is queued exactly once. *)
SlotsAddUp ==
    /\ running = Cardinality({j \in Jobs : jobs[j].slot \in {"taken", "held"}})
    /\ \A j \in Jobs : jobs[j].slot = "queued"
                       <=> j \in ToSet(queues.prefetch) \cup ToSet(queues.background)
    /\ \A j \in Jobs : jobs[j].slot = "back" => jobs[j].answer # "pending"

(* Nobody joins a doomed load: what the cache holds has not failed and the
   signal it was started with has not been aborted while it is still pending
   ("same-turn reopen cannot reuse an already-aborted cache entry",
   test/frontend/track_prefetch.test.ts). *)
NoDoomedEntry ==
    \A e \in cache :
        /\ loads[e.load].state # "rejected"
        /\ loads[e.load].state = "pending" => ~SignalOf(loads[e.load].by)

(* The viewer shows the lyrics of the track it was last turned to. *)
ShowsCurrent ==
    /\ viewer.shown \in Keys => viewer.shown = viewer.asks[Now].key
    /\ viewer.loading => viewer.asks[Now].state # "over"

(* A request that is queued is answered although requests it waits behind are
   never answered: the timeout hands their slots on ("a single stalled request
   cannot deadlock the queue"). *)
EveryRequestSettles ==
    \A j \in Jobs : jobs[j].slot = "queued" ~> jobs[j].answer # "pending"

-----------------------------------------------------------------------------
(* What these hold by *)

\* A job waits in one place of one line.
Line == queues.prefetch \o queues.background
QueuedOnce == \A m, n \in 1 .. Len(Line) : Line[m] = Line[n] => m = n

\* A job that timed out has given its slot back, and what the abort settles later
\* finds nothing to give back.
AbortedAreOver == \A j \in Jobs : jobs[j].aborted \/ jobs[j].late => jobs[j].slot = "back"

\* All turns of the viewer but the last are aborted.
AsksInTurn ==
    /\ \A n \in 1 .. Now : viewer.asks[n].aborted <=> n # Now
    /\ Now = 0 => viewer.shown = None /\ ~viewer.loading

\* A caller makes one load at most: a prefetch when it begins, the viewer when it asks.
LoadsOfCallers ==
    /\ \A l, m \in 1 .. Len(loads) : loads[l].by = loads[m].by => l = m
    /\ \A l \in 1 .. Len(loads) :
         \/ loads[l].by \in Prefetches /\ jobs[loads[l].by].slot \in {"held", "back"}
         \/ loads[l].by \in 1 .. Now /\ viewer.asks[loads[l].by].state # "turned"

\* A prefetch that has begun waits for a load.
BegunWaits == \A j \in Prefetches : jobs[j].slot = "held" => jobs[j].waits # None

IInv ==
    /\ TypeOK /\ QueuedOnce /\ SlotsAddUp /\ AbortedAreOver
    /\ AsksInTurn /\ LoadsOfCallers /\ BegunWaits /\ NoDoomedEntry /\ ShowsCurrent
=============================================================================
