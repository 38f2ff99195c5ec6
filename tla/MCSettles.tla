----------------------------- MODULE MCSettles -------------------------------
(***************************************************************************)
(* What must happen in the end, on small instances of five components that *)
(* do not interact: the recovery of a cleared cron schedule, the web       *)
(* client's requests and its connection as a worker, two synchronized      *)
(* servers, and the hot cache.  part says which one a behaviour is about,  *)
(* and the others rest.                                                    *)
(***************************************************************************)
EXTENDS CronRecovery, TLC

CONSTANTS
    Prefetches, Images, Keys, KeyOf, StepsOf, Limits, MaxEntries, MaxAsks,      \* of RequestBudget
    Here, Peer, StarSongs, Lists, Configured, MaxChanges,                        \* of PeerSync
    Songs, Instances, SongOf, Size, Budget, MaxFile, Writers, Sweepers, Mishaps, \* of HotCache
    Sockets, Handouts, Ceilings, MaxStarts, MaxUpsets,                           \* of WorkSocket
    p1, k1, a, b, a1, b1

VARIABLES
    part,
    playing, idleLimit, running, queues, jobs, loads, cache, viewer,
    stars, lists, synced, pushes, saved, run, changed, losses, givenUp,
    rows, bucket, proc, mishaps, crossing,
    wanted, tracked, state, timer, keepalive, awaiting, controller, asking, sockets, pongs,
    execs, taken, budget, starts, upsets

MCKeyOf == p1 :> k1
MCStepsOf == k1 :> 2
MCTaskOf == <<>>
MCConfigured == {{Here}}
MCSongs == {a, b}
MCInstances == {a1, b1}
MCSongOf == (a1 :> a) @@ (b1 :> b)
MCSize == (a1 :> 1) @@ (b1 :> 2)

Requests == INSTANCE RequestBudget
Peers == INSTANCE PeerSync WITH Songs <- StarSongs, faults <- losses, failed <- givenUp
Cache == INSTANCE HotCache WITH Faults <- Mishaps, failed <- mishaps, overlap <- crossing
Worker == INSTANCE WorkSocket WITH TaskOf <- MCTaskOf, running <- taken

cronVars == <<live, build, secret, d1, handler, deploys, sets, failed, choice, overlap, redeployed>>
requestVars == <<playing, idleLimit, running, queues, jobs, loads, cache, viewer>>
peerVars == <<stars, lists, synced, pushes, saved, run, changed, losses, givenUp>>
cacheVars == <<rows, bucket, proc, mishaps, crossing>>
workerVars == <<wanted, tracked, state, timer, keepalive, awaiting, controller, asking, sockets, pongs,
                execs, taken, budget, starts, upsets>>
settlesVars == <<part, live, build, secret, d1, handler, deploys, sets, failed, choice, overlap, redeployed,
                 playing, idleLimit, running, queues, jobs, loads, cache, viewer,
                 stars, lists, synced, pushes, saved, run, changed, losses, givenUp,
                 rows, bucket, proc, mishaps, crossing,
                 wanted, tracked, state, timer, keepalive, awaiting, controller, asking, sockets, pongs,
                 execs, taken, budget, starts, upsets>>

SettlesInit ==
    /\ part \in {"cron", "requests", "peers", "cache", "worker"}
    /\ Init /\ Requests!Init /\ Peers!Init /\ Cache!Init /\ Worker!Init
    /\ part # "peers" => stars[Here] = {} /\ \A l \in Lists : lists[Here][l] = None

SettlesNext ==
    /\ UNCHANGED part
    /\ IF part = "cron" THEN Next ELSE UNCHANGED cronVars
    /\ IF part = "requests" THEN Requests!Next ELSE UNCHANGED requestVars
    /\ IF part = "peers" THEN Peers!Next ELSE UNCHANGED peerVars
    /\ IF part = "cache" THEN Cache!Next ELSE UNCHANGED cacheVars
    /\ IF part = "worker" THEN Worker!Next ELSE UNCHANGED workerVars

\* The fairness each module states.
SettlesSpec ==
    /\ SettlesInit /\ [][SettlesNext]_settlesVars
    /\ \A h \in Handlers : WF_cronVars(part = "cron" /\ Step(h) /\ Watch)
    /\ SF_cronVars(part = "cron" /\ (\E h \in Handlers : Login(h)) /\ Watch)
    /\ \A j \in Prefetches \cup Images : WF_requestVars(part = "requests" /\ Requests!Timely(j))
    /\ WF_peerVars(part = "peers" /\ Peers!Pushes)
    /\ \A s \in {Here, Peer} : WF_peerVars(part = "peers" /\ Peers!Runs(s))
    /\ \A p \in Writers \cup Sweepers : /\ WF_cacheVars(part = "cache" /\ Cache!Step(p) /\ Cache!Watch)
                                        /\ WF_cacheVars(part = "cache" /\ Cache!Sweep(p) /\ Cache!Watch)
    /\ WF_workerVars(part = "worker" /\ Worker!TimerFires) /\ WF_workerVars(part = "worker" /\ Worker!Ping)
    /\ WF_workerVars(part = "worker" /\ Worker!GraceEnds) /\ WF_workerVars(part = "worker" /\ (Worker!Refused \/ Worker!Answered))
    /\ \A s \in Sockets : /\ WF_workerVars(part = "worker" /\ (Worker!Opens(s) \/ Worker!Closes(s)))
                           /\ WF_workerVars(part = "worker" /\ Worker!Pong(s))

\* Two requests at once around a deploy, or the administrator's save; a pool is
\* refused to a page without sockets.
Corner ==
    /\ overlap => sets = 0
    /\ state = "refused" => \A s \in Sockets : sockets[s] = "none"

-----------------------------------------------------------------------------
\* A queued request is answered although those before it never are (requestBudget.ts:39).
EveryRequestSettles == part = "requests" => Requests!EveryRequestSettles

\* Two servers of which one has sync enabled become alike (peerSync.ts:447).
PeersAgree == part = "peers" => Peers!PeersAgree

\* A claim for a copy becomes a copy or goes, and so does what is past its TTL
\* (hotcache.ts: warmInstance and the sweep).
CopiesSettle == part = "cache" => Cache!ClaimsResolve /\ Cache!ExpiredGoes

\* A schedule a deploy cleared comes back (cronRecovery.ts: recoverCronIfStale), and
\* so does the connection of a page that is to work (workSocket.ts:306-342).
ComesBack ==
    /\ part = "cron" => CronComesBack
    /\ part = "worker" => Worker!Reconnects
=============================================================================
