------------------------------ MODULE MCClient -------------------------------
(***************************************************************************)
(* Small instances of three parts of the web client: the player, the       *)
(* requests behind its prefetches, images and lyrics, and the store that   *)
(* makes the page a worker.  They do not interact here: part says which    *)
(* one a behaviour is about, and the others rest.                          *)
(***************************************************************************)
EXTENDS Player, TLC

CONSTANTS
    Prefetches, Images, Keys, KeyOf, StepsOf, Limits, MaxEntries, MaxAsks,  \* of RequestBudget
    Sockets, Handouts, Ceilings, MaxStarts, MaxUpsets,                      \* of WorkSocket
    p1, p2, k1, k2, a, b, c, t1, t2

ASSUME ClientAssumption ==
    /\ IsFiniteSet(Prefetches) /\ IsFiniteSet(Images) /\ Prefetches \cap Images = {}
    /\ (Prefetches \cup Images \cup {None}) \cap Nat = {} /\ None \notin Keys /\ "error" \notin Keys
    /\ KeyOf \in [Prefetches -> Keys] /\ Limits \subseteq 1 .. 4 /\ Limits # {}
    /\ MaxEntries \in Nat \ {0} /\ MaxAsks \in Nat
    /\ None \notin Sockets /\ Ceilings \subseteq Nat \ {0}

VARIABLES part, sounding, idleLimit, running, queues, jobs, loads, cache, viewer,
          wanted, tracked, state, timer, keepalive, awaiting, controller, asking, sockets, pongs,
          execs, taken, budget, starts, upsets

MCQueues == {<<a, b>>}
MCKeyOf == (p1 :> k1) @@ (p2 :> k1)
MCStepsOf == (k1 :> 2) @@ (k2 :> 1)

MCTaskOf == [h \in Handouts |-> IF h = 3 THEN t2 ELSE t1]

Requests == INSTANCE RequestBudget WITH playing <- sounding
Worker == INSTANCE WorkSocket WITH TaskOf <- MCTaskOf, running <- taken

requestVars == <<sounding, idleLimit, running, queues, jobs, loads, cache, viewer>>
workerVars == <<wanted, tracked, state, timer, keepalive, awaiting, controller, asking, sockets, pongs,
                execs, taken, budget, starts, upsets>>
clientVars == <<part, queue, index, playMode, order, playing, media,
                sounding, idleLimit, running, queues, jobs, loads, cache, viewer,
                wanted, tracked, state, timer, keepalive, awaiting, controller, asking, sockets, pongs,
                execs, taken, budget, starts, upsets>>

ClientInit ==
    /\ part \in {"player", "requests", "worker"}
    /\ Init /\ Requests!Init /\ Worker!Init
    /\ part # "requests" => idleLimit = CHOOSE n \in Limits : TRUE
    /\ part # "worker" => budget.ceiling = CHOOSE n \in Ceilings : TRUE

ClientNext ==
    /\ UNCHANGED part
    /\ IF part = "player" THEN Next ELSE UNCHANGED playerVars
    /\ IF part = "requests" THEN Requests!Next ELSE UNCHANGED requestVars
    /\ IF part = "worker" THEN Worker!Next ELSE UNCHANGED workerVars

ClientSpec == ClientInit /\ [][ClientNext]_clientVars

\* Nothing is being recovered.
Calm == \A e \in Elements : media.els[e].fb = None /\ media.els[e].terminal = None

\* A position is or has been restored.
Positioned ==
    \/ media.restore # None
    \/ \E e \in Elements : media.els[e].meta \/ media.els[e].seeks # {} \/ media.els[e].at # None

\* Recoveries in sequence while nothing is prepared; shuffling and the third track, the one with
\* a position, with little under way, and its position with nothing.
PlayerCorner ==
    /\ Positioned => media.tasks = {} /\ media.preloaded = None /\ Len(queue) < 3
    /\ c \notin ToSet(queue) \/ (Calm /\ playMode = "sequential" /\ Cardinality(media.tasks) < 2)
    /\ \/ Calm /\ (playMode = "shuffle" => Cardinality(media.tasks) < 2)
       \/ ~Calm /\ media.preloaded = None /\ playMode = "sequential"

\* The viewer is turned and entries grow old while one prefetch is under way.
RequestCorner ==
    \/ Requests!Now = 0 /\ \A e \in cache : ~e.old
    \/ ~sounding /\ (\A i \in Images : jobs[i].slot = "none") /\ jobs[p2].slot = "none"

Corner == CASE part = "player" -> PlayerCorner [] part = "requests" -> RequestCorner [] part = "worker" -> TRUE

-----------------------------------------------------------------------------
\* The type invariants of the modules.
TypesOK == CASE part = "player" -> TypeOK [] part = "requests" -> Requests!TypeOK [] part = "worker" -> Worker!TypeOK

\* The request slots add up, nobody joins a load that has failed or was aborted, and
\* the viewer shows what it was last turned to (requestBudget.ts:39, trackPrefetch.ts:130).
RequestsHold ==
    part = "requests" => Requests!SlotsAddUp /\ Requests!NoDoomedEntry /\ Requests!ShowsCurrent

\* The active element has no other source than the current track's, while there is one,
\* and the other element, if it is ready, the track the queue has there, whatever comes
\* back late (player.ts).
ElementsFollowTheQueue == part = "player" => SoundsAsShown /\ PreparedIsNext

\* With an empty queue nothing that comes back late starts to play (player.ts:1242).
NothingStartsUnshown == [][part = "player" => StartsNothing]_clientVars

\* A recovery of the source never hangs (player.ts: fallbackInFlight).
RecoveryNeverHangs == part = "player" => RecoveryMoves

\* A page that is to work is on its way to a connection and watches the one it has,
\* and what holds a slot is under way, whatever stops, starts, drops and late close
\* events come in between (workSocket.ts:194, 234, 263).
WorkGoesOn == part = "worker" => Worker!NeverStranded /\ Worker!Watched /\ Worker!SlotsAreBusy
=============================================================================
