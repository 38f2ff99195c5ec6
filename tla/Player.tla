------------------------------- MODULE Player -------------------------------
(***************************************************************************)
(* The web player (web/src/stores/player.ts): a queue, two audio elements  *)
(* of which one is active and the other may hold the next track, and the   *)
(* lookups, downloads and recoveries whose answers come back while the     *)
(* user skips, removes, reorders, pauses and reloads. Loading is a         *)
(* function of the record media, because one handler often does several    *)
(* steps of it. Times, volumes, covers and the element's own buffering     *)
(* are left out; so is the counting of the pause events it causes itself.  *)
(***************************************************************************)
EXTENDS Integers, Sequences, FiniteSets, SequencesExt

CONSTANTS
    Tracks,
    Direct,      \* tracks with a streamUrl of their own
    Positions,   \* tracks whose saved position is worth restoring (> 0)
    Queues,      \* what views hand to setQueue
    Ranges,      \* steps of FALLBACK_RANGE_STEPS
    MaxTasks,    \* bound: requests under way
    None

Elements == {"A", "B"}
Other(e) == IF e = "A" THEN "B" ELSE "A"
NoSrc == [kind |-> "none", track |-> None]
Src(k, t) == [kind |-> k, track |-> t]

VARIABLES
    queue, index,    \* index 0: none
    playMode, order, \* _shuffleOrder
    playing,
    media            \* [active, els, preloaded, tasks, restore, want], see Blank

playerVars == <<queue, index, playMode, order, playing, media>>

(* An element: its source, whether it ever had one (currentSrc), whether its
   metadata is in, whether it has ended or failed (once), how its Blob came (fullBlobOriginByElement), the track it
   gave up on, whether this source has failed, its recovery fb and
   fallbackInFlight, the one-shot seeks that wait for loadedmetadata, and the
   track whose position the last of them set. *)
NewElement == [src |-> NoSrc, used |-> FALSE, meta |-> FALSE, over |-> FALSE, origin |-> None, terminal |-> None,
               attempted |-> FALSE, fb |-> None, inFlight |-> FALSE, seeks |-> {}, at |-> None]
Blank == [active |-> "A", els |-> [e \in Elements |-> NewElement], preloaded |-> None,
          tasks |-> {}, restore |-> None, want |-> TRUE]

Init ==
    /\ queue = <<>> /\ index = 0 /\ playMode = "sequential" /\ order = <<>>
    /\ playing = FALSE /\ media = Blank

current == IF index \in DOMAIN queue THEN queue[index] ELSE None
hasTrack == index \in DOMAIN queue
Act == media.els[media.active]

\* A task waits for IndexedDB, the network or a conversion; fresh: the controller,
\* download or candidate it compares when it comes back is still its own; same: so
\* is the recovery it belongs to, which outlives its controller. Two equal lookups
\* are one: the database answers in order, and sooner than a source set since fails.
Task(k, e, t) == [kind |-> k, el |-> e, track |-> t, complete |-> FALSE, fresh |-> TRUE, same |-> TRUE]
Outdate(ts, es, kinds) == {IF t.el \in es /\ t.kind \in kinds THEN [t EXCEPT !.fresh = FALSE] ELSE t : t \in ts}
Disown(ts, e) == {IF t.el = e /\ t.kind # "lookup" THEN [t EXCEPT !.same = FALSE] ELSE t : t \in ts}
Looks(m) == \E t \in m.tasks : t.kind = "lookup"
Looking == Looks(media)
Recovery == {"range", "full", "prepare", "prepareFull"}
Preload == {"preLookup", "download", "keep"}

-----------------------------------------------------------------------------
(* What the handlers are made of *)

Aborted(fb) == IF fb = None THEN None ELSE [fb EXCEPT !.live = FALSE]

Halted(p) == [p EXCEPT !.inFlight = FALSE, !.fb = Aborted(@)]

abortFallbackBusy(m, e) ==
    [m EXCEPT !.tasks = Outdate(@, {e}, Recovery), !.els[e].fb = Aborted(@)]

abortFallbackWork(m, e) ==
    [m EXCEPT !.tasks = Outdate(@, {e}, Recovery), !.els[e] = Halted(@)]

abortFullDownload(m, e) ==
    [m EXCEPT !.tasks = Outdate(@, {e}, {"download"})]

Emptied(p) == [NewElement EXCEPT !.used = p.used, !.seeks = p.seeks]

\* resetFallbackState, and the source taken away as its callers do next
Cleared(m, e) ==
    LET n == abortFullDownload(abortFallbackWork(m, e), e)
    IN  [n EXCEPT !.tasks = Disown(@, e),
                  !.els[e] = Emptied(m.els[e])]

invalidatePreload(m) ==
    IF m.preloaded = None THEN m
    ELSE [Cleared(m, m.preloaded.el) EXCEPT
            !.preloaded = None, !.tasks = Outdate(@, Elements, Preload)]

\* An element gets a source, with seeks that wait for its metadata.
Sourced(p, k, t, seeks) ==
    [p EXCEPT !.src = Src(k, t), !.used = TRUE, !.meta = FALSE, !.over = FALSE, !.at = None, !.seeks = @ \cup seeks]

\* playPreparedBlob: a complete Blob has an origin, a partial one has none
PlayBlob(m, e, t, origin, seeks) ==
    [m EXCEPT !.els[e] = [Sourced(@, "blob", t, seeks) EXCEPT !.origin = origin]]

Seek(t, of) == IF t = None THEN {} ELSE {[track |-> t, of |-> of]}

\* the element streams the track; a saved position waits for its metadata
Stream(m, e, t) ==
    [m EXCEPT !.els[e] = Sourced(@, "stream", t, Seek(m.restore, "active")), !.restore = None]

Swappable(m, i) == m.preloaded # None /\ m.preloaded.index = i /\ m.preloaded.ready

loadCurrent(m, q, i) ==
    IF i \notin DOMAIN q THEN m
    ELSE IF Swappable(m, i)
    THEN LET n == m.preloaded.el
         IN  [Cleared(m, m.active) EXCEPT
                !.preloaded = None, !.active = n, !.restore = None,
                !.els[n].seeks = @ \cup Seek(m.restore, "active")]
    ELSE LET n == Cleared(invalidatePreload(m), m.active)
         IN  IF q[i] \in Direct THEN Stream(n, m.active, q[i])
             ELSE [n EXCEPT !.tasks = @ \cup {Task("lookup", m.active, q[i])}]

\* playing follows the play event of a source that is there at once
Sounds(m) == m.want /\ m.els[m.active].src # NoSrc

Busy == Cardinality(media.tasks) >= MaxTasks

\* index, media and playing after playAt(i), from queue q, index cur and playing
\* was; a bad index is ignored
playAt(m, q, i, cur, was) ==
    IF i \notin DOMAIN q
    THEN index' = cur /\ media' = m /\ playing' = was
    ELSE LET n == loadCurrent([m EXCEPT !.restore = None, !.want = TRUE], q, i)
         IN  index' = i /\ media' = n /\ playing' = (was \/ Sounds(n))

-----------------------------------------------------------------------------
(* The order of the queue *)

Perms(n) == {p \in [1 .. n -> 1 .. n] : \A i, j \in 1 .. n : i # j => p[i] # p[j]}
Knows(o, i) == i \in ToSet(o)
After(o, i) == LET p == SelectInSeq(o, LAMBDA x : x = i)
               IN  IF p = 0 THEN i ELSE IF p < Len(o) THEN o[p + 1] ELSE 0

\* _shuffleNextIndex regenerates an order that does not know the index, with it in front
Orders(o, q, i) == IF Knows(o, i) THEN {o} ELSE {p \in Perms(Len(q)) : i \in DOMAIN q => p[1] = i}

\* next(), for the media and the playing its caller leaves
nextTrack(m, was) ==
    \/ /\ playMode = "single"
       /\ playing' = (was \/ m.els[m.active].src # NoSrc)
       /\ media' = m /\ UNCHANGED <<index, order>>
    \/ /\ playMode = "sequential"
       /\ playAt(m, queue, IF index < Len(queue) THEN index + 1 ELSE 1, index, was)
       /\ UNCHANGED order
    \/ /\ playMode = "shuffle"
       /\ \E o \in Orders(order, queue, index) :
            IF After(o, index) # 0
            THEN order' = o /\ playAt(m, queue, After(o, index), index, was)
            ELSE \E p \in Perms(Len(queue)) : order' = p /\ playAt(m, queue, p[1], index, was)

\* with an empty queue: single still plays what the element has, the other modes say
\* that nothing plays, and touch no element
nextOfNothing(m, was) ==
    /\ playing' = (playMode = "single" /\ (was \/ m.els[m.active].src # NoSrc))
    /\ order' = IF playMode = "shuffle" THEN <<>> ELSE order
    /\ media' = m /\ UNCHANGED index

next ==
    /\ ~Busy
    /\ \/ hasTrack /\ nextTrack(media, playing)
       \/ ~hasTrack /\ nextOfNothing(media, playing)
    /\ UNCHANGED <<queue, playMode>>

\* with an empty queue it changes nothing
prev ==
    /\ ~Busy /\ hasTrack
    /\ LET p == SelectInSeq(order, LAMBDA x : x = index) IN
       \/ playMode = "shuffle" /\ p > 1 /\ playAt(media, queue, order[p - 1], index, playing)
       \/ playMode # "shuffle" /\ index > 1 /\ playAt(media, queue, index - 1, index, playing)
    /\ UNCHANGED <<queue, playMode, order>>

chooseAt(i) ==
    /\ ~Busy /\ i \in DOMAIN queue
    /\ playAt(media, queue, i, index, playing)
    /\ UNCHANGED <<queue, playMode, order>>

\* an empty queue loads nothing, and leaves the active element as it is
setQueue(q, i, autoplay) ==
    /\ ~Busy
    /\ LET at == IF i \in DOMAIN q /\ q[i] \in Positions THEN q[i] ELSE None
           m == loadCurrent([invalidatePreload(media) EXCEPT
                               !.restore = at, !.want = IF q = <<>> THEN @ ELSE autoplay], q, i)
       IN  media' = m /\ playing' = (playing \/ (q # <<>> /\ Sounds(m)))
    /\ queue' = q /\ index' = IF q = <<>> THEN 0 ELSE i
    /\ UNCHANGED <<playMode, order>>

Place(t) == SelectInSeq(queue, LAMBDA x : x = t)

playNextKeeping(t) ==
    /\ hasTrack /\ Place(t) # index
    /\ LET rest == IF Place(t) = 0 THEN queue ELSE RemoveAt(queue, Place(t))
           cursor == IF Place(t) # 0 /\ Place(t) < index THEN index - 1 ELSE index
       IN  queue' = InsertAt(rest, cursor + 1, t) /\ index' = cursor
    /\ UNCHANGED <<playMode, order, playing, media>>

\* with nothing playing, "play now"
playNow(t) == ~hasTrack /\ setQueue(<<t>>, 1, TRUE)

playNext(t) ==
    /\ hasTrack /\ Place(t) # index
    /\ LET rest == IF Place(t) = 0 THEN queue ELSE RemoveAt(queue, Place(t))
           cursor == IF Place(t) # 0 /\ Place(t) < index THEN index - 1 ELSE index
       IN  queue' = InsertAt(rest, cursor + 1, t) /\ index' = cursor
    /\ media' = invalidatePreload(media)
    /\ UNCHANGED <<playMode, order, playing>>

clear ==
    /\ queue' = <<>> /\ index' = 0 /\ playing' = FALSE
    /\ media' = [Cleared(Cleared(invalidatePreload(media), "A"), "B") EXCEPT !.restore = None]
    /\ UNCHANGED <<playMode, order>>

removeAt(i) ==
    /\ ~Busy /\ i \in DOMAIN queue /\ Len(queue) > 1
    /\ LET q == RemoveAt(queue, i)
           m == invalidatePreload(media)
           cur == IF i < index THEN index - 1 ELSE index
       IN  /\ queue' = q
           /\ IF i = index THEN playAt(m, q, IF i > Len(q) THEN 1 ELSE i, cur, playing)
              ELSE index' = cur /\ media' = m /\ UNCHANGED playing
    /\ LET p == SelectInSeq(order, LAMBDA x : x = i)   \* an index occurs once, if at all
           kept == IF p = 0 THEN order ELSE RemoveAt(order, p)
       IN  order' = [k \in DOMAIN kept |-> IF kept[k] > i THEN kept[k] - 1 ELSE kept[k]]
    /\ UNCHANGED playMode

cyclePlayMode ==
    /\ playMode' = CASE playMode = "sequential" -> "single"
                     [] playMode = "single" -> "shuffle"
                     [] playMode = "shuffle" -> "sequential"
    /\ IF playMode' = "shuffle" /\ queue # <<>>
       THEN order' \in Perms(Len(queue)) ELSE order' = <<>>
    /\ UNCHANGED <<queue, index, playing, media>>

-----------------------------------------------------------------------------
(* Pausing, other qualities, a page reload *)

continueRecovery(m, e, t) ==
    LET fb == m.els[e].fb IN
    IF e # m.active \/ m.els[e].inFlight \/ ~fb.live \/ t # fb.track THEN m
    ELSE IF fb.left > 0
    THEN [m EXCEPT !.els[e].inFlight = TRUE, !.tasks = @ \cup {Task("range", e, t)}]
    ELSE [m EXCEPT !.els[e].fb.phase = "full", !.tasks = @ \cup {Task("full", e, t)}]

\* resumeFallbackWork: a new controller for a recovery that a pause has aborted
Resumed(m) ==
    LET fb == m.els[m.active].fb IN
    IF fb = None THEN m ELSE IF fb.live THEN m
    ELSE continueRecovery([m EXCEPT !.els[m.active].fb = [@ EXCEPT !.live = TRUE, !.play = TRUE]],
                          m.active, current)

toggle ==
    /\ ~Busy /\ hasTrack
    /\ IF ~Act.used
       THEN LET m == loadCurrent([media EXCEPT !.want = TRUE], queue, index)
            IN  media' = m /\ playing' = (playing \/ Sounds(m))
       ELSE IF playing
       THEN playing' = FALSE /\ media' = invalidatePreload(abortFallbackWork(media, media.active))
       ELSE playing' = (Act.src # NoSrc) /\ media' = Resumed(media)
    /\ UNCHANGED <<queue, index, playMode, order>>

\* The watch of playbackQuality: a lookup for the old quality is dropped
QualityChanges ==
    /\ ~Busy
    /\ LET n == [invalidatePreload(media) EXCEPT
                   !.tasks = Outdate(@, Elements, {"lookup"})]
           m == loadCurrent([n EXCEPT !.want = playing,
                              !.restore = IF current \in Positions THEN current ELSE None],
                            queue, index)
       IN  IF ~Act.used \/ ~hasTrack THEN media' = n /\ UNCHANGED playing
           ELSE media' = m /\ playing' = (playing \/ Sounds(m))
    /\ UNCHANGED <<queue, index, playMode, order>>

\* queue, index, mode and position are kept for the session, the order is not
Reload ==
    /\ media' = [Blank EXCEPT !.restore = IF current \in Positions THEN current ELSE None]
    /\ playing' = FALSE /\ order' = <<>>
    /\ UNCHANGED <<queue, index, playMode>>

-----------------------------------------------------------------------------
(* The next track *)

\* upcomingIndex: the order it may regenerate, and the index (0: none)
Upcoming(o) ==
    IF playMode = "shuffle" THEN After(o, index)
    ELSE IF index < Len(queue) THEN index + 1 ELSE IF Len(queue) > 1 THEN 1 ELSE 0

\* timeupdate of the active element; preloadNext when enough is buffered
preloadNext ==
    /\ ~Busy /\ hasTrack /\ playing /\ Act.src # NoSrc /\ Act.src.track = current /\ ~Act.over
    /\ order' \in IF playMode = "shuffle" THEN Orders(order, queue, index) ELSE {order}
    /\ LET ni == IF playMode = "single" THEN 0 ELSE Upcoming(order')
           e == Other(media.active)
           m == Cleared(invalidatePreload(media), e)
       IN  media' = IF ni \in {0, index} THEN invalidatePreload(media)
                    ELSE IF media.preloaded # None /\ media.preloaded.index = ni THEN media
                    ELSE [m EXCEPT !.preloaded = [el |-> e, index |-> ni, ready |-> FALSE],
                                   !.tasks = IF ni \in DOMAIN queue
                                             THEN @ \cup {Task("preLookup", e, queue[ni])} ELSE @]
    /\ UNCHANGED <<queue, index, playMode, playing>>

StillCandidate(t) == t.fresh /\ t.el # media.active

Ready(m, t) == [PlayBlob(m, t.el, t.track, "background", {}) EXCEPT !.preloaded.ready = TRUE]
Done(m, t) == [m EXCEPT !.tasks = @ \ {t}]

\* The answer of the cache, of the download and of the conversion after it
PreloadStep(t, ok) ==
    /\ t \in media.tasks /\ t.kind \in Preload
    /\ LET m == Done(media, t)
           then == [t EXCEPT !.kind = IF t.kind = "preLookup" THEN "download" ELSE "keep"]
       IN  media' =
             IF t.kind = "download"
             THEN IF t.fresh /\ ok THEN [m EXCEPT !.tasks = @ \cup {then}] ELSE m
             ELSE IF ~StillCandidate(t) THEN m
             ELSE IF t.kind = "keep" \/ ok THEN Ready(m, t)
             ELSE [abortFullDownload(m, t.el) EXCEPT !.tasks = @ \cup {then}]
    /\ UNCHANGED <<queue, index, playMode, order, playing>>

\* an error of the other element
PreloadError ==
    /\ media.preloaded # None
    /\ media.els[media.preloaded.el].src # NoSrc
    /\ media' = [abortFullDownload(media, media.preloaded.el) EXCEPT !.preloaded.ready = FALSE]
    /\ UNCHANGED <<queue, index, playMode, order, playing>>

-----------------------------------------------------------------------------
(* The source of the active element *)

StillWantedAny(t) == media.active = t.el
StillWanted(t) == media.active = t.el /\ current = t.track /\ t.fresh

\* The cache has answered loadCurrent: its Blob, or the stream
LookupDone(t, hit) ==
    /\ t \in media.tasks /\ t.kind = "lookup"
    /\ LET m == Done(media, t) IN
       IF ~StillWanted(t) THEN media' = m /\ UNCHANGED playing
       ELSE /\ media' = IF hit THEN [PlayBlob(m, t.el, t.track, "background", Seek(m.restore, "own"))
                                       EXCEPT !.restore = None]
                        ELSE Stream(m, t.el, t.track)
            /\ playing' = (playing \/ media.want)
    /\ UNCHANGED <<queue, index, playMode, order>>

\* loadedmetadata: a Blob's seek moves its own element; a stream's moves the
\* active one, and is taken off the active one
Metadata(e) ==
    LET m == media.els[e]
        own == {s.track : s \in {x \in m.seeks : x.of = "own"}}
        act == {s.track : s \in {x \in m.seeks : x.of = "active"}}
    IN  /\ m.src # NoSrc /\ ~m.meta
        /\ m.seeks # {} \/ m.src.track \in Positions   \* else nothing waits for it
        /\ LET n == [media EXCEPT
                       !.els[e].meta = TRUE,
                       !.els[e].seeks = {s \in @ : s.of = "active" /\ e # media.active},
                       !.els[e].at = IF own # {} THEN CHOOSE t \in own : TRUE ELSE @]
           IN  media' = IF act = {} THEN n
                        ELSE [n EXCEPT !.els[media.active].at = CHOOSE t \in act : TRUE]
        /\ UNCHANGED <<queue, index, playMode, order, playing>>

-----------------------------------------------------------------------------
(* Recovery of a source the browser cannot play *)

beginRecovery(m, e, t, play) ==
    continueRecovery([m EXCEPT !.els[e].fb =
        [track |-> t, phase |-> "range", left |-> Ranges, live |-> TRUE, play |-> play]], e, t)

GivenUp(p, t) ==
    [p EXCEPT !.terminal = t, !.fb = None, !.origin = None, !.attempted = FALSE,
              !.src = IF @.kind = "blob" THEN Src("revoked", @.track) ELSE @]

\* advanceAfterFallbackFailure: once per track and element, then next()
GiveUp(m, e, t) ==
    IF e # m.active \/ t # current \/ m.els[e].terminal = t
    THEN media' = m /\ UNCHANGED <<index, order, playing>>
    ELSE LET n == [abortFullDownload(m, e) EXCEPT !.tasks = Disown(@, e), !.els[e] = GivenUp(@, t)]
         IN  \/ playMode # "single" /\ nextTrack(n, FALSE)
             \/ playMode = "single" /\ media' = n /\ playing' = FALSE /\ UNCHANGED <<index, order>>

\* fallbackAfterMediaError of the active element
MediaError ==
    LET e == media.active
        fb == Act.fb
        over(m) == [m EXCEPT !.els[e].over = TRUE]
    IN  /\ ~Busy /\ Act.src # NoSrc /\ ~Act.over /\ ~Looking
        /\ \/ /\ ~hasTrack \/ Act.src.kind = "revoked"
              /\ media' = over(media) /\ playing' = FALSE /\ UNCHANGED <<index, order>>
           \/ /\ hasTrack /\ Act.src.kind = "stream"
              /\ LET m == over(abortFullDownload(media, e))
                 IN  media' = IF Act.terminal = current \/ Act.attempted THEN m
                              ELSE beginRecovery([m EXCEPT !.els[e].attempted = TRUE],
                                                 e, current, playing)
              /\ playing' = FALSE /\ UNCHANGED <<index, order>>
           \/ /\ hasTrack /\ Act.src.kind = "blob" /\ fb # None /\ fb.phase = "range"
              /\ media' = continueRecovery(over(media), e, current)
              /\ playing' = FALSE /\ UNCHANGED <<index, order>>
           \/ /\ hasTrack /\ Act.src.kind = "blob" /\ fb = None /\ Act.origin = "background"
              /\ media' = beginRecovery([over(media) EXCEPT !.els[e].origin = None], e, current, playing)
              /\ playing' = FALSE /\ UNCHANGED <<index, order>>
           \/ /\ hasTrack /\ Act.src.kind = "blob"
              /\ IF fb = None THEN Act.origin # "background" ELSE fb.phase = "full"
              /\ GiveUp(over(media), e, current)
        /\ UNCHANGED <<queue, playMode>>

\* The events pause and ended. The end of a partial Blob asks for more; any other
\* end is a pause first, which gives up what was prepared, and then next(). With an
\* empty queue an element may sound although playing says otherwise.
Ended ==
    /\ ~Busy /\ Act.src.kind \in {"stream", "blob"} /\ ~Act.over
    /\ \/ /\ hasTrack /\ playing /\ Act.fb # None
          /\ LET m == [media EXCEPT !.els[media.active].over = TRUE]
             IN  media' = IF Act.fb.phase = "range" /\ Act.fb.live
                          THEN continueRecovery(m, media.active, current) ELSE m
          /\ UNCHANGED <<index, order, playing>>
       \/ hasTrack /\ playing /\ Act.fb = None /\ nextTrack(invalidatePreload(media), FALSE)
       \/ ~hasTrack /\ nextOfNothing(IF Act.fb # None THEN media ELSE invalidatePreload(media), FALSE)
    /\ UNCHANGED <<queue, playMode>>

Fetched(fb, how) ==
    IF how = "whole" THEN [fb EXCEPT !.left = 0, !.phase = "full"] ELSE [fb EXCEPT !.left = @ - 1]

\* A range has come: "part", "whole" (or no 206), or an error
RangeDone(t, how) ==
    /\ t \in media.tasks /\ t.kind = "range"
    /\ LET m == Done(media, t)
           e == t.el
           prepared == [t EXCEPT !.kind = "prepare", !.complete = (how = "whole")]
       IN  media' =
             IF ~t.fresh \/ (how # "error" /\ ~t.same) THEN m
             ELSE IF how = "error"
             THEN continueRecovery([m EXCEPT !.els[e].inFlight = FALSE, !.els[e].fb.left = 0],
                                   e, current)
             ELSE IF e # m.active \/ current # t.track
             THEN [m EXCEPT !.els[e].inFlight = FALSE]
             ELSE [m EXCEPT !.els[e].fb = Fetched(@, how), !.tasks = @ \cup {prepared}]
    /\ UNCHANGED <<queue, index, playMode, order, playing>>

FullDone(t, ok) ==
    /\ t \in media.tasks /\ t.kind = "full"
    /\ LET m == Done(media, t) IN
       IF ~t.fresh \/ (ok /\ (t.el # media.active \/ current # t.track))
       THEN media' = m /\ UNCHANGED <<index, order, playing>>
       ELSE IF ok
       THEN /\ media' = [m EXCEPT !.tasks = @ \cup
                           {[t EXCEPT !.kind = "prepareFull", !.complete = TRUE]}]
            /\ UNCHANGED <<index, order, playing>>
       ELSE GiveUp(m, t.el, t.track)
    /\ UNCHANGED <<queue, playMode>>

StillRecoveringAny(t) == t.fresh /\ t.el = media.active
StillRecovering(t) == t.fresh /\ t.el = media.active /\ current = t.track

\* playFallbackBlob after its conversion, and what its two callers do then
PrepareDone(t) ==
    /\ t \in media.tasks /\ t.kind \in {"prepare", "prepareFull"}
    /\ LET e == t.el
           m == Done(media, t)
           p == IF StillRecovering(t)
                THEN PlayBlob(m, e, t.track, IF t.complete THEN "fallback" ELSE None, {}) ELSE m
           over == t.same /\ t.complete /\ (t.kind = "prepareFull" => t.fresh)
           n == IF over THEN [p EXCEPT !.els[e].fb = None] ELSE p
       IN  /\ media' = IF over \/ (t.same /\ t.fresh) THEN [n EXCEPT !.els[e].inFlight = FALSE] ELSE n
           /\ playing' = (playing \/ (StillRecovering(t) /\
                            (IF media.els[e].fb = None THEN TRUE ELSE media.els[e].fb.play)))
    /\ UNCHANGED <<queue, index, playMode, order>>

-----------------------------------------------------------------------------
User ==
    \/ next \/ prev \/ clear \/ cyclePlayMode \/ toggle \/ QualityChanges \/ Reload
    \/ \E i \in DOMAIN queue : chooseAt(i) \/ removeAt(i)
    \/ \E t \in Tracks : playNext(t) \/ playNow(t)
    \/ \E q \in Queues, autoplay \in BOOLEAN : \E i \in 1 .. Len(q) : setQueue(q, i, autoplay)
    \/ \E autoplay \in BOOLEAN : setQueue(<<>>, 0, autoplay)

Browser ==
    \/ preloadNext \/ PreloadError \/ MediaError \/ Ended
    \/ \E e \in Elements : Metadata(e)
    \/ \E t \in media.tasks :
         \/ \E ok \in BOOLEAN : PreloadStep(t, ok) \/ LookupDone(t, ok) \/ FullDone(t, ok)
         \/ \E how \in {"part", "whole", "error"} : RangeDone(t, how)
         \/ PrepareDone(t)

Next == User \/ Browser
Spec == Init /\ [][Next]_playerVars

\* What media is made of.
Sources == [kind : {"none", "stream", "blob", "revoked"}, track : Tracks \cup {None}]
Fallbacks == [track : Tracks, phase : {"range", "full"}, left : Int, live : BOOLEAN, play : BOOLEAN]
Seeks == [track : Positions, of : {"own", "active"}]
Players == [src : Sources, used : BOOLEAN, meta : BOOLEAN, over : BOOLEAN,
            origin : {"background", "fallback", None}, terminal : Tracks \cup {None}, attempted : BOOLEAN,
            fb : Fallbacks \cup {None}, inFlight : BOOLEAN, seeks : SUBSET Seeks, at : Positions \cup {None}]
Preloads == [el : Elements, index : Nat, ready : BOOLEAN]
Tasks == [kind : Recovery \cup Preload \cup {"lookup"}, el : Elements, track : Tracks,
          complete : BOOLEAN, fresh : BOOLEAN, same : BOOLEAN]
Medias == [active : Elements, els : [Elements -> Players], preloaded : Preloads \cup {None},
           tasks : SUBSET Tasks, restore : Positions \cup {None}, want : BOOLEAN]

ASSUME PlayerAssumption ==
    /\ Queues \subseteq Seq(Tracks) /\ Ranges \in Nat
    /\ None \notin Tracks \cup Fallbacks \cup Preloads \cup {"background", "fallback"}

TypeOK ==
    /\ queue \in Seq(Tracks) /\ index \in 0 .. Len(queue) /\ order \in Seq(Nat)
    /\ playMode \in {"sequential", "single", "shuffle"} /\ playing \in BOOLEAN
    /\ media \in Medias

(* What sounds is what is shown: whatever lookup, download or recovery comes
   back late, and however the queue has changed since, while there is a current
   track the active element has no source of another one. *)
SoundsAsShown == hasTrack /\ Act.src # NoSrc => Act.src.track = current

(* An empty queue does not stop the element (setQueue at player.ts:1166), but
   nothing that comes back late may give it anything else to play. *)
StartsNothing == ~hasTrack' => media'.els[media'.active].src \in {Act.src, NoSrc}

(* A track that is ready for an instant swap is, in full, the one the queue has
   at that index, in the element that is not active. *)
PreparedIsNext ==
    media.preloaded # None /\ media.preloaded.ready =>
        /\ media.preloaded.el # media.active
        /\ media.preloaded.index \in DOMAIN queue
        /\ media.els[media.preloaded.el].src = Src("blob", queue[media.preloaded.index])

(* A recovery never hangs: once the source has ended or failed, and unless the
   user has paused it, an answer that continues the recovery is still to come;
   and fallbackInFlight, while the element recovers, stands for work under way. *)
RecoveryMoves ==
    LET own == {t \in media.tasks : t.fresh /\ t.el = media.active /\ t.kind \in Recovery}
    IN  /\ Act.inFlight /\ Act.fb # None => own # {}
        /\ (hasTrack /\ Act.over /\ Act.fb # None) => (Act.fb.live => own # {})

(* A saved position is restored to the track it was saved of
   ("cancel restore when user explicitly navigates", player.ts:1330). *)
RestoresOwnPosition ==
    \A e \in Elements : media.els[e].at # None => media.els[e].at = media.els[e].src.track

(* When a track ends and the next one is ready it is swapped in ("hand the ready
   Blob to the inactive element for an instant swap", player.ts:1133). *)
PreparedIsSwappedIn ==
    [][(Ended /\ Act.fb = None /\ playMode = "sequential" /\ media.preloaded # None)
         => (media.preloaded.ready => media'.active = media.preloaded.el)]_playerVars

(* Queued to play next, it plays next ("Queue a track to play right after the
   current one", player.ts:1291). *)
PlaysNext ==
    [][\A t \in Tracks : playNext(t) =>
         \A o \in Orders(order, queue', index') :
             playMode = "shuffle" => After(o, index') = index' + 1]_playerVars
-----------------------------------------------------------------------------
(* What these hold by: m is the media, q the queue, t the current track *)

\* There is a current track unless the queue is empty.
TrackUnlessEmpty == hasTrack \/ (queue = <<>> /\ index = 0)

ShowsIn(m, t) == m.els[m.active].src # NoSrc /\ t # None => m.els[m.active].src.track = t

\* What is prepared is in the other element and, once it is ready, the track at its
\* index; until then at most one lookup, download or conversion of it counts.
Preparing(m) == {x \in m.tasks : x.fresh /\ x.kind \in Preload}
PreparedIn(m, q) ==
    /\ m.preloaded # None =>
         /\ m.preloaded.el = Other(m.active)
         /\ m.preloaded.ready => /\ m.preloaded.index \in DOMAIN q
                                 /\ m.els[m.preloaded.el].src = Src("blob", q[m.preloaded.index])
    /\ \A x \in Preparing(m) :
         /\ m.preloaded # None /\ ~m.preloaded.ready /\ x.el = m.preloaded.el
         /\ m.preloaded.index \in DOMAIN q /\ x.track = q[m.preloaded.index]
         /\ \A y \in Preparing(m) : y = x

\* Nothing of a recovery is left with an element.
Recovering(m, e) == {x \in m.tasks : x.el = e /\ x.kind \in Recovery /\ (x.fresh \/ x.same)}
Untouched(m, e) ==
    /\ m.els[e].fb = None /\ m.els[e].terminal = None /\ ~m.els[e].inFlight
    /\ m.els[e].src.kind # "revoked" /\ Recovering(m, e) = {}

\* Only the active element recovers, and not before its source has been looked up.
RecoversAlone(m) == Untouched(m, Other(m.active)) /\ (Looks(m) => Untouched(m, m.active))

\* A recovery is of the current track, and an element that can begin one has none.
Loaded(p) == p.src.kind = "blob" /\ p.origin = "background"
StateInOrder(m, t) ==
    LET p == m.els[m.active] IN
    /\ p.terminal # None => p.fb = None /\ ~Loaded(p) /\ (t # None => p.terminal = t)
    /\ p.src.kind = "revoked" => p.terminal # None
    /\ p.fb = None /\ p.inFlight => p.terminal # None
    /\ p.fb # None => /\ ~Loaded(p) /\ (t # None => p.fb.track = t)
                      /\ p.src.kind = "stream" => p.over /\ p.attempted
                      /\ p.fb.phase = "full" => p.fb.left <= 0
                      /\ p.inFlight => p.fb.live
    /\ p.fb = None /\ p.terminal = None /\ ((p.src.kind = "stream" /\ ~p.attempted) \/ Loaded(p))
         => Recovering(m, m.active) = {}

\* What is under way for it follows its phase: one range at a time, then the whole.
TasksInOrder(m, t) ==
    LET p == m.els[m.active] IN
    \A x \in Recovering(m, m.active) :
      /\ x.fresh => (t # None => x.track = t) /\ (~x.same => p.terminal # None)
      /\ x.fresh /\ x.kind = "range" => p.fb # None /\ p.fb.phase = "range" /\ p.inFlight
      /\ x.fresh /\ x.same /\ x.kind = "prepare" => p.fb = None \/ p.inFlight
      /\ x.fresh /\ x.kind \in {"full", "prepareFull"} => p.fb = None \/ p.fb.phase = "full"
      /\ x.same /\ x.kind = "prepare" /\ x.complete => p.fb = None \/ p.fb.phase = "full"
      /\ x.kind = "prepareFull" => x.complete
      /\ x.fresh /\ x.same /\ x.kind \in {"range", "prepare"} =>
           \A y \in Recovering(m, m.active) : y.fresh /\ y.same /\ y.kind \in {"range", "prepare"} => y = x

\* Something is under way for it wherever something has to be.
MovesIn(m, t) ==
    LET p == m.els[m.active] IN
    p.fb # None =>
      /\ p.inFlight => \E x \in Recovering(m, m.active) : x.fresh /\ x.same /\ x.kind \in {"range", "prepare"}
      /\ t # None /\ p.over /\ p.fb.live => \E x \in Recovering(m, m.active) : x.fresh
      /\ t # None /\ p.fb.phase = "full" /\ p.fb.live =>
           \E x \in Recovering(m, m.active) :
             x.fresh /\ x.same /\ (x.kind \in {"full", "prepareFull"} \/ (x.kind = "prepare" /\ x.complete))

IInv ==
    /\ TypeOK /\ TrackUnlessEmpty /\ ShowsIn(media, current) /\ PreparedIn(media, queue)
    /\ RecoversAlone(media) /\ StateInOrder(media, current) /\ TasksInOrder(media, current) /\ MovesIn(media, current)
=============================================================================
