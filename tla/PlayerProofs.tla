------------------------------ MODULE PlayerProofs ------------------------------
(***************************************************************************)
(* Proofs about the web player (Player, as MCClient runs it), for any      *)
(* tracks, queues, saved positions and number of ranges: the inductive     *)
(* invariant IInv, what follows from it, and with the invariants of        *)
(* ClientProofs the types of the whole client.                             *)
(***************************************************************************)
EXTENDS ClientProofs

-----------------------------------------------------------------------------
(* The player.                                                             *)

\* What the types of media say, piece by piece.
LEMMA MediaTyped ==
    ASSUME NEW m \in Medias
    PROVE  /\ m.active \in Elements /\ Other(m.active) \in Elements /\ Other(m.active) # m.active
           /\ m.els \in [Elements -> Players] /\ m.els[m.active] \in Players /\ m.els[Other(m.active)] \in Players
           /\ m.preloaded \in Preloads \cup {None} /\ m.tasks \subseteq Tasks
           /\ m.restore \in Positions \cup {None} /\ m.want \in BOOLEAN
           /\ \A e \in Elements : e # m.active => e = Other(m.active)
BY DEF Medias, Elements, Other

LEMMA NewElementTyped == NewElement \in Players /\ NoSrc \in Sources
BY DEF NewElement, Players, NoSrc, Sources

\* An element that is halted or emptied; one given a source or given up on.
LEMMA ElementsHalted ==
    ASSUME NEW p \in Players
    PROVE  /\ Aborted(p.fb) \in Fallbacks \cup {None} /\ (p.fb = None => Aborted(p.fb) = None)
           /\ Halted(p) \in Players /\ Emptied(p) \in Players
<1>1. /\ Aborted(p.fb) \in Fallbacks \cup {None}
      /\ p.fb = None => Aborted(p.fb) = None
  BY DEF Aborted, Players, Fallbacks
<1>2. Halted(p) \in Players
  BY <1>1 DEF Halted, Players
<1>3. Emptied(p) \in Players
  BY NewElementTyped DEF Emptied, Players
<1>4. QED
  BY <1>1, <1>2, <1>3

LEMMA ElementsTyped ==
    ASSUME NEW p \in Players, NEW t \in Tracks, NEW seeks \in SUBSET Seeks, NEW k \in {"stream", "blob"}
    PROVE  Sourced(p, k, t, seeks) \in Players /\ GivenUp(p, t) \in Players
<1>4. Sourced(p, k, t, seeks) \in Players
  BY DEF Sourced, Players, Src, Sources
<1>5. GivenUp(p, t) \in Players
  BY DEF GivenUp, Players, Src, Sources
<1>6. QED
  BY <1>4, <1>5

\* Tasks that are outdated or disowned, and those that are not.
LEMMA Outdates ==
    ASSUME NEW ts \in SUBSET Tasks, NEW es, NEW kinds
    PROVE  /\ Outdate(ts, es, kinds) \in SUBSET Tasks
           /\ \A x \in ts : ~(x.el \in es /\ x.kind \in kinds) => x \in Outdate(ts, es, kinds)
           /\ \A x \in Outdate(ts, es, kinds) :
                \/ ~(x.el \in es /\ x.kind \in kinds) /\ x \in ts
                \/ /\ x.el \in es /\ x.kind \in kinds /\ ~x.fresh
                   /\ \E y \in ts : y.el = x.el /\ y.kind = x.kind /\ y.same = x.same /\ y.complete = x.complete
BY DEF Outdate, Tasks

LEMMA Disowns ==
    ASSUME NEW ts \in SUBSET Tasks, NEW e
    PROVE  /\ Disown(ts, e) \in SUBSET Tasks
           /\ \A x \in ts : ~(x.el = e /\ x.kind # "lookup") => x \in Disown(ts, e)
           /\ \A x \in Disown(ts, e) :
                \/ ~(x.el = e /\ x.kind # "lookup") /\ x \in ts
                \/ /\ x.el = e /\ x.kind # "lookup" /\ ~x.same
                   /\ \E y \in ts : /\ y.el = x.el /\ y.kind = x.kind /\ y.fresh = x.fresh
                                    /\ y.complete = x.complete /\ y.track = x.track
BY DEF Disown, Tasks

-----------------------------------------------------------------------------
(* What the handlers of the player are made of, field by field.            *)

\* Media with other tasks, or with another element.
LEMMA MediaChanged ==
    ASSUME NEW m \in Medias, NEW ts \in SUBSET Tasks, NEW e \in Elements, NEW p \in Players
    PROVE  /\ [m EXCEPT !.tasks = ts] \in Medias /\ [m EXCEPT !.els[e] = p] \in Medias
           /\ [m EXCEPT !.tasks = ts, !.els[e] = p] \in Medias
<1>1. [m EXCEPT !.tasks = ts] \in Medias
  BY DEF Medias
<1>2. ASSUME NEW k \in Medias PROVE [k EXCEPT !.els[e] = p] \in Medias
  <2>1. [k.els EXCEPT ![e] = p] \in [Elements -> Players]
    BY DEF Medias
  <2>2. [k EXCEPT !.els = [k.els EXCEPT ![e] = p]] \in Medias
    BY <2>1 DEF Medias
  <2>3. [k EXCEPT !.els[e] = p] = [k EXCEPT !.els = [k.els EXCEPT ![e] = p]]
    OBVIOUS
  <2>4. QED
    BY <2>2, <2>3
<1>3. [m EXCEPT !.tasks = ts, !.els[e] = p] = [[m EXCEPT !.tasks = ts] EXCEPT !.els[e] = p]
  OBVIOUS
<1>4. QED
  BY <1>1, <1>2, <1>3

LEMMA abortFallbackWorkIs ==
    ASSUME NEW m \in Medias, NEW e \in Elements
    PROVE  LET n == abortFallbackWork(m, e)
           IN  /\ n \in Medias /\ n.active = m.active /\ n.preloaded = m.preloaded /\ n.restore = m.restore
               /\ n.want = m.want /\ n.tasks = Outdate(m.tasks, {e}, Recovery)
               /\ n.els = [m.els EXCEPT ![e] = Halted(m.els[e])]
<1> DEFINE n == abortFallbackWork(m, e)
<1> n = abortFallbackWork(m, e)
  OBVIOUS
<1> HIDE DEF n
<1>1. /\ n.active = m.active /\ n.preloaded = m.preloaded /\ n.restore = m.restore
      /\ n.want = m.want /\ n.tasks = Outdate(m.tasks, {e}, Recovery)
      /\ n.els = [m.els EXCEPT ![e] = Halted(m.els[e])]
  BY DEF abortFallbackWork, Medias
<1>2. Halted(m.els[e]) \in Players /\ Outdate(m.tasks, {e}, Recovery) \in SUBSET Tasks
  BY ElementsHalted, Outdates DEF Medias
<1>3. [m EXCEPT !.tasks = Outdate(m.tasks, {e}, Recovery), !.els[e] = Halted(m.els[e])] \in Medias
  BY <1>2, MediaChanged
<1>4. n \in Medias
  BY <1>3 DEF abortFallbackWork
<1>5. QED
  BY <1>1, <1>4 DEF n

LEMMA abortFullDownloadIs ==
    ASSUME NEW m \in Medias, NEW e \in Elements
    PROVE  LET n == abortFullDownload(m, e)
           IN  /\ n \in Medias /\ n.active = m.active /\ n.preloaded = m.preloaded /\ n.restore = m.restore
               /\ n.want = m.want /\ n.tasks = Outdate(m.tasks, {e}, {"download"}) /\ n.els = m.els
<1> DEFINE n == abortFullDownload(m, e)
<1> n = abortFullDownload(m, e)
  OBVIOUS
<1> HIDE DEF n
<1>1. Outdate(m.tasks, {e}, {"download"}) \in SUBSET Tasks
  BY Outdates DEF Medias
<1>2. QED
  BY <1>1 DEF abortFullDownload, Medias, n

ClearedTasks(ts, e) == Disown(Outdate(Outdate(ts, {e}, Recovery), {e}, {"download"}), e)

LEMMA ClearedIs ==
    ASSUME NEW m \in Medias, NEW e \in Elements
    PROVE  LET n == Cleared(m, e)
           IN  /\ n \in Medias /\ n.active = m.active /\ n.preloaded = m.preloaded /\ n.restore = m.restore
               /\ n.want = m.want /\ n.tasks = ClearedTasks(m.tasks, e)
               /\ n.els = [m.els EXCEPT ![e] = Emptied(m.els[e])]
<1> DEFINE n == Cleared(m, e)
<1> n = Cleared(m, e)
  OBVIOUS
<1> HIDE DEF n
<1>1. PICK m1 \in Medias : m1 = abortFallbackWork(m, e)
  BY abortFallbackWorkIs
<1>2. PICK m2 \in Medias : m2 = abortFullDownload(m1, e)
  BY abortFullDownloadIs
<1>3. n = [m2 EXCEPT !.tasks = Disown(@, e), !.els[e] = Emptied(m.els[e])]
  BY <1>1, <1>2 DEF Cleared, Emptied
<1>4. /\ m2.active = m.active /\ m2.preloaded = m.preloaded /\ m2.restore = m.restore /\ m2.want = m.want
      /\ m2.tasks = Outdate(Outdate(m.tasks, {e}, Recovery), {e}, {"download"})
      /\ m2.els = [m.els EXCEPT ![e] = Halted(m.els[e])]
  <2>1. /\ m1.active = m.active /\ m1.preloaded = m.preloaded /\ m1.restore = m.restore /\ m1.want = m.want
        /\ m1.tasks = Outdate(m.tasks, {e}, Recovery) /\ m1.els = [m.els EXCEPT ![e] = Halted(m.els[e])]
    BY <1>1, abortFallbackWorkIs
  <2>2. /\ m2.active = m1.active /\ m2.preloaded = m1.preloaded /\ m2.restore = m1.restore /\ m2.want = m1.want
        /\ m2.tasks = Outdate(m1.tasks, {e}, {"download"}) /\ m2.els = m1.els
    BY <1>2, abortFullDownloadIs
  <2>3. QED
    BY <2>1, <2>2
<1>5. /\ n.active = m2.active /\ n.preloaded = m2.preloaded /\ n.restore = m2.restore /\ n.want = m2.want
      /\ n.tasks = Disown(m2.tasks, e) /\ n.els = [m2.els EXCEPT ![e] = Emptied(m.els[e])]
  BY <1>3 DEF Medias
<1>6. Emptied(m.els[e]) \in Players /\ Disown(m2.tasks, e) \in SUBSET Tasks
  BY ElementsHalted, Disowns DEF Medias
<1>7. n \in Medias
  <2>1. [m2 EXCEPT !.tasks = Disown(m2.tasks, e), !.els[e] = Emptied(m.els[e])] \in Medias
    BY <1>6, MediaChanged
  <2>2. QED
    BY <1>3, <2>1
<1>8. n.els = [m.els EXCEPT ![e] = Emptied(m.els[e])]
  BY <1>4, <1>5 DEF Medias
<1>9. QED
  BY <1>4, <1>5, <1>7, <1>8 DEF ClearedTasks, n

-----------------------------------------------------------------------------
(* What is left of the tasks.                                              *)

\* Outdating what belongs to another element, or is no recovery, disturbs none.
LEMMA OutdatesNone ==
    ASSUME NEW m \in Medias, NEW n \in Medias, NEW es, NEW kinds, NEW f, f \notin es \/ kinds \cap Recovery = {},
           n.tasks = Outdate(m.tasks, es, kinds)
    PROVE  Recovering(n, f) = Recovering(m, f)
<1>1. /\ \A x \in m.tasks : ~(x.el \in es /\ x.kind \in kinds) => x \in n.tasks
      /\ \A x \in n.tasks : x \in m.tasks \/ (x.el \in es /\ x.kind \in kinds)
  BY Outdates DEF Medias
<1>2. ASSUME NEW x, x.el = f, x.kind \in Recovery PROVE ~(x.el \in es /\ x.kind \in kinds)
  BY <1>2
<1>3. \A x : x.el = f /\ x.kind \in Recovery => (x \in n.tasks <=> x \in m.tasks)
  BY <1>1, <1>2
<1>4. QED
  BY <1>3 DEF Recovering

LEMMA OutdatesPreparing ==
    ASSUME NEW m \in Medias, NEW n \in Medias, NEW es, NEW kinds, n.tasks = Outdate(m.tasks, es, kinds), NEW x \in Preparing(n)
    PROVE  x \in Preparing(m) /\ ~(x.el \in es /\ x.kind \in kinds)
<1>1. \A y \in n.tasks : (~(y.el \in es /\ y.kind \in kinds) /\ y \in m.tasks) \/ ~y.fresh
  BY Outdates DEF Medias
<1>2. QED
  BY <1>1 DEF Preparing

LEMMA OutdatesLooks ==
    ASSUME NEW m \in Medias, NEW n \in Medias, NEW es, NEW kinds, n.tasks = Outdate(m.tasks, es, kinds)
    PROVE  Looks(n) => Looks(m)
<1>1. \A x \in n.tasks : \E y \in m.tasks : y.kind = x.kind
  BY Outdates DEF Medias
<1>2. QED
  BY <1>1 DEF Looks

LEMMA DisownsNone ==
    ASSUME NEW m \in Medias, NEW n \in Medias, NEW e, NEW f, f # e, n.tasks = Disown(m.tasks, e)
    PROVE  Recovering(n, f) = Recovering(m, f)
<1>1. /\ \A x \in m.tasks : ~(x.el = e /\ x.kind # "lookup") => x \in n.tasks
      /\ \A x \in n.tasks : x \in m.tasks \/ x.el = e
  BY Disowns DEF Medias
<1>2. QED
  BY <1>1 DEF Recovering

LEMMA DisownsPreparing ==
    ASSUME NEW m \in Medias, NEW n \in Medias, NEW e, n.tasks = Disown(m.tasks, e), NEW x \in Preparing(n)
    PROVE  (x.el # e => x \in Preparing(m)) /\ \E y \in Preparing(m) : y.el = x.el
<1>1. \A z \in n.tasks : \/ z \in m.tasks
                         \/ z.el = e /\ \E y \in m.tasks : y.el = z.el /\ y.kind = z.kind /\ y.fresh = z.fresh
  BY Disowns DEF Medias
<1>2. QED
  BY <1>1 DEF Preparing

LEMMA DisownsLooks ==
    ASSUME NEW m \in Medias, NEW n \in Medias, NEW e, n.tasks = Disown(m.tasks, e)
    PROVE  Looks(n) => Looks(m)
<1>1. \A x \in n.tasks : \E y \in m.tasks : y.kind = x.kind
  BY Disowns DEF Medias
<1>2. QED
  BY <1>1 DEF Looks

\* What is fresh or still its own of what was outdated or disowned.
LEMMA OutdatesRecovery ==
    ASSUME NEW ts \in SUBSET Tasks, NEW e, NEW x \in Outdate(ts, {e}, Recovery), x.el = e, x.kind \in Recovery
    PROVE  ~x.fresh /\ \E y \in ts : y.el = e /\ y.kind = x.kind /\ y.same = x.same /\ y.complete = x.complete
<1>1. \/ ~(x.el \in {e} /\ x.kind \in Recovery) /\ x \in ts
      \/ /\ x.el \in {e} /\ x.kind \in Recovery /\ ~x.fresh
         /\ \E y \in ts : y.el = x.el /\ y.kind = x.kind /\ y.same = x.same /\ y.complete = x.complete
  BY Outdates
<1>2. QED
  BY <1>1

LEMMA DisownsRecovery ==
    ASSUME NEW ts \in SUBSET Tasks, NEW e, NEW x \in Disown(ts, e), x.el = e, x.kind \in Recovery
    PROVE  ~x.same /\ \E y \in ts : y.el = e /\ y.kind = x.kind /\ y.fresh = x.fresh /\ y.track = x.track /\ y.complete = x.complete
<1>1. \/ ~(x.el = e /\ x.kind # "lookup") /\ x \in ts
      \/ /\ x.el = e /\ x.kind # "lookup" /\ ~x.same
         /\ \E y \in ts : /\ y.el = x.el /\ y.kind = x.kind /\ y.fresh = x.fresh
                          /\ y.complete = x.complete /\ y.track = x.track
  BY Disowns
<1>2. "lookup" \notin Recovery
  BY DEF Recovery
<1>3. QED
  BY <1>1, <1>2

\* A cleared element is as good as new, and the other as it was.
LEMMA ClearedFrees ==
    ASSUME NEW m \in Medias, NEW e \in Elements
    PROVE  LET n == Cleared(m, e)
           IN  /\ Untouched(n, e) /\ n.els[e].src = NoSrc
               /\ \A f \in Elements : f # e => Recovering(n, f) = Recovering(m, f) /\ n.els[f] = m.els[f]
               /\ Looks(n) => Looks(m)
               /\ \A x \in Preparing(n) : (x.el # e => x \in Preparing(m)) /\ \E y \in Preparing(m) : y.el = x.el
<1> DEFINE n == Cleared(m, e)
<1> n = Cleared(m, e)
  OBVIOUS
<1> HIDE DEF n
<1> DEFINE ts1 == Outdate(m.tasks, {e}, Recovery)
           ts2 == Outdate(ts1, {e}, {"download"})
           m1 == [m EXCEPT !.tasks = ts1]
           m2 == [m EXCEPT !.tasks = ts2]
<1>1. m.tasks \in SUBSET Tasks /\ ts1 \in SUBSET Tasks /\ ts2 \in SUBSET Tasks
  <2>1. m.tasks \in SUBSET Tasks
    BY MediaTyped
  <2>2. ts1 \in SUBSET Tasks
    BY <2>1, Outdates
  <2>3. QED
    BY <2>1, <2>2, Outdates
<1> HIDE DEF ts1, ts2
<1>2. m1 \in Medias /\ m2 \in Medias /\ m1.tasks = ts1 /\ m2.tasks = ts2
  BY <1>1 DEF Medias
<1>3. n \in Medias /\ n.tasks = Disown(ts2, e) /\ n.els = [m.els EXCEPT ![e] = Emptied(m.els[e])]
  BY ClearedIs DEF ClearedTasks, ts1, ts2
<1> HIDE DEF m1, m2
<1>4. m1.tasks = Outdate(m.tasks, {e}, Recovery)
  BY <1>2 DEF ts1
<1>5. m2.tasks = Outdate(m1.tasks, {e}, {"download"})
  BY <1>2 DEF ts2
<1>6. n.tasks = Disown(m2.tasks, e)
  BY <1>2, <1>3
<1>7. ASSUME NEW f \in Elements, f # e PROVE Recovering(n, f) = Recovering(m, f)
  <2>1. Recovering(m1, f) = Recovering(m, f)
    BY <1>2, <1>4, <1>7, OutdatesNone
  <2>2. Recovering(m2, f) = Recovering(m1, f)
    BY <1>2, <1>5, <1>7, OutdatesNone
  <2>3. Recovering(n, f) = Recovering(m2, f)
    BY <1>2, <1>3, <1>6, <1>7, DisownsNone
  <2>4. QED
    BY <2>1, <2>2, <2>3
<1>8. Looks(n) => Looks(m)
  <2>1. Looks(m1) => Looks(m)
    BY <1>2, <1>4, OutdatesLooks
  <2>2. Looks(m2) => Looks(m1)
    BY <1>2, <1>5, OutdatesLooks
  <2>3. Looks(n) => Looks(m2)
    BY <1>2, <1>3, <1>6, DisownsLooks
  <2>4. QED
    BY <2>1, <2>2, <2>3
<1>9. \A x \in Preparing(m2) : x \in Preparing(m)
  <2>1. \A x \in Preparing(m1) : x \in Preparing(m)
    BY <1>2, <1>4, OutdatesPreparing
  <2>2. \A x \in Preparing(m2) : x \in Preparing(m1)
    BY <1>2, <1>5, OutdatesPreparing
  <2>3. QED
    BY <2>1, <2>2
<1>10. ASSUME NEW x \in Preparing(n) PROVE (x.el # e => x \in Preparing(m)) /\ \E y \in Preparing(m) : y.el = x.el
  <2>1. (x.el # e => x \in Preparing(m2)) /\ \E y \in Preparing(m2) : y.el = x.el
    BY <1>2, <1>3, <1>6, DisownsPreparing
  <2>2. QED
    BY <2>1, <1>9
<1>11. n.els[e] = Emptied(m.els[e]) /\ \A f \in Elements : f # e => n.els[f] = m.els[f]
  BY <1>3, MediaTyped
<1>12. /\ n.els[e].src = NoSrc /\ n.els[e].fb = None /\ n.els[e].terminal = None
       /\ ~n.els[e].inFlight
  BY <1>11 DEF Emptied, NewElement
<1>13. Recovering(n, e) = {}
  <2> SUFFICES ASSUME NEW x \in n.tasks, x.el = e, x.kind \in Recovery PROVE ~x.fresh /\ ~x.same
    BY DEF Recovering
  <2>1. x \in Disown(ts2, e)
    BY <1>3
  <2>2. ~x.same /\ \E y \in ts2 : y.el = e /\ y.kind = x.kind /\ y.fresh = x.fresh /\ y.track = x.track /\ y.complete = x.complete
    BY ONLY <1>1, <2>1, x.el = e, x.kind \in Recovery, DisownsRecovery
  <2>3. PICK y \in ts2 : y.el = e /\ y.kind = x.kind /\ y.fresh = x.fresh
    BY <2>2
  <2>4. y \in ts1
    <3>1. y \in ts1 \/ y.kind \in {"download"}
      BY <1>1, Outdates DEF ts2
    <3>2. y.kind # "download"
      BY <2>3 DEF Recovery
    <3>3. QED
      BY <3>1, <3>2
  <2>5. ~y.fresh
    <3>1. y \in Outdate(m.tasks, {e}, Recovery) /\ y.el = e /\ y.kind \in Recovery
      BY <2>3, <2>4 DEF ts1
    <3>2. QED
      BY <1>1, <3>1, OutdatesRecovery
  <2>6. QED
    BY <2>2, <2>3, <2>5
<1>14. Untouched(n, e)
  BY <1>12, <1>13 DEF Untouched, NoSrc
<1>15. QED
  BY <1>7, <1>8, <1>10, <1>11, <1>12, <1>14 DEF n

-----------------------------------------------------------------------------
(* A preload that is given up, and a source that is loaded.                *)

LEMMA invalidatePreloadIs ==
    ASSUME NEW m \in Medias, NEW q, PreparedIn(m, q)
    PROVE  LET n == invalidatePreload(m)
           IN  /\ n \in Medias /\ n.active = m.active /\ n.preloaded = None /\ n.restore = m.restore /\ n.want = m.want
               /\ n.els[m.active] = m.els[m.active] /\ Recovering(n, m.active) = Recovering(m, m.active)
               /\ Untouched(m, Other(m.active)) => Untouched(n, Other(m.active))
               /\ Looks(n) => Looks(m)
               /\ Preparing(n) = {}
<1> DEFINE n == invalidatePreload(m)
<1> n = invalidatePreload(m)
  OBVIOUS
<1> HIDE DEF n
<1>1. CASE m.preloaded = None
  BY <1>1 DEF invalidatePreload, PreparedIn
<1>2. CASE m.preloaded # None
  <2> DEFINE e == Other(m.active)
             k == Cleared(m, e)
             ts == Outdate(k.tasks, Elements, Preload)
  <2>1. e \in Elements /\ e # m.active /\ m.active \in Elements /\ m.preloaded.el = e
    BY <1>2, MediaTyped DEF PreparedIn
  <2>2. n = [k EXCEPT !.preloaded = None, !.tasks = ts]
    BY <1>2, <2>1 DEF invalidatePreload
  <2> HIDE DEF e, k
  <2>3. k \in Medias /\ k.active = m.active /\ k.restore = m.restore /\ k.want = m.want
    <3>1. e \in Elements /\ k = Cleared(m, e)
      BY <2>1 DEF k
    <3>2. QED
      BY ONLY m \in Medias, <3>1, ClearedIs
  <2>4. /\ Untouched(k, e)
        /\ Recovering(k, m.active) = Recovering(m, m.active) /\ k.els[m.active] = m.els[m.active]
        /\ Looks(k) => Looks(m)
    <3>1. e \in Elements /\ k = Cleared(m, e)
      BY <2>1 DEF k
    <3>2. /\ Untouched(k, e)
          /\ \A f \in Elements : f # e => Recovering(k, f) = Recovering(m, f) /\ k.els[f] = m.els[f]
          /\ Looks(k) => Looks(m)
      BY ONLY m \in Medias, <3>1, ClearedFrees
    <3>3. QED
      BY <2>1, <3>2
  <2>5. ts \in SUBSET Tasks
    BY <2>3, Outdates DEF Medias
  <2> HIDE DEF ts
  <2>6. /\ n \in Medias /\ n.active = k.active /\ n.preloaded = None /\ n.restore = k.restore /\ n.want = k.want
        /\ n.els = k.els /\ n.tasks = ts
    BY <2>2, <2>3, <2>5 DEF Medias
  <2>7. n.tasks = Outdate(k.tasks, Elements, Preload)
    BY <2>6 DEF ts
  <2>8. Preload \cap Recovery = {}
    BY DEF Preload, Recovery
  <2>9. ASSUME NEW f PROVE Recovering(n, f) = Recovering(k, f)
    BY <2>3, <2>6, <2>7, <2>8, OutdatesNone
  <2>10. Looks(n) => Looks(k)
    BY <2>3, <2>6, <2>7, OutdatesLooks
  <2>11. ASSUME NEW x \in Preparing(n) PROVE FALSE
    <3>1. ~(x.el \in Elements /\ x.kind \in Preload)
      BY <2>3, <2>6, <2>7, OutdatesPreparing
    <3>2. x \in Tasks /\ x.kind \in Preload
      BY <2>5, <2>6 DEF Preparing
    <3>3. QED
      BY <3>1, <3>2 DEF Tasks
  <2>12. Untouched(n, e)
    BY <2>4, <2>6, <2>9 DEF Untouched
  <2>13. QED
    BY <2>3, <2>4, <2>6, <2>9, <2>10, <2>11, <2>12 DEF e
<1>3. QED
  BY <1>1, <1>2 DEF n

\* What is prepared for nothing fits every queue.
LEMMA PreparedForNone ==
    ASSUME NEW m, m.preloaded = None, Preparing(m) = {}, NEW q
    PROVE  PreparedIn(m, q)
BY DEF PreparedIn

\* What the invariants say of media, and of media whose elements no recovery has touched.
Fits(m, q, t) ==
    /\ m \in Medias /\ ShowsIn(m, t) /\ PreparedIn(m, q) /\ RecoversAlone(m)
    /\ StateInOrder(m, t) /\ TasksInOrder(m, t) /\ MovesIn(m, t)
Starts(m, q, t) ==
    /\ m \in Medias /\ ShowsIn(m, t) /\ PreparedIn(m, q)
    /\ Untouched(m, m.active) /\ Untouched(m, Other(m.active))

LEMMA StartsFit ==
    ASSUME NEW m, NEW q, NEW t, Starts(m, q, t)
    PROVE  Fits(m, q, t)
<1>1. m.els[m.active].fb = None /\ m.els[m.active].terminal = None /\ ~m.els[m.active].inFlight
  BY DEF Starts, Untouched
<1>2. Recovering(m, m.active) = {}
  BY DEF Starts, Untouched
<1>3. RecoversAlone(m)
  BY DEF Starts, RecoversAlone
<1>4. StateInOrder(m, t)
  <2>1. m.els[m.active].src.kind # "revoked"
    BY DEF Starts, Untouched
  <2>2. QED
    BY <1>1, <1>2, <2>1 DEF StateInOrder
<1>5. TasksInOrder(m, t)
  BY <1>2 DEF TasksInOrder
<1>6. MovesIn(m, t)
  BY <1>1 DEF MovesIn
<1>7. QED
  BY <1>3, <1>4, <1>5, <1>6 DEF Fits, Starts

\* The active element, its recovery and the lookups are as they were.
StillActive(n, m) ==
    /\ n.active = m.active /\ n.els[m.active] = m.els[m.active]
    /\ Recovering(n, m.active) = Recovering(m, m.active)
    /\ Looks(n) => Looks(m)

LEMMA StillFits ==
    ASSUME NEW m, NEW n \in Medias, NEW q, NEW r, NEW t, Fits(m, q, t), StillActive(n, m),
           Untouched(n, Other(m.active)), PreparedIn(n, r)
    PROVE  Fits(n, r, t)
<1>1. n.active = m.active /\ n.els[n.active] = m.els[m.active] /\ Recovering(n, n.active) = Recovering(m, m.active)
  BY DEF StillActive
<1>2. ShowsIn(n, t)
  BY <1>1 DEF Fits, ShowsIn
<1>3. StateInOrder(n, t)
  BY <1>1 DEF Fits, StateInOrder
<1>4. TasksInOrder(n, t)
  BY <1>1 DEF Fits, TasksInOrder
<1>5. MovesIn(n, t)
  BY <1>1 DEF Fits, MovesIn
<1>6. RecoversAlone(n)
  <2>1. Looks(n) => Untouched(m, m.active)
    BY DEF StillActive, Fits, RecoversAlone
  <2>2. Looks(n) => Untouched(n, n.active)
    BY <1>1, <2>1 DEF Untouched
  <2>3. QED
    BY <1>1, <2>2 DEF RecoversAlone
<1>7. QED
  BY <1>2, <1>3, <1>4, <1>5, <1>6 DEF Fits

\* Given up what was prepared, the rest goes on.
LEMMA InvalidatedFits ==
    ASSUME NEW m, NEW q, NEW r, NEW t, Fits(m, q, t)
    PROVE  Fits(invalidatePreload(m), r, t) /\ Preparing(invalidatePreload(m)) = {} /\ invalidatePreload(m).preloaded = None
<1> DEFINE n == invalidatePreload(m)
<1>1. m \in Medias /\ PreparedIn(m, q) /\ Untouched(m, Other(m.active))
  BY DEF Fits, RecoversAlone
<1>2. /\ n \in Medias /\ n.active = m.active /\ n.preloaded = None
      /\ n.els[m.active] = m.els[m.active] /\ Recovering(n, m.active) = Recovering(m, m.active)
      /\ Untouched(m, Other(m.active)) => Untouched(n, Other(m.active))
      /\ Looks(n) => Looks(m)
      /\ Preparing(n) = {}
  BY <1>1, invalidatePreloadIs
<1> HIDE DEF n
<1>3. StillActive(n, m)
  BY <1>2 DEF StillActive
<1>4. PreparedIn(n, r)
  BY <1>2, PreparedForNone
<1>5. Fits(n, r, t)
  BY <1>1, <1>2, <1>3, <1>4, StillFits
<1>6. QED
  BY <1>2, <1>5 DEF n

LEMMA SourcedIs ==
    ASSUME NEW p \in Players, NEW k, NEW t, NEW seeks
    PROVE  LET s == Sourced(p, k, t, seeks)
           IN  /\ s.src = Src(k, t) /\ s.fb = p.fb /\ s.terminal = p.terminal /\ s.inFlight = p.inFlight
               /\ s.origin = p.origin /\ s.attempted = p.attempted /\ s.over = FALSE /\ s.at = None
BY DEF Sourced, Players

LEMMA SeekTyped ==
    ASSUME NEW t \in Positions \cup {None}, NEW of \in {"own", "active"}
    PROVE  Seek(t, of) \in SUBSET Seeks
BY DEF Seek, Seeks

LEMMA StreamIs ==
    ASSUME NEW m \in Medias, NEW e \in Elements, NEW t \in Tracks
    PROVE  LET n == Stream(m, e, t)
           IN  /\ n \in Medias /\ n.active = m.active /\ n.preloaded = m.preloaded /\ n.tasks = m.tasks
               /\ n.els = [m.els EXCEPT ![e] = Sourced(m.els[e], "stream", t, Seek(m.restore, "active"))]
<1> DEFINE p == Sourced(m.els[e], "stream", t, Seek(m.restore, "active"))
<1>1. p \in Players
  <2>1. m.els[e] \in Players /\ m.restore \in Positions \cup {None}
    BY MediaTyped
  <2>2. QED
    BY <2>1, SeekTyped, ElementsTyped
<1> HIDE DEF p
<1>2. Stream(m, e, t) = [[m EXCEPT !.restore = None] EXCEPT !.els[e] = p]
  <2>1. Stream(m, e, t) = [m EXCEPT !.els[e] = p, !.restore = None]
    BY DEF Stream, p
  <2>2. [m EXCEPT !.els[e] = p, !.restore = None] = [[m EXCEPT !.els[e] = p] EXCEPT !.restore = None]
    OBVIOUS
  <2>3. [[m EXCEPT !.els[e] = p] EXCEPT !.restore = None] = [[m EXCEPT !.restore = None] EXCEPT !.els[e] = p]
    BY <1>1 DEF Medias
  <2>4. QED
    BY <2>1, <2>2, <2>3
<1> DEFINE k == [m EXCEPT !.restore = None]
<1>3. k \in Medias /\ k.active = m.active /\ k.preloaded = m.preloaded /\ k.tasks = m.tasks /\ k.els = m.els
  BY DEF Medias
<1> HIDE DEF k
<1> DEFINE n == [k EXCEPT !.els[e] = p]
<1>4. n \in Medias
  BY <1>1, <1>3, MediaChanged
<1>5. n.active = k.active /\ n.preloaded = k.preloaded /\ n.tasks = k.tasks /\ n.els = [k.els EXCEPT ![e] = p]
  BY <1>3 DEF Medias
<1>6. Stream(m, e, t) = n
  BY <1>2 DEF k
<1> HIDE DEF n
<1>7. QED
  BY <1>3, <1>4, <1>5, <1>6 DEF p

\* What is under way changes by tasks that are no recovery and no preload.
LEMMA SameUnderWay ==
    ASSUME NEW m, NEW n, \A x : x.kind \in Recovery \cup Preload => (x \in n.tasks <=> x \in m.tasks)
    PROVE  Preparing(n) = Preparing(m) /\ \A f : Recovering(n, f) = Recovering(m, f)
BY DEF Preparing, Recovering

\* A track that is loaded starts afresh, whatever was prepared and whatever was under way.
LEMMA loadCurrentStarts ==
    ASSUME NEW m \in Medias, NEW q \in Seq(Tracks), NEW i \in DOMAIN q,
           PreparedIn(m, q), Untouched(m, Other(m.active))
    PROVE  Starts(loadCurrent(m, q, i), q, q[i])
<1> DEFINE a1 == m.active
           a2 == Other(m.active)
           t == q[i]
<1>1. a1 \in Elements /\ a2 \in Elements /\ a1 # a2 /\ Other(a2) = a1 /\ t \in Tracks
  BY MediaTyped DEF Other, Elements
<1>2. CASE Swappable(m, i)
  <2> DEFINE k == Cleared(m, a1)
             p == [k.els[a2] EXCEPT !.seeks = @ \cup Seek(m.restore, "active")]
             j == [k EXCEPT !.preloaded = None, !.active = a2, !.restore = None]
             n == [j EXCEPT !.els[a2] = p]
  <2>1. /\ m.preloaded # None /\ m.preloaded.ready /\ m.preloaded.index = i /\ m.preloaded.el = a2
        /\ m.els[a2].src = Src("blob", t) /\ Preparing(m) = {}
    BY <1>2 DEF Swappable, PreparedIn
  <2>2. k \in Medias
    BY <1>1, ClearedIs
  <2>3. /\ Untouched(k, a1) /\ Recovering(k, a2) = Recovering(m, a2) /\ k.els[a2] = m.els[a2]
        /\ \A x \in Preparing(k) : \E y \in Preparing(m) : y.el = x.el
    BY <1>1, ClearedFrees
  <2>4. loadCurrent(m, q, i) = [k EXCEPT !.preloaded = None, !.active = a2, !.restore = None, !.els[a2].seeks = @ \cup Seek(m.restore, "active")]
    BY <1>2, <2>1 DEF loadCurrent
  <2> HIDE DEF k
  <2>5. p \in Players /\ p.src = k.els[a2].src /\ p.fb = k.els[a2].fb /\ p.terminal = k.els[a2].terminal /\ p.inFlight = k.els[a2].inFlight
    <3>1. k.els[a2] \in Players /\ Seek(m.restore, "active") \in SUBSET Seeks
      BY <1>1, <2>2, MediaTyped, SeekTyped
    <3>2. QED
      BY <3>1 DEF Players
  <2>6. j \in Medias /\ j.active = a2 /\ j.preloaded = None /\ j.tasks = k.tasks /\ j.els = k.els
    BY <1>1, <2>2 DEF Medias
  <2>7. loadCurrent(m, q, i) = n
    BY <2>2, <2>4, <1>1, <2>6 DEF Medias
  <2> HIDE DEF p, j
  <2>8. n \in Medias
    BY <1>1, <2>5, <2>6, MediaChanged
  <2>9. n.active = a2 /\ n.preloaded = None /\ n.tasks = k.tasks /\ n.els = [k.els EXCEPT ![a2] = p]
    BY <2>6 DEF Medias
  <2>10. n.els[a2] = p /\ n.els[a1] = k.els[a1]
    BY <1>1, <2>2, <2>9, MediaTyped
  <2> HIDE DEF n
  <2>11. Preparing(n) = Preparing(k) /\ \A f : Recovering(n, f) = Recovering(k, f)
    BY <2>9 DEF Preparing, Recovering
  <2>12. Untouched(n, a1)
    BY <2>3, <2>10, <2>11 DEF Untouched
  <2>13. Untouched(n, a2)
    BY <2>3, <2>5, <2>10, <2>11 DEF Untouched
  <2>14. ShowsIn(n, t)
    BY <2>1, <2>3, <2>5, <2>9, <2>10 DEF ShowsIn, Src
  <2>15. PreparedIn(n, q)
    BY <2>1, <2>3, <2>9, <2>11, PreparedForNone
  <2>16. QED
    BY <1>1, <2>7, <2>8, <2>9, <2>12, <2>13, <2>14, <2>15 DEF Starts
<1>3. CASE ~Swappable(m, i)
  <2> DEFINE j == invalidatePreload(m)
             k == Cleared(j, a1)
             n == IF t \in Direct THEN Stream(k, a1, t)
                  ELSE [k EXCEPT !.tasks = @ \cup {Task("lookup", a1, t)}]
  <2>1. loadCurrent(m, q, i) = n
    BY <1>3 DEF loadCurrent
  <2>2. j \in Medias /\ j.active = a1 /\ j.preloaded = None /\ Untouched(j, a2) /\ Preparing(j) = {}
    BY invalidatePreloadIs
  <2> HIDE DEF j
  <2>3. k \in Medias /\ k.active = a1 /\ k.preloaded = None
    BY <1>1, <2>2, ClearedIs
  <2>4. /\ Untouched(k, a1) /\ k.els[a1].src = NoSrc
        /\ Recovering(k, a2) = Recovering(j, a2) /\ k.els[a2] = j.els[a2]
        /\ \A x \in Preparing(k) : \E y \in Preparing(j) : y.el = x.el
    BY <1>1, <2>2, ClearedFrees
  <2>5. Untouched(k, a2) /\ Preparing(k) = {}
    BY <2>2, <2>4 DEF Untouched
  <2> HIDE DEF k
  <2>6. CASE t \in Direct
    <3> DEFINE p == Sourced(k.els[a1], "stream", t, Seek(k.restore, "active"))
    <3>1. n = Stream(k, a1, t)
      BY <2>6
    <3> HIDE DEF n
    <3>2. n \in Medias /\ n.active = a1 /\ n.preloaded = None /\ n.tasks = k.tasks /\ n.els = [k.els EXCEPT ![a1] = p]
      <4>1. LET s == Stream(k, a1, t)
            IN  /\ s \in Medias /\ s.active = k.active /\ s.preloaded = k.preloaded /\ s.tasks = k.tasks
                /\ s.els = [k.els EXCEPT ![a1] = p]
        BY ONLY <1>1, <2>3, StreamIs
      <4>2. QED
        BY <2>3, <3>1, <4>1
    <3>3. k.els[a1] \in Players
      BY <2>3, MediaTyped
    <3>4. p.src = Src("stream", t) /\ p.fb = k.els[a1].fb /\ p.terminal = k.els[a1].terminal /\ p.inFlight = k.els[a1].inFlight
      BY <3>3 DEF Sourced, Players
    <3> HIDE DEF p
    <3>5. n.els[a1] = p /\ n.els[a2] = k.els[a2]
      BY <1>1, <2>3, <3>2, MediaTyped
    <3>6. Preparing(n) = Preparing(k) /\ \A f : Recovering(n, f) = Recovering(k, f)
      BY <3>2 DEF Preparing, Recovering
    <3>7. Untouched(n, a1) /\ Untouched(n, a2)
      BY <2>4, <2>5, <3>4, <3>5, <3>6 DEF Untouched, Src
    <3>8. ShowsIn(n, t)
      BY <3>2, <3>4, <3>5 DEF ShowsIn, Src
    <3>9. PreparedIn(n, q)
      BY <2>5, <3>2, <3>6, PreparedForNone
    <3>10. QED
      BY <2>1, <3>2, <3>7, <3>8, <3>9 DEF Starts
  <2>7. CASE t \notin Direct
    <3>1. n = [k EXCEPT !.tasks = k.tasks \cup {Task("lookup", a1, t)}]
      BY <2>7
    <3>2. k.tasks \cup {Task("lookup", a1, t)} \in SUBSET Tasks
      <4>1. k.tasks \in SUBSET Tasks
        BY <2>3, MediaTyped
      <4>2. Task("lookup", a1, t) \in Tasks
        BY <1>1 DEF Task, Tasks
      <4>3. QED
        BY <4>1, <4>2
    <3> HIDE DEF n
    <3>3. n \in Medias /\ n.active = a1 /\ n.preloaded = None /\ n.els = k.els /\ n.tasks = k.tasks \cup {Task("lookup", a1, t)}
      BY <2>3, <3>1, <3>2 DEF Medias
    <3>4. \A x : x.kind \in Recovery \cup Preload => (x \in n.tasks <=> x \in k.tasks)
      BY <3>3 DEF Task, Recovery, Preload
    <3>5. Preparing(n) = Preparing(k) /\ \A f : Recovering(n, f) = Recovering(k, f)
      BY <3>4, SameUnderWay
    <3>6. Untouched(n, a1) /\ Untouched(n, a2)
      BY <2>4, <2>5, <3>3, <3>5 DEF Untouched
    <3>7. ShowsIn(n, t)
      BY <2>4, <3>3 DEF ShowsIn
    <3>8. PreparedIn(n, q)
      BY <2>5, <3>3, <3>5, PreparedForNone
    <3>9. QED
      BY <2>1, <3>3, <3>6, <3>7, <3>8 DEF Starts
  <2>8. QED
    BY <2>6, <2>7
<1>4. QED
  BY <1>2, <1>3

-----------------------------------------------------------------------------
(* A track that is played, the next one, and the order of the queue.       *)

\* Media that differ in what no recovery and no preload looks at.
LEMMA WantsFit ==
    ASSUME NEW m \in Medias, NEW q, PreparedIn(m, q), Untouched(m, Other(m.active)),
           NEW r \in Positions \cup {None}, NEW w \in BOOLEAN
    PROVE  LET n == [m EXCEPT !.restore = r, !.want = w]
           IN  n \in Medias /\ PreparedIn(n, q) /\ Untouched(n, Other(n.active)) /\ n.active = m.active
<1> DEFINE n == [m EXCEPT !.restore = r, !.want = w]
<1>1. n \in Medias /\ n.active = m.active /\ n.els = m.els /\ n.preloaded = m.preloaded /\ n.tasks = m.tasks
  BY DEF Medias
<1> HIDE DEF n
<1>2. PreparedIn(n, q)
  BY <1>1 DEF PreparedIn, Preparing
<1>3. Untouched(n, Other(n.active))
  BY <1>1 DEF Untouched, Recovering
<1>4. QED
  BY <1>1, <1>2, <1>3 DEF n

LEMMA playAtFits ==
    ASSUME NEW m \in Medias, NEW q \in Seq(Tracks), NEW i, NEW cur, NEW was \in BOOLEAN,
           PreparedIn(m, q), Untouched(m, Other(m.active)), playAt(m, q, i, cur, was)
    PROVE  \/ i \notin DOMAIN q /\ index' = cur /\ media' = m /\ playing' = was
           \/ i \in DOMAIN q /\ index' = i /\ Fits(media', q, q[i]) /\ playing' \in BOOLEAN
<1>1. CASE i \notin DOMAIN q
  BY <1>1 DEF playAt
<1>2. CASE i \in DOMAIN q
  <2> DEFINE k == [m EXCEPT !.restore = None, !.want = TRUE]
             n == loadCurrent(k, q, i)
  <2>1. index' = i /\ media' = n /\ playing' = (was \/ Sounds(n))
    BY <1>2 DEF playAt
  <2>2. k \in Medias /\ PreparedIn(k, q) /\ Untouched(k, Other(k.active))
    BY WantsFit
  <2> HIDE DEF k
  <2>3. Starts(n, q, q[i])
    BY <1>2, <2>2, loadCurrentStarts
  <2>4. Fits(n, q, q[i])
    BY <2>3, StartsFit
  <2>5. playing' \in BOOLEAN
    BY <2>1 DEF Sounds
  <2>6. QED
    BY <1>2, <2>1, <2>4, <2>5
<1>3. QED
  BY <1>1, <1>2

LEMMA PermsTyped ==
    ASSUME NEW n \in Nat, NEW p \in Perms(n)
    PROVE  p \in Seq(Nat)
<1>1. p \in [1 .. n -> 1 .. n]
  BY DEF Perms
<1>2. p \in [1 .. n -> Nat]
  BY <1>1
<1>3. QED
  BY <1>2

LEMMA OrdersTyped ==
    ASSUME NEW o \in Seq(Nat), NEW q \in Seq(Tracks), NEW i, NEW p \in Orders(o, q, i)
    PROVE  p \in Seq(Nat)
<1>1. p = o \/ p \in Perms(Len(q))
  BY DEF Orders
<1>2. Len(q) \in Nat
  OBVIOUS
<1>3. QED
  BY <1>1, <1>2, PermsTyped

\* What the invariants say between them, in the terms of the lemmas.
Rest ==
    /\ queue \in Seq(Tracks) /\ index \in 0 .. Len(queue) /\ order \in Seq(Nat)
    /\ playMode \in {"sequential", "single", "shuffle"} /\ playing \in BOOLEAN
    /\ TrackUnlessEmpty

LEMMA PlayerInvs ==
    ASSUME IInv
    PROVE  Rest /\ Fits(media, queue, current)
<1>1. Rest
  BY DEF IInv, TypeOK, Rest
<1>2. Fits(media, queue, current)
  BY DEF IInv, TypeOK, Fits
<1>3. QED
  BY <1>1, <1>2

\* The steps that leave a track to play, the steps that leave none, and all others.
LEMMA GoesOn ==
    ASSUME queue' \in Seq(Tracks), index' \in DOMAIN queue', order' \in Seq(Nat),
           playMode' \in {"sequential", "single", "shuffle"}, playing' \in BOOLEAN,
           Fits(media', queue', queue'[index'])
    PROVE  IInv'
<1>1. hasTrack' /\ current' = queue'[index'] /\ index' \in 0 .. Len(queue')
  BY DEF hasTrack, current
<1>2. TypeOK'
  BY <1>1 DEF TypeOK, Fits
<1>3. TrackUnlessEmpty'
  BY <1>1 DEF TrackUnlessEmpty
<1>4. /\ ShowsIn(media, current)' /\ PreparedIn(media, queue)' /\ RecoversAlone(media)'
      /\ StateInOrder(media, current)' /\ TasksInOrder(media, current)' /\ MovesIn(media, current)'
  BY <1>1 DEF Fits
<1>5. QED
  BY <1>2, <1>3, <1>4 DEF IInv

LEMMA GoesIdle ==
    ASSUME queue' = <<>>, index' = 0, order' \in Seq(Nat),
           playMode' \in {"sequential", "single", "shuffle"}, playing' \in BOOLEAN,
           Fits(media', <<>>, None)
    PROVE  IInv'
<1>1. current' = None /\ queue' \in Seq(Tracks) /\ index' \in 0 .. Len(queue')
  BY DEF current
<1>2. TypeOK'
  BY <1>1 DEF TypeOK, Fits
<1>3. TrackUnlessEmpty'
  BY DEF TrackUnlessEmpty
<1>4. /\ ShowsIn(media, current)' /\ PreparedIn(media, queue)' /\ RecoversAlone(media)'
      /\ StateInOrder(media, current)' /\ TasksInOrder(media, current)' /\ MovesIn(media, current)'
  BY <1>1 DEF Fits
<1>5. QED
  BY <1>2, <1>3, <1>4 DEF IInv

LEMMA StaysInPlace ==
    ASSUME Rest, UNCHANGED <<queue, index>>, order' \in Seq(Nat), playMode' \in {"sequential", "single", "shuffle"},
           playing' \in BOOLEAN, Fits(media', queue, current)
    PROVE  IInv'
<1>1. current' = current /\ (hasTrack' <=> hasTrack)
  BY DEF current, hasTrack
<1>2. TypeOK'
  BY DEF TypeOK, Fits, Rest
<1>3. TrackUnlessEmpty'
  BY <1>1 DEF TrackUnlessEmpty, Rest
<1>4. /\ ShowsIn(media, current)' /\ PreparedIn(media, queue)' /\ RecoversAlone(media)'
      /\ StateInOrder(media, current)' /\ TasksInOrder(media, current)' /\ MovesIn(media, current)'
  BY <1>1 DEF Fits
<1>5. QED
  BY <1>2, <1>3, <1>4 DEF IInv

\* Without a current track less is asked of the media.
LEMMA FitsNone ==
    ASSUME NEW m, NEW q, NEW t, Fits(m, q, t)
    PROVE  Fits(m, q, None)
<1>1. ShowsIn(m, None)
  BY DEF ShowsIn
<1>2. StateInOrder(m, None)
  BY DEF Fits, StateInOrder
<1>3. TasksInOrder(m, None)
  BY DEF Fits, TasksInOrder
<1>4. MovesIn(m, None)
  BY DEF Fits, MovesIn
<1>5. QED
  BY <1>1, <1>2, <1>3, <1>4 DEF Fits

LEMMA nextTrackFits ==
    ASSUME NEW m, NEW was \in BOOLEAN, Rest, hasTrack, Fits(m, queue, queue[index]), nextTrack(m, was)
    PROVE  /\ index' \in DOMAIN queue /\ Fits(media', queue, queue[index'])
           /\ playing' \in BOOLEAN /\ order' \in Seq(Nat)
<1>1. /\ queue \in Seq(Tracks) /\ order \in Seq(Nat) /\ index \in DOMAIN queue /\ Len(queue) \in Nat
      /\ m \in Medias /\ PreparedIn(m, queue) /\ Untouched(m, Other(m.active))
  BY DEF Rest, hasTrack, Fits, RecoversAlone
<1>2. ASSUME NEW i, playAt(m, queue, i, index, was)
      PROVE  index' \in DOMAIN queue /\ Fits(media', queue, queue[index']) /\ playing' \in BOOLEAN
  <2>1. \/ i \notin DOMAIN queue /\ index' = index /\ media' = m /\ playing' = was
        \/ i \in DOMAIN queue /\ index' = i /\ Fits(media', queue, queue[i]) /\ playing' \in BOOLEAN
    BY <1>1, <1>2, playAtFits
  <2>2. QED
    BY <1>1, <2>1
<1>3. CASE playMode = "single" /\ playing' = (was \/ m.els[m.active].src # NoSrc) /\ media' = m /\ UNCHANGED <<index, order>>
  BY <1>1, <1>3
<1>4. CASE playAt(m, queue, IF index < Len(queue) THEN index + 1 ELSE 1, index, was) /\ UNCHANGED order
  <2>1. index' \in DOMAIN queue /\ Fits(media', queue, queue[index']) /\ playing' \in BOOLEAN
    BY <1>2, <1>4
  <2>2. QED
    BY <1>1, <1>4, <2>1
<1>5. ASSUME NEW o \in Orders(order, queue, index),
             IF After(o, index) # 0
             THEN order' = o /\ playAt(m, queue, After(o, index), index, was)
             ELSE \E p \in Perms(Len(queue)) : order' = p /\ playAt(m, queue, p[1], index, was)
      PROVE  /\ index' \in DOMAIN queue /\ Fits(media', queue, queue[index'])
             /\ playing' \in BOOLEAN /\ order' \in Seq(Nat)
  <2>1. CASE order' = o /\ playAt(m, queue, After(o, index), index, was)
    <3>1. index' \in DOMAIN queue /\ Fits(media', queue, queue[index']) /\ playing' \in BOOLEAN
      BY <1>2, <2>1
    <3>2. o \in Seq(Nat)
      BY <1>1, OrdersTyped
    <3>3. QED
      BY <2>1, <3>1, <3>2
  <2>2. ASSUME NEW p \in Perms(Len(queue)), order' = p, playAt(m, queue, p[1], index, was)
        PROVE  /\ index' \in DOMAIN queue /\ Fits(media', queue, queue[index'])
               /\ playing' \in BOOLEAN /\ order' \in Seq(Nat)
    <3>1. index' \in DOMAIN queue /\ Fits(media', queue, queue[index']) /\ playing' \in BOOLEAN
      BY <1>2, <2>2
    <3>2. p \in Seq(Nat)
      BY <1>1, PermsTyped
    <3>3. QED
      BY <2>2, <3>1, <3>2
  <2>3. QED
    BY <1>5, <2>1, <2>2
<1>6. QED
  BY <1>3, <1>4, <1>5 DEF nextTrack

\* Without a track next() leaves the elements as they are.
LEMMA nextOfNothingStays ==
    ASSUME Rest, NEW m, NEW was \in BOOLEAN, nextOfNothing(m, was)
    PROVE  media' = m /\ index' = index /\ playing' \in BOOLEAN /\ order' \in Seq(Nat)
<1>1. order \in Seq(Nat) /\ <<>> \in Seq(Nat)
  BY DEF Rest
<1>2. QED
  BY <1>1 DEF nextOfNothing

-----------------------------------------------------------------------------
(* The user's steps.                                                       *)

LEMMA nextKeeps ==
    ASSUME Rest, Fits(media, queue, current), next
    PROVE  IInv'
<1>1. UNCHANGED <<queue, playMode>>
  BY DEF next
<1>2. playing \in BOOLEAN /\ playMode \in {"sequential", "single", "shuffle"} /\ queue \in Seq(Tracks)
  BY DEF Rest
<1>3. CASE hasTrack /\ nextTrack(media, playing)
  <2>1. current = queue[index]
    BY <1>3 DEF current, hasTrack
  <2>2. /\ index' \in DOMAIN queue /\ Fits(media', queue, queue[index'])
        /\ playing' \in BOOLEAN /\ order' \in Seq(Nat)
    BY <1>2, <1>3, <2>1, nextTrackFits
  <2>3. QED
    BY <1>1, <1>2, <2>2, GoesOn
<1>4. CASE nextOfNothing(media, playing)
  <2>1. media' = media /\ index' = index /\ playing' \in BOOLEAN /\ order' \in Seq(Nat)
    BY <1>2, <1>4, nextOfNothingStays
  <2>2. QED
    BY <1>1, <1>2, <2>1, StaysInPlace
<1>5. QED
  BY <1>3, <1>4 DEF next

\* Playing a track of the queue as it is.
LEMMA playAtKeeps ==
    ASSUME Rest, Fits(media, queue, current), hasTrack, NEW i, playAt(media, queue, i, index, playing),
           UNCHANGED <<queue, playMode, order>>
    PROVE  IInv'
<1>1. media \in Medias /\ PreparedIn(media, queue) /\ Untouched(media, Other(media.active)) /\ index \in DOMAIN queue /\ current = queue[index]
  BY DEF Fits, RecoversAlone, hasTrack, current
<1>2. playing \in BOOLEAN /\ playMode \in {"sequential", "single", "shuffle"} /\ queue \in Seq(Tracks) /\ order \in Seq(Nat)
  BY DEF Rest
<1>3. \/ index' = index /\ media' = media /\ playing' = playing
      \/ i \in DOMAIN queue /\ index' = i /\ Fits(media', queue, queue[i]) /\ playing' \in BOOLEAN
  BY <1>1, <1>2, playAtFits
<1>4. index' \in DOMAIN queue /\ Fits(media', queue, queue[index']) /\ playing' \in BOOLEAN
  BY <1>1, <1>2, <1>3
<1>5. QED
  BY <1>2, <1>4, GoesOn

LEMMA prevKeeps ==
    ASSUME Rest, Fits(media, queue, current), prev
    PROVE  IInv'
<1>1. hasTrack /\ UNCHANGED <<queue, playMode, order>> /\ \E i : playAt(media, queue, i, index, playing)
  BY DEF prev
<1>2. QED
  BY <1>1, playAtKeeps

LEMMA chooseAtKeeps ==
    ASSUME Rest, Fits(media, queue, current), NEW i \in DOMAIN queue, chooseAt(i)
    PROVE  IInv'
<1>1. hasTrack
  BY DEF Rest, TrackUnlessEmpty
<1>2. QED
  BY <1>1, playAtKeeps DEF chooseAt

LEMMA setQueueKeeps ==
    ASSUME Rest, Fits(media, queue, current), NEW q, NEW i, NEW autoplay \in BOOLEAN, setQueue(q, i, autoplay),
           \/ q \in Seq(Tracks) /\ i \in 1 .. Len(q)
           \/ q = <<>> /\ i = 0
    PROVE  IInv'
<1> DEFINE j == invalidatePreload(media)
           at == IF i \in DOMAIN q /\ q[i] \in Positions THEN q[i] ELSE None
           w == IF q = <<>> THEN j.want ELSE autoplay
           k == [j EXCEPT !.restore = at, !.want = w]
           n == loadCurrent(k, q, i)
<1>1. /\ media' = n /\ playing' = (playing \/ (q # <<>> /\ Sounds(n))) /\ queue' = q
      /\ index' = (IF q = <<>> THEN 0 ELSE i) /\ UNCHANGED <<playMode, order>>
  BY DEF setQueue
<1>2. Fits(j, q, current)
  BY InvalidatedFits
<1>3. at \in Positions \cup {None}
  OBVIOUS
<1>4. playing \in BOOLEAN /\ playMode \in {"sequential", "single", "shuffle"} /\ order \in Seq(Nat)
  BY DEF Rest
<1> HIDE DEF j, at
<1>5. j \in Medias /\ PreparedIn(j, q) /\ Untouched(j, Other(j.active))
  BY <1>2 DEF Fits, RecoversAlone
<1>6. k \in Medias /\ PreparedIn(k, q) /\ Untouched(k, Other(k.active)) /\ k.active = j.active
  <2>1. w \in BOOLEAN
    BY <1>5 DEF Medias
  <2> HIDE DEF w
  <2>2. QED
    BY <1>3, <1>5, <2>1, WantsFit
<1>7. CASE q \in Seq(Tracks) /\ i \in 1 .. Len(q)
  <2>1. q \in Seq(Tracks)
    BY <1>7
  <2>2. i \in DOMAIN q /\ q # <<>>
    BY <1>7, <2>1
  <2> HIDE DEF k
  <2>3. Starts(n, q, q[i])
    BY <1>6, <2>1, <2>2, loadCurrentStarts
  <2>4. Fits(n, q, q[i])
    BY <2>3, StartsFit
  <2>5. playing' \in BOOLEAN
    BY <1>1, <1>4
  <2> HIDE DEF n
  <2>6. QED
    BY <1>1, <1>4, <2>1, <2>2, <2>4, <2>5, GoesOn
<1>8. CASE q = <<>> /\ i = 0
  <2>1. n = k
    BY <1>8 DEF loadCurrent
  <2>2. k.els = j.els /\ k.tasks = j.tasks
    BY <1>5, <1>8 DEF Medias
  <2> HIDE DEF k
  <2>3. Fits(j, <<>>, None)
    BY <1>2, <1>8, FitsNone
  <2>4. StillActive(k, j)
    BY <1>6, <2>2 DEF StillActive, Recovering, Looks
  <2>5. Fits(k, <<>>, None)
    BY <1>6, <1>8, <2>3, <2>4, StillFits
  <2>6. playing' \in BOOLEAN
    BY <1>1, <1>4, <1>8
  <2> HIDE DEF n
  <2>7. QED
    BY <1>1, <1>4, <1>8, <2>1, <2>5, <2>6, GoesIdle
<1>9. QED
  BY <1>7, <1>8

-----------------------------------------------------------------------------
(* Sequences that lose an entry or gain one.                               *)

PlaceIn(s, v) == SelectInSeq(s, LAMBDA x : x = v)

LEMMA SelectedIsThere ==
    ASSUME NEW S, NEW s \in Seq(S), NEW v
    PROVE  PlaceIn(s, v) \in 0 .. Len(s)
<1> DEFINE I == {i \in 1 .. Len(s) : s[i] = v}
<1>1. PlaceIn(s, v) = IF I # {} THEN Min(I) ELSE 0
  BY DEF SelectInSeq, PlaceIn
<1>2. ASSUME I # {} PROVE Min(I) \in I
  <2>1. I \in SUBSET Nat
    OBVIOUS
  <2>2. \E n \in I : \A m \in I : n <= m
    BY <1>2, <2>1, FirstNumber
  <2>3. QED
    BY <2>2 DEF Min
<1>3. QED
  BY <1>1, <1>2

LEMMA RemoveAtIs ==
    ASSUME NEW S, NEW s \in Seq(S), NEW i \in DOMAIN s
    PROVE  /\ RemoveAt(s, i) \in Seq(S) /\ Len(RemoveAt(s, i)) = Len(s) - 1
           /\ \A k \in 1 .. Len(s) - 1 : RemoveAt(s, i)[k] = IF k < i THEN s[k] ELSE s[k + 1]
<1> DEFINE u == SubSeq(s, 1, i - 1)
           v == SubSeq(s, i + 1, Len(s))
<1>1. i \in 1 .. Len(s) /\ Len(s) \in Nat
  OBVIOUS
<1>2. u \in Seq(S) /\ Len(u) = i - 1 /\ \A k \in 1 .. i - 1 : u[k] = s[k]
  BY <1>1
<1>3. v \in Seq(S) /\ Len(v) = Len(s) - i /\ \A k \in 1 .. Len(s) - i : v[k] = s[i + k]
  BY <1>1
<1> HIDE DEF u, v
<1>4. u \o v \in Seq(S) /\ Len(u \o v) = Len(s) - 1
  BY <1>1, <1>2, <1>3
<1>5. ASSUME NEW k \in 1 .. Len(s) - 1 PROVE (u \o v)[k] = IF k < i THEN s[k] ELSE s[k + 1]
  <2>1. CASE k < i
    BY <1>1, <1>2, <1>3, <2>1
  <2>2. CASE k >= i
    <3>1. (u \o v)[k] = v[k - (i - 1)]
      BY <1>1, <1>2, <1>3, <2>2, SMTT(30)
    <3>2. k - (i - 1) \in 1 .. Len(s) - i /\ i + (k - (i - 1)) = k + 1
      BY <1>1, <2>2
    <3>3. QED
      BY <1>3, <2>2, <3>1, <3>2
  <2>3. k \in Int /\ i \in Int
    BY <1>1
  <2>4. k < i \/ k >= i
    BY <2>3
  <2>5. QED
    BY <2>1, <2>2, <2>4
<1>6. RemoveAt(s, i) = u \o v
  BY DEF RemoveAt, u, v
<1>7. QED
  BY <1>4, <1>5, <1>6

LEMMA InsertAtIs ==
    ASSUME NEW S, NEW s \in Seq(S), NEW i \in 1 .. Len(s) + 1, NEW w \in S
    PROVE  /\ InsertAt(s, i, w) \in Seq(S) /\ Len(InsertAt(s, i, w)) = Len(s) + 1
           /\ \A k \in 1 .. i - 1 : InsertAt(s, i, w)[k] = s[k]
<1> DEFINE u == SubSeq(s, 1, i - 1)
           v == SubSeq(s, i, Len(s))
<1>1. Len(s) \in Nat
  OBVIOUS
<1>2. u \in Seq(S) /\ Len(u) = i - 1 /\ \A k \in 1 .. i - 1 : u[k] = s[k]
  BY <1>1
<1>3. v \in Seq(S) /\ Len(v) = Len(s) - i + 1
  BY <1>1
<1> HIDE DEF u, v
<1> DEFINE g == u \o <<w>>
<1>4. g \in Seq(S) /\ Len(g) = i /\ \A k \in 1 .. i - 1 : g[k] = s[k]
  BY <1>1, <1>2
<1>5. InsertAt(s, i, w) = g \o v
  BY Zenon DEF InsertAt, u, v
<1> HIDE DEF g
<1>6. g \o v \in Seq(S) /\ Len(g \o v) = Len(s) + 1
  BY <1>1, <1>3, <1>4
<1>7. \A k \in 1 .. i - 1 : (g \o v)[k] = g[k]
  BY <1>1, <1>3, <1>4
<1>8. QED
  BY <1>4, <1>5, <1>6, <1>7

\* Media that differ in what is wanted and restored only.
LEMMA WantsOnly ==
    ASSUME NEW m, NEW n \in Medias, n.active = m.active, n.els = m.els, n.preloaded = m.preloaded, n.tasks = m.tasks
    PROVE  /\ StillActive(n, m) /\ Preparing(n) = Preparing(m)
           /\ \A q : PreparedIn(m, q) => PreparedIn(n, q)
           /\ \A e : Untouched(m, e) => Untouched(n, e)
<1>1. Preparing(n) = Preparing(m) /\ \A f : Recovering(n, f) = Recovering(m, f)
  BY DEF Preparing, Recovering
<1>2. StillActive(n, m)
  BY <1>1 DEF StillActive, Looks
<1>3. ASSUME NEW q, PreparedIn(m, q) PROVE PreparedIn(n, q)
  BY <1>1, <1>3 DEF PreparedIn
<1>4. ASSUME NEW e, Untouched(m, e) PROVE Untouched(n, e)
  BY <1>1, <1>4 DEF Untouched
<1>5. QED
  BY <1>1, <1>2, <1>3, <1>4

\* A change of an element and of the tasks.
Changed(m, e, p, ts) == [m EXCEPT !.els[e] = p, !.tasks = ts]

LEMMA ElementTasks ==
    ASSUME NEW m \in Medias, NEW e \in Elements, NEW p \in Players, NEW ts \in SUBSET Tasks
    PROVE  LET n == Changed(m, e, p, ts)
           IN  /\ n \in Medias /\ n.active = m.active /\ n.preloaded = m.preloaded /\ n.tasks = ts
               /\ n.els[e] = p /\ \A f \in Elements : f # e => n.els[f] = m.els[f]
<1> DEFINE k == [m EXCEPT !.tasks = ts]
           n == [k EXCEPT !.els[e] = p]
<1>1. Changed(m, e, p, ts) = n
  BY DEF Medias, Changed
<1>2. k \in Medias /\ k.active = m.active /\ k.preloaded = m.preloaded /\ k.tasks = ts /\ k.els = m.els
  BY DEF Medias
<1> HIDE DEF k
<1>3. n \in Medias
  BY <1>2, MediaChanged
<1>4. n.active = k.active /\ n.preloaded = k.preloaded /\ n.tasks = k.tasks /\ n.els = [k.els EXCEPT ![e] = p]
  BY <1>2 DEF Medias
<1>5. m.els \in [Elements -> Players]
  BY MediaTyped
<1> HIDE DEF n
<1>6. n.els[e] = p /\ \A f \in Elements : f # e => n.els[f] = m.els[f]
  BY <1>2, <1>4, <1>5
<1>7. QED
  BY <1>1, <1>2, <1>3, <1>4, <1>6

-----------------------------------------------------------------------------
(* A recovery goes on.                                                     *)

\* What a recovery needs to go on: all that is asked of media but that something is under way for it.
MovesOn(m, t) ==
    LET p == m.els[m.active] IN
    /\ p.fb # None
    /\ p.inFlight => \E x \in Recovering(m, m.active) : x.fresh /\ x.same /\ x.kind \in {"range", "prepare"}
    /\ p.inFlight /\ t # None /\ p.fb.phase = "full" =>
         \E x \in Recovering(m, m.active) :
           x.fresh /\ x.same /\ (x.kind \in {"full", "prepareFull"} \/ (x.kind = "prepare" /\ x.complete))
GoesOnFrom(m, q, t) ==
    /\ m \in Medias /\ ShowsIn(m, t) /\ PreparedIn(m, q) /\ RecoversAlone(m)
    /\ StateInOrder(m, t) /\ TasksInOrder(m, t) /\ MovesOn(m, t)

LEMMA continueRecoveryFits ==
    ASSUME NEW m, NEW q, NEW t \in Tracks \cup {None}, GoesOnFrom(m, q, t)
    PROVE  Fits(continueRecovery(m, m.active, t), q, t)
<1> DEFINE e == m.active
           p == m.els[e]
           fb == p.fb
           n == continueRecovery(m, e, t)
<1>1. /\ m \in Medias /\ ShowsIn(m, t) /\ PreparedIn(m, q) /\ RecoversAlone(m)
      /\ StateInOrder(m, t) /\ TasksInOrder(m, t) /\ MovesOn(m, t)
  BY DEF GoesOnFrom
<1>2. e \in Elements /\ p \in Players /\ Other(e) \in Elements /\ Other(e) # e /\ m.tasks \in SUBSET Tasks
  BY <1>1, MediaTyped
<1>3. fb \in Fallbacks
  BY <1>1, <1>2 DEF MovesOn, Players
<1>4. ~Looks(m) /\ Untouched(m, Other(e))
  BY <1>1, <1>3 DEF RecoversAlone, Untouched, MovesOn
<1>5. t # None => fb.track = t
  BY <1>1 DEF StateInOrder, MovesOn
<1>6. p.terminal = None
  BY <1>1 DEF StateInOrder, MovesOn
<1>7. CASE p.inFlight \/ ~fb.live \/ t # fb.track
  <2>1. n = m
    BY <1>7 DEF continueRecovery
  <2>2. t # None /\ fb.live => p.inFlight
    BY <1>5, <1>7
  <2>3. MovesIn(m, t)
    BY <1>1, <2>2 DEF MovesOn, MovesIn
  <2>4. QED
    BY <1>1, <2>1, <2>3 DEF Fits
<1>8. CASE ~p.inFlight /\ fb.live /\ t = fb.track /\ fb.left > 0
  <2> DEFINE r == Task("range", e, t)
             u == [p EXCEPT !.inFlight = TRUE]
             ts == m.tasks \cup {r}
  <2>1. n = Changed(m, e, u, ts)
    BY <1>8 DEF continueRecovery, Changed
  <2>2. /\ r \in Tasks /\ r.kind = "range" /\ r.el = e /\ r.track = t /\ r.fresh /\ r.same /\ ~r.complete
    BY <1>2, <1>3, <1>8 DEF Task, Tasks, Fallbacks, Recovery
  <2>3. u \in Players /\ u.inFlight /\ u.src = p.src /\ u.fb = fb /\ u.terminal = p.terminal /\ u.over = p.over
        /\ u.attempted = p.attempted /\ u.origin = p.origin
    BY <1>2 DEF Players
  <2> HIDE DEF r, u
  <2>4. ts \in SUBSET Tasks
    BY <1>2, <2>2
  <2> HIDE DEF ts, n
  <2>5. /\ n \in Medias /\ n.active = e /\ n.preloaded = m.preloaded /\ n.tasks = ts
        /\ n.els[e] = u /\ n.els[Other(e)] = m.els[Other(e)]
    BY <1>1, <1>2, <2>1, <2>3, <2>4, ElementTasks
  <2>6. Recovering(n, e) = Recovering(m, e) \cup {r}
    BY <2>2, <2>5 DEF Recovering, Recovery, ts
  <2>7. Recovering(n, Other(e)) = Recovering(m, Other(e)) /\ Preparing(n) = Preparing(m)
    BY <1>2, <2>2, <2>5 DEF Recovering, Preparing, Preload, ts
  <2>8. ~Looks(n)
    BY <1>4, <2>2, <2>5 DEF Looks, ts
  <2>9. ShowsIn(n, t)
    BY <1>1, <2>3, <2>5 DEF ShowsIn
  <2>10. PreparedIn(n, q)
    BY <1>1, <1>2, <2>5, <2>7 DEF PreparedIn
  <2>11. RecoversAlone(n)
    BY <1>4, <2>5, <2>7, <2>8, SMTT(30) DEF RecoversAlone, Untouched
  <2>12. fb # None /\ fb.phase = "range"
    <3>1. fb.phase = "full" => fb.left <= 0
      BY <1>1, <1>3 DEF StateInOrder, MovesOn
    <3>2. fb.left \in Int /\ fb.phase \in {"range", "full"}
      BY <1>3, SMTT(30) DEF Fallbacks
    <3>3. QED
      BY <1>1, <1>8, <3>1, <3>2 DEF MovesOn
  <2>13. StateInOrder(n, t)
    BY <1>1, <1>6, <1>8, <2>3, <2>5, <2>12, SMTT(30) DEF StateInOrder, Loaded
  <2>14. ASSUME NEW y \in Recovering(m, e), y.fresh, y.same, y.kind \in {"range", "prepare"} PROVE FALSE
    BY <1>1, <1>8, <2>12, <2>14 DEF TasksInOrder
  <2>15. TasksInOrder(n, t)
    <3> SUFFICES ASSUME NEW x \in Recovering(n, e)
                 PROVE  /\ x.fresh => (t # None => x.track = t) /\ (~x.same => u.terminal # None)
                        /\ x.fresh /\ x.kind = "range" => u.fb # None /\ u.fb.phase = "range" /\ u.inFlight
                        /\ x.fresh /\ x.same /\ x.kind = "prepare" => u.fb = None \/ u.inFlight
                        /\ x.fresh /\ x.kind \in {"full", "prepareFull"} => u.fb = None \/ u.fb.phase = "full"
                        /\ x.same /\ x.kind = "prepare" /\ x.complete => u.fb = None \/ u.fb.phase = "full"
                        /\ x.kind = "prepareFull" => x.complete
                        /\ x.fresh /\ x.same /\ x.kind \in {"range", "prepare"} =>
                             \A y \in Recovering(n, e) : y.fresh /\ y.same /\ y.kind \in {"range", "prepare"} => y = x
      BY <2>5 DEF TasksInOrder
    <3>1. CASE x = r
      BY <2>2, <2>3, <2>6, <2>12, <2>14, <3>1
    <3>2. CASE x \in Recovering(m, e)
      <4>1. ~(x.fresh /\ x.same /\ x.kind \in {"range", "prepare"})
        BY <2>14, <3>2
      <4>2. QED
        BY <1>1, <2>3, <2>12, <3>2, <4>1 DEF TasksInOrder
    <3>3. QED
      BY <2>6, <3>1, <3>2
  <2>16. MovesIn(n, t)
    BY <2>2, <2>3, <2>5, <2>6, <2>12 DEF MovesIn
  <2>17. QED
    BY <2>5, <2>9, <2>10, <2>11, <2>13, <2>15, <2>16 DEF Fits, n
<1>9. CASE ~p.inFlight /\ fb.live /\ t = fb.track /\ ~(fb.left > 0)
  <2> DEFINE r == Task("full", e, t)
             gb == [fb EXCEPT !.phase = "full"]
             u == [p EXCEPT !.fb = gb]
             ts == m.tasks \cup {r}
  <2>1. n = Changed(m, e, u, ts)
    BY <1>9 DEF continueRecovery, Changed
  <2>2. /\ r \in Tasks /\ r.kind = "full" /\ r.el = e /\ r.track = t /\ r.fresh /\ r.same /\ ~r.complete
    BY <1>2, <1>3, <1>9 DEF Task, Tasks, Fallbacks, Recovery
  <2>3. gb \in Fallbacks /\ gb.phase = "full" /\ gb.track = t /\ gb.left = fb.left /\ gb.live
    BY <1>3, <1>9 DEF Fallbacks
  <2> HIDE DEF r, gb
  <2>4. u \in Players /\ ~u.inFlight /\ u.src = p.src /\ u.fb = gb /\ u.terminal = p.terminal /\ u.over = p.over
        /\ u.attempted = p.attempted /\ u.origin = p.origin
    BY <1>2, <1>9, <2>3 DEF Players
  <2> HIDE DEF u
  <2>5. ts \in SUBSET Tasks
    BY <1>2, <2>2
  <2> HIDE DEF ts, n
  <2>6. /\ n \in Medias /\ n.active = e /\ n.preloaded = m.preloaded /\ n.tasks = ts
        /\ n.els[e] = u /\ n.els[Other(e)] = m.els[Other(e)]
    BY <1>1, <1>2, <2>1, <2>4, <2>5, ElementTasks
  <2>7. Recovering(n, e) = Recovering(m, e) \cup {r}
    BY <2>2, <2>6 DEF Recovering, Recovery, ts
  <2>8. Recovering(n, Other(e)) = Recovering(m, Other(e)) /\ Preparing(n) = Preparing(m)
    BY <1>2, <2>2, <2>6 DEF Recovering, Preparing, Preload, ts
  <2>9. ~Looks(n)
    BY <1>4, <2>2, <2>6 DEF Looks, ts
  <2>10. ShowsIn(n, t)
    BY <1>1, <2>4, <2>6 DEF ShowsIn
  <2>11. PreparedIn(n, q)
    BY <1>1, <1>2, <2>6, <2>8 DEF PreparedIn
  <2>12. RecoversAlone(n)
    BY <1>4, <2>6, <2>8, <2>9 DEF RecoversAlone, Untouched
  <2>13. fb # None /\ gb # None /\ gb.left <= 0
    <3>1. fb.left \in Int
      BY <1>3 DEF Fallbacks
    <3>2. gb # None
      BY <2>3, PlayerAssumption, SMTT(30)
    <3>3. QED
      BY <1>1, <1>9, <2>3, <3>1, <3>2 DEF MovesOn
  <2>14. StateInOrder(n, t)
    BY <1>1, <1>6, <1>9, <2>3, <2>4, <2>6, <2>13, SMTT(30) DEF StateInOrder, Loaded
  <2>15. ASSUME NEW y \in Recovering(m, e), y.fresh, y.same, y.kind \in {"range", "prepare"} PROVE FALSE
    BY <1>1, <1>9, <2>13, <2>15 DEF TasksInOrder
  <2>16. TasksInOrder(n, t)
    <3> SUFFICES ASSUME NEW x \in Recovering(n, e)
                 PROVE  /\ x.fresh => (t # None => x.track = t) /\ (~x.same => u.terminal # None)
                        /\ x.fresh /\ x.kind = "range" => u.fb # None /\ u.fb.phase = "range" /\ u.inFlight
                        /\ x.fresh /\ x.same /\ x.kind = "prepare" => u.fb = None \/ u.inFlight
                        /\ x.fresh /\ x.kind \in {"full", "prepareFull"} => u.fb = None \/ u.fb.phase = "full"
                        /\ x.same /\ x.kind = "prepare" /\ x.complete => u.fb = None \/ u.fb.phase = "full"
                        /\ x.kind = "prepareFull" => x.complete
                        /\ x.fresh /\ x.same /\ x.kind \in {"range", "prepare"} =>
                             \A y \in Recovering(n, e) : y.fresh /\ y.same /\ y.kind \in {"range", "prepare"} => y = x
      BY <2>6 DEF TasksInOrder
    <3>1. CASE x = r
      BY <2>2, <2>3, <2>4, <3>1, SMTT(30)
    <3>2. CASE x \in Recovering(m, e)
      <4>1. ~(x.fresh /\ x.same /\ x.kind \in {"range", "prepare"})
        BY <2>15, <3>2
      <4>2. QED
        BY <1>1, <1>9, <2>3, <2>4, <2>13, <3>2, <4>1 DEF TasksInOrder
    <3>3. QED
      BY <2>7, <3>1, <3>2
  <2>17. MovesIn(n, t)
    BY <2>2, <2>3, <2>4, <2>6, <2>7, <2>13 DEF MovesIn
  <2>18. QED
    BY <2>6, <2>10, <2>11, <2>12, <2>14, <2>16, <2>17 DEF Fits, n
<1>10. QED
  BY <1>7, <1>8, <1>9

-----------------------------------------------------------------------------
(* The rest of the user's steps.                                           *)

LEMMA playNextKeeps ==
    ASSUME Rest, Fits(media, queue, current), NEW t \in Tracks, playNext(t)
    PROVE  IInv'
<1> DEFINE at == Place(t)
           rest == IF at = 0 THEN queue ELSE RemoveAt(queue, at)
           cursor == IF at # 0 /\ at < index THEN index - 1 ELSE index
           n == invalidatePreload(media)
<1>1. /\ hasTrack /\ at # index /\ queue' = InsertAt(rest, cursor + 1, t) /\ index' = cursor
      /\ media' = n /\ UNCHANGED <<playMode, order, playing>>
  BY DEF playNext
<1> HIDE DEF at
<1>2. /\ queue \in Seq(Tracks) /\ index \in 1 .. Len(queue) /\ order \in Seq(Nat) /\ Len(queue) \in Nat
      /\ playMode \in {"sequential", "single", "shuffle"} /\ playing \in BOOLEAN /\ current = queue[index]
  BY <1>1 DEF Rest, hasTrack, current
<1>3. at \in 0 .. Len(queue)
  <2>1. at = PlaceIn(queue, t)
    BY DEF at, Place, PlaceIn
  <2>2. QED
    BY <1>2, <2>1, SelectedIsThere
<1>4. rest \in Seq(Tracks) /\ cursor \in 1 .. Len(rest) /\ rest[cursor] = queue[index]
  <2>1. CASE at = 0
    BY <1>2, <2>1
  <2>2. CASE at # 0
    <3>1. at \in DOMAIN queue
      BY <1>2, <1>3, <2>2
    <3>2. /\ RemoveAt(queue, at) \in Seq(Tracks) /\ Len(RemoveAt(queue, at)) = Len(queue) - 1
          /\ \A k \in 1 .. Len(queue) - 1 : RemoveAt(queue, at)[k] = IF k < at THEN queue[k] ELSE queue[k + 1]
      BY <1>2, <3>1, RemoveAtIs
    <3>3. cursor \in 1 .. Len(queue) - 1 /\ (IF cursor < at THEN queue[cursor] ELSE queue[cursor + 1]) = queue[index]
      BY <1>1, <1>2, <1>3, <2>2
    <3>4. QED
      BY <2>2, <3>2, <3>3
  <2>3. QED
    BY <2>1, <2>2
<1> HIDE DEF rest, cursor
<1>5. /\ queue' \in Seq(Tracks) /\ Len(queue') = Len(rest) + 1
      /\ \A k \in 1 .. cursor : queue'[k] = rest[k]
  <2>1. cursor + 1 \in 1 .. Len(rest) + 1 /\ (cursor + 1) - 1 = cursor
    BY <1>4
  <2>2. /\ InsertAt(rest, cursor + 1, t) \in Seq(Tracks) /\ Len(InsertAt(rest, cursor + 1, t)) = Len(rest) + 1
        /\ \A k \in 1 .. (cursor + 1) - 1 : InsertAt(rest, cursor + 1, t)[k] = rest[k]
    BY <1>4, <2>1, InsertAtIs
  <2>3. QED
    BY <1>1, <2>1, <2>2
<1>6. index' \in DOMAIN queue' /\ queue'[index'] = current
  BY <1>1, <1>2, <1>4, <1>5
<1>7. Fits(n, queue', current)
  BY InvalidatedFits
<1> HIDE DEF n
<1>8. QED
  BY <1>1, <1>2, <1>5, <1>6, <1>7, GoesOn

LEMMA clearKeeps ==
    ASSUME Rest, Fits(media, queue, current), clear
    PROVE  IInv'
<1> DEFINE j == invalidatePreload(media)
           k == Cleared(j, "A")
           l == Cleared(k, "B")
           n == [l EXCEPT !.restore = None]
<1>1. queue' = <<>> /\ index' = 0 /\ playing' = FALSE /\ media' = n /\ UNCHANGED <<playMode, order>>
  BY DEF clear
<1>2. Fits(j, <<>>, current) /\ Preparing(j) = {} /\ j.preloaded = None
  BY InvalidatedFits
<1>3. j \in Medias
  BY <1>2 DEF Fits
<1> HIDE DEF j
<1>4. k \in Medias /\ k.preloaded = j.preloaded
  BY <1>3, ClearedIs DEF Elements
<1>5. /\ Untouched(k, "A") /\ \A x \in Preparing(k) : \E y \in Preparing(j) : y.el = x.el
  BY <1>3, ClearedFrees DEF Elements
<1> HIDE DEF k
<1>6. l \in Medias /\ l.preloaded = k.preloaded
  BY <1>4, ClearedIs DEF Elements
<1>7. /\ Untouched(l, "B") /\ Recovering(l, "A") = Recovering(k, "A") /\ l.els["A"] = k.els["A"]
      /\ \A x \in Preparing(l) : \E y \in Preparing(k) : y.el = x.el
  BY <1>4, ClearedFrees DEF Elements
<1>8. Untouched(l, "A")
  BY <1>5, <1>7 DEF Untouched
<1> HIDE DEF l
<1>9. n \in Medias /\ n.active = l.active /\ n.els = l.els /\ n.preloaded = l.preloaded /\ n.tasks = l.tasks
  BY <1>6 DEF Medias
<1>10. Preparing(n) = {} /\ n.preloaded = None
  BY <1>2, <1>4, <1>5, <1>6, <1>7, <1>9 DEF Preparing
<1>11. \A e \in Elements : Untouched(n, e)
  BY <1>7, <1>8, <1>9 DEF Untouched, Recovering, Elements
<1>12. n.active \in Elements /\ Other(n.active) \in Elements
  BY <1>9, MediaTyped
<1> HIDE DEF n
<1>13. PreparedIn(n, <<>>)
  BY <1>10, PreparedForNone
<1>14. Starts(n, <<>>, None)
  BY <1>9, <1>11, <1>12, <1>13 DEF Starts, ShowsIn
<1>15. Fits(n, <<>>, None)
  BY <1>14, StartsFit
<1>16. playMode \in {"sequential", "single", "shuffle"} /\ order \in Seq(Nat)
  BY DEF Rest
<1>17. QED
  BY <1>1, <1>15, <1>16, GoesIdle

LEMMA removeAtKeeps ==
    ASSUME Rest, Fits(media, queue, current), NEW i \in DOMAIN queue, removeAt(i)
    PROVE  IInv'
<1> DEFINE q == RemoveAt(queue, i)
           m == invalidatePreload(media)
           cur == IF i < index THEN index - 1 ELSE index
           p == SelectInSeq(order, LAMBDA x : x = i)
           kept == IF p = 0 THEN order ELSE RemoveAt(order, p)
           shorter == [k \in DOMAIN kept |-> IF kept[k] > i THEN kept[k] - 1 ELSE kept[k]]
<1>1. /\ queue' = q /\ order' = shorter /\ playMode' = playMode
      /\ \/ i = index /\ playAt(m, q, IF i > Len(q) THEN 1 ELSE i, cur, playing)
         \/ i # index /\ index' = cur /\ media' = m /\ UNCHANGED playing
      /\ Len(queue) > 1
  BY DEF removeAt
<1> HIDE DEF p
<1>2. /\ queue \in Seq(Tracks) /\ index \in 0 .. Len(queue) /\ order \in Seq(Nat) /\ Len(queue) \in Nat
      /\ playMode \in {"sequential", "single", "shuffle"} /\ playing \in BOOLEAN /\ index # 0
  BY DEF Rest, TrackUnlessEmpty, hasTrack
<1>3. i \in 1 .. Len(queue) /\ index \in 1 .. Len(queue) /\ current = queue[index]
  BY <1>2 DEF current
<1>4. /\ q \in Seq(Tracks) /\ Len(q) = Len(queue) - 1
      /\ \A k \in 1 .. Len(queue) - 1 : q[k] = IF k < i THEN queue[k] ELSE queue[k + 1]
  BY <1>2, RemoveAtIs
<1>5. order' \in Seq(Nat)
  <2>1. p \in 0 .. Len(order)
    <3>1. p = PlaceIn(order, i)
      BY DEF p, PlaceIn
    <3>2. QED
      BY <1>2, <3>1, SelectedIsThere
  <2>2. kept \in Seq(Nat)
    <3>1. CASE p = 0
      BY <1>2, <3>1
    <3>2. CASE p # 0
      <4>1. p \in DOMAIN order
        BY <1>2, <2>1, <3>2
      <4>2. RemoveAt(order, p) \in Seq(Nat)
        BY <1>2, <4>1, RemoveAtIs
      <4>3. QED
        BY <3>2, <4>2
    <3>3. QED
      BY <3>1, <3>2
  <2> HIDE DEF kept
  <2>3. \A k \in DOMAIN kept : (IF kept[k] > i THEN kept[k] - 1 ELSE kept[k]) \in Nat
    BY <1>3, <2>2
  <2>4. shorter \in Seq(Nat)
    BY <2>2, <2>3, SMTT(30)
  <2> HIDE DEF shorter
  <2>5. QED
    BY <1>1, <2>4
<1> HIDE DEF kept, shorter, q
<1>6. Fits(m, q, current)
  BY InvalidatedFits
<1> HIDE DEF m
<1>7. CASE i = index /\ playAt(m, q, IF i > Len(q) THEN 1 ELSE i, cur, playing)
  <2> DEFINE k == IF i > Len(q) THEN 1 ELSE i
  <2>1. k \in DOMAIN q
    BY <1>1, <1>2, <1>3, <1>4
  <2>2. m \in Medias /\ PreparedIn(m, q) /\ Untouched(m, Other(m.active))
    BY <1>6 DEF Fits, RecoversAlone
  <2> HIDE DEF cur, k
  <2>3. playAt(m, q, k, cur, playing)
    BY <1>7 DEF k
  <2>4. index' = k /\ Fits(media', q, q[k]) /\ playing' \in BOOLEAN
    BY <1>2, <1>4, <2>1, <2>2, <2>3, playAtFits
  <2>5. QED
    BY <1>1, <1>2, <1>4, <1>5, <2>1, <2>4, GoesOn
<1>8. CASE i # index /\ index' = cur /\ media' = m /\ UNCHANGED playing
  <2>1. cur \in 1 .. Len(q) /\ q[cur] = current
    <3>1. cur \in 1 .. Len(queue) - 1
      BY <1>2, <1>3, <1>8
    <3>2. (IF cur < i THEN queue[cur] ELSE queue[cur + 1]) = queue[index]
      BY <1>2, <1>3, <1>8
    <3> HIDE DEF cur
    <3>3. QED
      BY <1>3, <1>4, <3>1, <3>2
  <2> HIDE DEF cur
  <2>2. index' \in DOMAIN queue' /\ queue'[index'] = current
    BY <1>1, <1>4, <1>8, <2>1
  <2>3. QED
    BY <1>1, <1>2, <1>4, <1>5, <1>6, <1>8, <2>2, GoesOn
<1>9. QED
  BY <1>1, <1>7, <1>8

LEMMA cyclePlayModeKeeps ==
    ASSUME Rest, Fits(media, queue, current), cyclePlayMode
    PROVE  IInv'
<1>1. /\ playMode' \in {"sequential", "single", "shuffle"}
      /\ order' \in Perms(Len(queue)) \/ order' = <<>>
      /\ UNCHANGED <<queue, index, playing, media>>
  BY DEF cyclePlayMode, Rest
<1>2. queue \in Seq(Tracks) /\ playing \in BOOLEAN
  BY DEF Rest
<1>3. order' \in Seq(Nat)
  <2>1. queue \in Seq(Tracks)
    BY DEF Rest
  <2>2. Len(queue) \in Nat
    BY <2>1
  <2>3. \A p \in Perms(Len(queue)) : p \in Seq(Nat)
    BY <2>2, PermsTyped
  <2>4. <<>> \in Seq(Nat)
    OBVIOUS
  <2>5. QED
    BY <1>1, <2>3, <2>4
<1>4. QED
  BY <1>1, <1>2, <1>3, StaysInPlace

LEMMA ReloadKeeps ==
    ASSUME Rest, Fits(media, queue, current), Reload
    PROVE  IInv'
<1> DEFINE at == IF current \in Positions THEN current ELSE None
           n == [Blank EXCEPT !.restore = at]
<1>1. /\ media' = n /\ playing' = FALSE /\ order' = <<>> /\ UNCHANGED <<queue, index, playMode>>
  BY DEF Reload
<1>2. at \in Positions \cup {None}
  OBVIOUS
<1> HIDE DEF at
<1>3. /\ n.active = "A" /\ n.preloaded = None /\ n.tasks = {} /\ \A e \in Elements : n.els[e] = NewElement
      /\ n \in Medias
  BY <1>2, NewElementTyped DEF Blank, Medias, Elements
<1> HIDE DEF n
<1>4. Preparing(n) = {} /\ \A f : Recovering(n, f) = {}
  BY <1>3 DEF Preparing, Recovering
<1>5. \A e \in Elements : Untouched(n, e)
  BY <1>3, <1>4 DEF Untouched, NewElement, NoSrc
<1>6. PreparedIn(n, queue)
  BY <1>3, <1>4, PreparedForNone
<1>7. ShowsIn(n, current)
  BY <1>3 DEF ShowsIn, NewElement, Elements
<1>8. Starts(n, queue, current)
  BY <1>3, <1>5, <1>6, <1>7 DEF Starts, Elements, Other
<1>9. Fits(n, queue, current)
  BY <1>8, StartsFit
<1>10. playMode \in {"sequential", "single", "shuffle"}
  BY DEF Rest
<1>11. QED
  <2>1. playMode' \in {"sequential", "single", "shuffle"} /\ playing' \in BOOLEAN
    BY <1>1, <1>10
  <2>2. order' \in Seq(Nat)
    BY <1>1
  <2>3. Fits(media', queue, current)
    BY <1>1, <1>9
  <2>4. QED
    BY <1>1, <2>1, <2>2, <2>3, StaysInPlace

LEMMA QualityChangesKeeps ==
    ASSUME Rest, Fits(media, queue, current), QualityChanges
    PROVE  IInv'
<1> DEFINE j == invalidatePreload(media)
           n == [j EXCEPT !.tasks = Outdate(@, Elements, {"lookup"})]
           at == IF current \in Positions THEN current ELSE None
           k == [n EXCEPT !.want = playing, !.restore = at]
           l == loadCurrent(k, queue, index)
<1>1. /\ UNCHANGED <<queue, index, playMode, order>>
      /\ \/ media' = n /\ UNCHANGED playing
         \/ hasTrack /\ media' = l /\ playing' = (playing \/ Sounds(l))
  BY DEF QualityChanges
<1>2. /\ playing \in BOOLEAN /\ queue \in Seq(Tracks) /\ order \in Seq(Nat) /\ playMode \in {"sequential", "single", "shuffle"}
  BY DEF Rest
<1>3. Fits(j, queue, current) /\ Preparing(j) = {} /\ j.preloaded = None
  BY InvalidatedFits
<1>4. j \in Medias /\ Untouched(j, Other(j.active))
  BY <1>3 DEF Fits, RecoversAlone
<1> HIDE DEF j
<1>5. /\ n \in Medias /\ n.active = j.active /\ n.els = j.els /\ n.preloaded = j.preloaded
      /\ n.tasks = Outdate(j.tasks, Elements, {"lookup"})
  <2>1. Outdate(j.tasks, Elements, {"lookup"}) \in SUBSET Tasks
    BY <1>4, Outdates DEF Medias
  <2>2. QED
    BY <1>4, <2>1 DEF Medias
<1> HIDE DEF n
<1>6. ASSUME NEW f PROVE Recovering(n, f) = Recovering(j, f)
  <2>1. {"lookup"} \cap Recovery = {}
    BY DEF Recovery
  <2>2. QED
    BY <1>4, <1>5, <2>1, OutdatesNone
<1>7. Looks(n) => Looks(j)
  BY <1>4, <1>5, OutdatesLooks
<1>8. \A x \in Preparing(n) : x \in Preparing(j)
  BY <1>4, <1>5, OutdatesPreparing
<1>9. PreparedIn(n, queue)
  BY <1>3, <1>5, <1>8, PreparedForNone
<1>10. Untouched(n, Other(j.active)) /\ StillActive(n, j)
  BY <1>4, <1>5, <1>6, <1>7 DEF Untouched, StillActive
<1>11. Fits(n, queue, current)
  BY <1>3, <1>5, <1>9, <1>10, StillFits
<1>12. CASE media' = n /\ UNCHANGED playing
  BY <1>1, <1>2, <1>11, <1>12, StaysInPlace
<1>13. CASE hasTrack /\ media' = l /\ playing' = (playing \/ Sounds(l))
  <2>1. k = [n EXCEPT !.restore = at, !.want = playing]
    BY <1>5 DEF Medias
  <2>2. at \in Positions \cup {None}
    OBVIOUS
  <2> HIDE DEF at, k
  <2>3. k \in Medias /\ PreparedIn(k, queue) /\ Untouched(k, Other(k.active))
    BY <1>2, <1>5, <1>9, <1>10, <2>1, <2>2, WantsFit
  <2>4. index \in DOMAIN queue /\ current = queue[index]
    BY <1>13 DEF hasTrack, current
  <2>5. Starts(l, queue, current)
    BY <1>2, <2>3, <2>4, loadCurrentStarts
  <2>6. Fits(l, queue, current)
    BY <2>5, StartsFit
  <2>7. playing' \in BOOLEAN
    BY <1>2, <1>13 DEF Sounds
  <2> HIDE DEF l
  <2>8. QED
    BY <1>1, <1>2, <1>13, <2>6, <2>7, StaysInPlace
<1>14. QED
  BY <1>1, <1>12, <1>13

-----------------------------------------------------------------------------
(* A pause, and what it has halted goes on.                                *)

\* A change of one element only.
With(m, e, p) == [m EXCEPT !.els[e] = p]

LEMMA WithElement ==
    ASSUME NEW m \in Medias, NEW e \in Elements, NEW p \in Players
    PROVE  LET n == With(m, e, p)
           IN  /\ n \in Medias /\ n.active = m.active /\ n.preloaded = m.preloaded /\ n.tasks = m.tasks
               /\ n.els[e] = p /\ (\A f \in Elements : f # e => n.els[f] = m.els[f])
               /\ Preparing(n) = Preparing(m) /\ \A f : Recovering(n, f) = Recovering(m, f)
<1> DEFINE n == With(m, e, p)
<1>1. n \in Medias
  BY MediaChanged DEF With
<1>2. n.active = m.active /\ n.preloaded = m.preloaded /\ n.tasks = m.tasks /\ n.els = [m.els EXCEPT ![e] = p]
  BY DEF Medias, With
<1>3. m.els \in [Elements -> Players]
  BY MediaTyped
<1> HIDE DEF n
<1>4. n.els[e] = p /\ \A f \in Elements : f # e => n.els[f] = m.els[f]
  BY <1>2, <1>3
<1>5. Preparing(n) = Preparing(m) /\ \A f : Recovering(n, f) = Recovering(m, f)
  BY <1>2 DEF Preparing, Recovering
<1>6. QED
  BY <1>1, <1>2, <1>4, <1>5 DEF n

LEMMA WithLooks ==
    ASSUME NEW m, NEW n, n.tasks = m.tasks
    PROVE  Looks(n) => Looks(m)
BY DEF Looks

\* A halted recovery has nothing fresh under way.
LEMMA HaltedFits ==
    ASSUME NEW m, NEW q, NEW t, Fits(m, q, t)
    PROVE  Fits(abortFallbackWork(m, m.active), q, t)
<1> DEFINE e == m.active
           p == m.els[e]
           n == abortFallbackWork(m, e)
           u == Halted(p)
<1>1. /\ m \in Medias /\ ShowsIn(m, t) /\ PreparedIn(m, q) /\ RecoversAlone(m)
      /\ StateInOrder(m, t) /\ TasksInOrder(m, t) /\ MovesIn(m, t)
  BY DEF Fits
<1>2. /\ e \in Elements /\ p \in Players /\ Other(e) \in Elements /\ Other(e) # e
      /\ m.tasks \in SUBSET Tasks /\ m.els \in [Elements -> Players]
  BY <1>1, MediaTyped
<1>3. /\ n \in Medias /\ n.active = e /\ n.preloaded = m.preloaded
      /\ n.tasks = Outdate(m.tasks, {e}, Recovery) /\ n.els = [m.els EXCEPT ![e] = u]
  BY <1>1, <1>2, abortFallbackWorkIs
<1>4. n.els[e] = u /\ n.els[Other(e)] = m.els[Other(e)]
  BY <1>2, <1>3
<1>5. /\ ~u.inFlight /\ u.src = p.src /\ u.terminal = p.terminal /\ u.over = p.over
      /\ u.attempted = p.attempted /\ u.origin = p.origin /\ (u.fb = None <=> p.fb = None)
      /\ u.fb # None => u.fb.track = p.fb.track /\ u.fb.phase = p.fb.phase /\ u.fb.left = p.fb.left /\ ~u.fb.live
  <2>1. CASE p.fb = None
    BY <1>2, <2>1 DEF Halted, Aborted, Players
  <2>2. CASE p.fb # None
    <3>1. p.fb \in Fallbacks
      BY <1>2, <2>2 DEF Players
    <3>2. Aborted(p.fb) = [p.fb EXCEPT !.live = FALSE]
      BY <2>2 DEF Aborted
    <3>3. Aborted(p.fb) \in Fallbacks
      BY <3>1, <3>2 DEF Fallbacks
    <3>4. Aborted(p.fb) # None
      BY <3>3, PlayerAssumption
    <3>5. Aborted(p.fb).track = p.fb.track /\ Aborted(p.fb).phase = p.fb.phase /\ Aborted(p.fb).left = p.fb.left /\ ~Aborted(p.fb).live
      BY <3>1, <3>2 DEF Fallbacks
    <3>6. u = [p EXCEPT !.inFlight = FALSE, !.fb = Aborted(p.fb)]
      BY DEF Halted
    <3>7. /\ ~u.inFlight /\ u.src = p.src /\ u.terminal = p.terminal /\ u.over = p.over
          /\ u.attempted = p.attempted /\ u.origin = p.origin /\ u.fb = Aborted(p.fb)
      BY <1>2, <3>6 DEF Players
    <3>8. QED
      BY <2>2, <3>4, <3>5, <3>7
  <2>3. QED
    BY <2>1, <2>2
<1> HIDE DEF n, u
<1>6. ASSUME NEW x \in Recovering(n, e)
      PROVE  /\ ~x.fresh /\ x.same
             /\ \E y \in Recovering(m, e) : y.kind = x.kind /\ y.same = x.same /\ y.complete = x.complete
  <2>1. x \in Outdate(m.tasks, {e}, Recovery) /\ x.el = e /\ x.kind \in Recovery /\ (x.fresh \/ x.same)
    BY <1>3 DEF Recovering
  <2>2. ~x.fresh /\ \E y \in m.tasks : y.el = e /\ y.kind = x.kind /\ y.same = x.same /\ y.complete = x.complete
    <3>1. m.tasks \in SUBSET Tasks
      BY <1>2
    <3>2. QED
      BY ONLY <2>1, <3>1, OutdatesRecovery, SMTT(30)
  <2>3. QED
    BY <2>1, <2>2 DEF Recovering
<1>7. Recovering(n, Other(e)) = Recovering(m, Other(e))
  <2>1. Other(e) \notin {e}
    BY <1>2
  <2>2. QED
    BY <1>1, <1>3, <2>1, OutdatesNone
<1>8. \A x \in Preparing(n) : x \in Preparing(m)
  BY <1>1, <1>3, OutdatesPreparing
<1>9. Looks(n) => Looks(m)
  BY <1>1, <1>3, OutdatesLooks
<1>10. ShowsIn(n, t)
  BY <1>1, <1>3, <1>4, <1>5 DEF ShowsIn
<1>11. PreparedIn(n, q)
  BY <1>1, <1>3, <1>4, <1>8 DEF PreparedIn
<1>12. RecoversAlone(n)
  <2>1. Untouched(n, Other(e))
    BY <1>1, <1>4, <1>7 DEF RecoversAlone, Untouched
  <2>2. Looks(n) => Untouched(m, e)
    BY <1>1, <1>9 DEF RecoversAlone
  <2>3. Untouched(m, e) => Untouched(n, e)
    BY <1>4, <1>5, <1>6 DEF Untouched
  <2>4. QED
    BY <1>3, <2>1, <2>2, <2>3 DEF RecoversAlone
<1>13. StateInOrder(n, t)
  <2>1. Recovering(m, e) = {} => Recovering(n, e) = {}
    BY <1>6
  <2>2. QED
    BY <1>1, <1>3, <1>4, <1>5, <2>1 DEF StateInOrder, Loaded
<1>14. TasksInOrder(n, t)
  <2>1. \A y \in Recovering(m, e) : /\ y.same /\ y.kind = "prepare" /\ y.complete => p.fb = None \/ p.fb.phase = "full"
                                    /\ y.kind = "prepareFull" => y.complete
    BY <1>1 DEF TasksInOrder
  <2>2. \A x \in Recovering(n, e) : /\ ~x.fresh
                                    /\ x.same /\ x.kind = "prepare" /\ x.complete => u.fb = None \/ u.fb.phase = "full"
                                    /\ x.kind = "prepareFull" => x.complete
    BY <1>5, <1>6, <2>1
  <2>3. QED
    BY <1>3, <1>4, <2>2 DEF TasksInOrder
<1>15. MovesIn(n, t)
  BY <1>3, <1>4, <1>5 DEF MovesIn
<1>16. QED
  BY <1>3, <1>10, <1>11, <1>12, <1>13, <1>14, <1>15 DEF Fits, n

LEMMA ResumedFits ==
    ASSUME NEW m, NEW q, Fits(m, q, current), current \in Tracks \cup {None}
    PROVE  Fits(Resumed(m), q, current)
<1> DEFINE e == m.active
           p == m.els[e]
           fb == p.fb
           gb == [fb EXCEPT !.live = TRUE, !.play = TRUE]
           u == [p EXCEPT !.fb = gb]
           k == With(m, e, u)
           t == current
<1>1. /\ m \in Medias /\ ShowsIn(m, t) /\ PreparedIn(m, q) /\ RecoversAlone(m)
      /\ StateInOrder(m, t) /\ TasksInOrder(m, t) /\ MovesIn(m, t)
  BY DEF Fits
<1>2. /\ e \in Elements /\ p \in Players /\ Other(e) \in Elements /\ Other(e) # e
  BY <1>1, MediaTyped
<1>3. CASE fb = None \/ fb.live
  BY <1>3 DEF Resumed
<1>4. CASE fb # None /\ ~fb.live
  <2>1. Resumed(m) = continueRecovery(k, e, t)
    BY <1>4, Zenon DEF Resumed, With
  <2>2. fb \in Fallbacks
    BY <1>2, <1>4 DEF Players
  <2>3. gb \in Fallbacks /\ gb.track = fb.track /\ gb.phase = fb.phase /\ gb.left = fb.left /\ gb.live
    BY <2>2 DEF Fallbacks
  <2>4. gb # None
    BY <2>3, PlayerAssumption
  <2> HIDE DEF gb
  <2>5. u \in Players /\ u.inFlight = p.inFlight /\ u.src = p.src /\ u.fb = gb /\ u.terminal = p.terminal
        /\ u.over = p.over /\ u.attempted = p.attempted /\ u.origin = p.origin
    BY <1>2, <2>3 DEF Players
  <2> HIDE DEF u
  <2>6. /\ k \in Medias /\ k.active = e /\ k.preloaded = m.preloaded /\ k.tasks = m.tasks
        /\ k.els[e] = u /\ k.els[Other(e)] = m.els[Other(e)]
        /\ Preparing(k) = Preparing(m) /\ \A f : Recovering(k, f) = Recovering(m, f)
    BY <1>1, <1>2, <2>5, WithElement
  <2> HIDE DEF k
  <2>7. ~p.inFlight /\ p.terminal = None
    BY <1>1, <1>4 DEF StateInOrder
  <2>8. ShowsIn(k, t)
    BY <1>1, <2>5, <2>6 DEF ShowsIn
  <2>9. PreparedIn(k, q)
    BY <1>1, <1>2, <2>6 DEF PreparedIn
  <2>10. ~Looks(k) /\ Untouched(k, Other(e))
    <3>1. ~Looks(m)
      BY <1>1, <1>4 DEF RecoversAlone, Untouched
    <3>2. ~Looks(k)
      BY <2>6, <3>1, WithLooks
    <3>3. Untouched(k, Other(e))
      BY <1>1, <2>6 DEF RecoversAlone, Untouched
    <3>4. QED
      BY <3>2, <3>3
  <2>11. RecoversAlone(k)
    BY <2>6, <2>10 DEF RecoversAlone
  <2>12. StateInOrder(k, t)
    BY <1>1, <1>4, <2>3, <2>4, <2>5, <2>6, <2>7 DEF StateInOrder, Loaded
  <2>13. TasksInOrder(k, t)
    BY <1>1, <1>4, <2>3, <2>4, <2>5, <2>6 DEF TasksInOrder
  <2>14. MovesOn(k, t)
    BY <2>4, <2>5, <2>6, <2>7 DEF MovesOn
  <2>15. GoesOnFrom(k, q, t)
    BY <2>6, <2>8, <2>9, <2>11, <2>12, <2>13, <2>14 DEF GoesOnFrom
  <2>16. Fits(continueRecovery(k, k.active, t), q, t)
    BY <2>15, continueRecoveryFits
  <2>17. QED
    BY <2>1, <2>6, <2>16
<1>5. QED
  BY <1>3, <1>4

LEMMA toggleKeeps ==
    ASSUME Rest, Fits(media, queue, current), toggle
    PROVE  IInv'
<1> DEFINE k == [media EXCEPT !.want = TRUE]
           l == loadCurrent(k, queue, index)
<1>1. /\ UNCHANGED <<queue, index, playMode, order>> /\ hasTrack
      /\ \/ media' = l /\ playing' = (playing \/ Sounds(l))
         \/ playing' = FALSE /\ media' = invalidatePreload(abortFallbackWork(media, media.active))
         \/ playing' = (Act.src # NoSrc) /\ media' = Resumed(media)
  BY DEF toggle
<1>2. /\ playing \in BOOLEAN /\ queue \in Seq(Tracks) /\ order \in Seq(Nat) /\ playMode \in {"sequential", "single", "shuffle"}
      /\ index \in DOMAIN queue /\ current = queue[index]
  BY <1>1 DEF Rest, hasTrack, current
<1>3. media \in Medias /\ PreparedIn(media, queue) /\ Untouched(media, Other(media.active))
  BY DEF Fits, RecoversAlone
<1>4. CASE media' = l /\ playing' = (playing \/ Sounds(l))
  <2>1. k \in Medias /\ k.active = media.active /\ k.els = media.els /\ k.preloaded = media.preloaded /\ k.tasks = media.tasks
    BY <1>3 DEF Medias
  <2> HIDE DEF k
  <2>2. PreparedIn(k, queue) /\ Untouched(k, Other(k.active))
    BY <1>3, <2>1, WantsOnly
  <2>3. Starts(l, queue, current)
    BY <1>2, <2>1, <2>2, loadCurrentStarts
  <2>4. Fits(l, queue, current)
    BY <2>3, StartsFit
  <2>5. playing' \in BOOLEAN
    BY <1>2, <1>4 DEF Sounds
  <2> HIDE DEF l
  <2>6. QED
    BY <1>1, <1>2, <1>4, <2>4, <2>5, StaysInPlace
<1>5. CASE playing' = FALSE /\ media' = invalidatePreload(abortFallbackWork(media, media.active))
  <2>1. Fits(abortFallbackWork(media, media.active), queue, current)
    BY HaltedFits
  <2>2. Fits(media', queue, current)
    BY <1>5, <2>1, InvalidatedFits
  <2>3. QED
    BY <1>1, <1>2, <1>5, <2>2, StaysInPlace
<1>6. CASE playing' = (Act.src # NoSrc) /\ media' = Resumed(media)
  <2>1. current \in Tracks \cup {None}
    BY <1>2
  <2>2. Fits(media', queue, current)
    BY <1>6, <2>1, ResumedFits
  <2>3. playing' \in BOOLEAN
    BY <1>6
  <2>4. QED
    BY <1>1, <1>2, <2>2, <2>3, StaysInPlace
<1>7. QED
  BY <1>1, <1>4, <1>5, <1>6

-----------------------------------------------------------------------------
(* The browser's steps: the next track.                                    *)

LEMMA AfterTyped ==
    ASSUME NEW o \in Seq(Nat), NEW i \in Nat
    PROVE  After(o, i) \in Nat
<1> DEFINE p == PlaceIn(o, i)
<1>1. p \in 0 .. Len(o)
  BY SelectedIsThere
<1>2. After(o, i) = IF p = 0 THEN i ELSE IF p < Len(o) THEN o[p + 1] ELSE 0
  BY Zenon DEF After, PlaceIn
<1> HIDE DEF p
<1>3. ASSUME p # 0, p < Len(o) PROVE o[p + 1] \in Nat
  <2>1. p + 1 \in DOMAIN o
    BY <1>1, <1>3
  <2>2. QED
    BY <2>1
<1>4. QED
  BY <1>2, <1>3

\* The other element is prepared, or what is prepared in it changes.
LEMMA PreparesFit ==
    ASSUME NEW m, NEW n \in Medias, NEW q, NEW t, Fits(m, q, t), n.active = m.active, n.els[m.active] = m.els[m.active],
           \A x : x.kind \in Recovery \cup {"lookup"} => (x \in n.tasks <=> x \in m.tasks),
           Untouched(n, Other(m.active)), PreparedIn(n, q)
    PROVE  Fits(n, q, t)
<1>1. Recovering(n, m.active) = Recovering(m, m.active)
  BY DEF Recovering
<1>2. Looks(n) => Looks(m)
  BY DEF Looks
<1>3. StillActive(n, m)
  BY <1>1, <1>2 DEF StillActive
<1>4. QED
  BY <1>3, StillFits

LEMMA preloadNextKeeps ==
    ASSUME Rest, Fits(media, queue, current), preloadNext
    PROVE  IInv'
<1> DEFINE ni == IF playMode = "single" THEN 0 ELSE Upcoming(order')
           e == Other(media.active)
           j == invalidatePreload(media)
           k == Cleared(j, e)
           r == Task("preLookup", e, queue[ni])
           np == [el |-> e, index |-> ni, ready |-> FALSE]
           ts == IF ni \in DOMAIN queue THEN k.tasks \cup {r} ELSE k.tasks
           n == [k EXCEPT !.preloaded = np, !.tasks = ts]
<1>1. /\ UNCHANGED <<queue, index, playMode, playing>> /\ hasTrack
      /\ order' \in IF playMode = "shuffle" THEN Orders(order, queue, index) ELSE {order}
      /\ \/ media' = j
         \/ media' = media
         \/ media' = n
  BY DEF preloadNext
<1>2. /\ queue \in Seq(Tracks) /\ index \in Nat /\ index \in DOMAIN queue /\ playMode \in {"sequential", "single", "shuffle"}
      /\ playing \in BOOLEAN
  BY <1>1 DEF Rest, hasTrack
<1>3. order' \in Seq(Nat)
  <2>1. order \in Seq(Nat)
    BY DEF Rest
  <2>2. order' = order \/ order' \in Orders(order, queue, index)
    BY <1>1
  <2>3. QED
    BY <1>2, <2>1, <2>2, OrdersTyped
<1>4. Upcoming(order') \in Nat
  <2>1. After(order', index) \in Nat
    BY <1>2, <1>3, AfterTyped
  <2>2. QED
    BY <1>2, <2>1 DEF Upcoming
<1>5. Fits(j, queue, current) /\ Preparing(j) = {} /\ j.preloaded = None
  BY InvalidatedFits
<1>6. CASE media' = j
  BY <1>1, <1>2, <1>3, <1>5, <1>6, StaysInPlace
<1>7. CASE media' = media
  BY <1>1, <1>2, <1>3, <1>7, StaysInPlace
<1>8. CASE media' = n
  <2>1. ni \in Nat
    BY <1>4
  <2> HIDE DEF ni
  <2>2. j \in Medias /\ j.active = media.active
    <3>1. media \in Medias /\ PreparedIn(media, queue)
      BY DEF Fits
    <3>2. QED
      BY <3>1, invalidatePreloadIs
  <2> HIDE DEF j
  <2>3. e \in Elements /\ e # media.active /\ media.active \in Elements
    BY <2>2, MediaTyped
  <2>4. k \in Medias /\ k.active = j.active
    BY <2>2, <2>3, ClearedIs
  <2>5. /\ Untouched(k, e)
        /\ Recovering(k, media.active) = Recovering(j, media.active) /\ k.els[media.active] = j.els[media.active]
        /\ Looks(k) => Looks(j)
        /\ \A x \in Preparing(k) : \E y \in Preparing(j) : y.el = x.el
    BY <2>2, <2>3, ClearedFrees
  <2> HIDE DEF k, e
  <2>6. ni \in DOMAIN queue => r \in Tasks /\ r.kind = "preLookup" /\ r.el = e /\ r.track = queue[ni] /\ r.fresh
    BY <1>2, <2>3 DEF Task, Tasks, Preload
  <2> HIDE DEF r
  <2>7. ts \in SUBSET Tasks
    <3>1. k.tasks \in SUBSET Tasks
      BY <2>4, MediaTyped
    <3>2. QED
      BY <2>6, <3>1
  <2>8. np \in Preloads /\ np.el = e /\ np.index = ni /\ np.ready = FALSE
    BY <2>1, <2>3 DEF Preloads
  <2>9. \A x : x.kind \in Recovery \cup {"lookup"} => (x \in ts <=> x \in k.tasks)
    BY <2>6 DEF Recovery
  <2>10. \A x \in ts : x \in k.tasks \/ (ni \in DOMAIN queue /\ x = r)
    OBVIOUS
  <2> HIDE DEF np, ts
  <2>11. n \in Medias /\ n.active = k.active /\ n.els = k.els /\ n.preloaded = np /\ n.tasks = ts
    BY <2>4, <2>7, <2>8 DEF Medias
  <2> HIDE DEF n
  <2>12. \A x \in Preparing(n) : ni \in DOMAIN queue /\ x = r
    BY <1>5, <2>5, <2>10, <2>11 DEF Preparing
  <2>13. np # None
    BY <2>8, PlayerAssumption
  <2>14. PreparedIn(n, queue)
    BY <2>2, <2>4, <2>6, <2>8, <2>11, <2>12, <2>13 DEF PreparedIn, e
  <2>15. Recovering(n, media.active) = Recovering(k, media.active) /\ Recovering(n, e) = Recovering(k, e)
    BY <2>9, <2>11 DEF Recovering
  <2>16. Looks(n) => Looks(k)
    BY <2>9, <2>11 DEF Looks
  <2>17. Untouched(n, e)
    BY <2>5, <2>11, <2>15 DEF Untouched
  <2>18. StillActive(n, j)
    BY <2>2, <2>4, <2>5, <2>11, <2>15, <2>16 DEF StillActive
  <2>19. Fits(n, queue, current)
    BY <1>5, <2>2, <2>11, <2>14, <2>17, <2>18, StillFits DEF e
  <2>20. QED
    BY <1>1, <1>2, <1>3, <1>8, <2>19, StaysInPlace
<1>9. QED
  BY <1>1, <1>6, <1>7, <1>8

LEMMA PreloadErrorKeeps ==
    ASSUME Rest, Fits(media, queue, current), PreloadError
    PROVE  IInv'
<1> DEFINE e == media.preloaded.el
           k == abortFullDownload(media, e)
           np == [media.preloaded EXCEPT !.ready = FALSE]
           n == [k EXCEPT !.preloaded = np]
<1>1. media.preloaded # None /\ media' = n /\ UNCHANGED <<queue, index, playMode, order, playing>>
  <2>1. media' = [k EXCEPT !.preloaded.ready = FALSE] /\ media.preloaded # None /\ UNCHANGED <<queue, index, playMode, order, playing>>
    BY DEF PreloadError
  <2>2. k.preloaded = media.preloaded
    BY DEF abortFullDownload, Fits, Medias
  <2>3. [k EXCEPT !.preloaded.ready = FALSE] = [k EXCEPT !.preloaded = [k.preloaded EXCEPT !.ready = FALSE]]
    OBVIOUS
  <2>4. QED
    BY <2>1, <2>2, <2>3
<1>2. /\ queue \in Seq(Tracks) /\ order \in Seq(Nat) /\ playMode \in {"sequential", "single", "shuffle"}
      /\ playing \in BOOLEAN
  BY DEF Rest
<1>3. media \in Medias /\ PreparedIn(media, queue) /\ Untouched(media, Other(media.active))
  BY DEF Fits, RecoversAlone
<1>4. media.preloaded \in Preloads /\ e = Other(media.active) /\ e \in Elements
  BY <1>1, <1>3, MediaTyped DEF PreparedIn
<1>5. np \in Preloads /\ np.el = e /\ np.index = media.preloaded.index /\ np.ready = FALSE
  BY <1>4 DEF Preloads
<1>6. np # None
  BY <1>5, PlayerAssumption
<1> HIDE DEF e, np
<1>7. /\ k \in Medias /\ k.active = media.active /\ k.els = media.els /\ k.tasks = Outdate(media.tasks, {e}, {"download"})
  BY <1>3, <1>4, abortFullDownloadIs
<1>8. \A x \in Preparing(k) : x \in Preparing(media)
  BY <1>3, <1>7, OutdatesPreparing
<1>9. \A f : Recovering(k, f) = Recovering(media, f)
  <2>1. {"download"} \cap Recovery = {}
    BY DEF Recovery
  <2>2. QED
    BY <1>3, <1>7, <2>1, OutdatesNone
<1>10. Looks(k) => Looks(media)
  BY <1>3, <1>7, OutdatesLooks
<1> HIDE DEF k
<1>11. n \in Medias /\ n.active = k.active /\ n.els = k.els /\ n.preloaded = np /\ n.tasks = k.tasks
  BY <1>5, <1>7 DEF Medias
<1> HIDE DEF n
<1>12. Preparing(n) = Preparing(k) /\ \A f : Recovering(n, f) = Recovering(k, f)
  BY <1>11 DEF Preparing, Recovering
<1>13. PreparedIn(n, queue)
  BY <1>1, <1>3, <1>4, <1>5, <1>6, <1>7, <1>8, <1>11, <1>12 DEF PreparedIn, e
<1>14. Untouched(n, Other(media.active))
  BY <1>3, <1>7, <1>9, <1>11, <1>12 DEF Untouched
<1>15. Looks(n) => Looks(k)
  BY <1>11, WithLooks
<1>16. StillActive(n, media)
  BY <1>7, <1>9, <1>10, <1>11, <1>12, <1>15 DEF StillActive
<1>17. Fits(n, queue, current)
  BY <1>11, <1>13, <1>14, <1>16, StillFits
<1>18. QED
  BY <1>1, <1>2, <1>17, StaysInPlace

LEMMA DoneIs ==
    ASSUME NEW m \in Medias, NEW x
    PROVE  LET n == Done(m, x)
           IN  /\ n \in Medias /\ n.active = m.active /\ n.preloaded = m.preloaded /\ n.els = m.els
               /\ n.tasks = m.tasks \ {x} /\ n.restore = m.restore /\ n.want = m.want
BY DEF Done, Medias

\* A step towards the next track that adds at most one task in place of the one it ends.
LEMMA PreloadTasks ==
    ASSUME NEW m, NEW q, NEW cur, Fits(m, q, cur), NEW t \in m.tasks, t.kind \in Preload,
           NEW n \in Medias, n.active = m.active, n.preloaded = m.preloaded, n.els = m.els,
           NEW r, r.kind \in Preload, r.el = t.el, r.track = t.track, t.fresh,
           \A x \in n.tasks : (x \in m.tasks /\ x # t) \/ x = r \/ (x.kind \in Preload /\ ~x.fresh),
           \A x \in m.tasks : x.kind \notin Preload => x \in n.tasks
    PROVE  Fits(n, q, cur)
<1>1. PreparedIn(m, q) /\ t \in Preparing(m) /\ Untouched(m, Other(m.active))
  BY DEF Fits, Preparing, RecoversAlone
<1>2. \A x \in Preparing(n) : x = r
  BY <1>1 DEF Preparing, PreparedIn
<1>3. PreparedIn(n, q)
  BY <1>1, <1>2 DEF PreparedIn
<1>4. \A x : x.kind \in Recovery \cup {"lookup"} => (x \in n.tasks <=> x \in m.tasks)
  BY DEF Recovery, Preload
<1>5. Recovering(n, Other(m.active)) = Recovering(m, Other(m.active))
  BY <1>4 DEF Recovering
<1>6. Untouched(n, Other(m.active))
  BY <1>1, <1>5 DEF Untouched
<1>7. QED
  BY <1>3, <1>4, <1>6, PreparesFit

LEMMA PreloadEnds ==
    ASSUME NEW m, NEW q, NEW cur, Fits(m, q, cur), NEW t \in m.tasks, t.kind \in Preload
    PROVE  Fits(Done(m, t), q, cur)
<1> DEFINE n == Done(m, t)
<1>1. m \in Medias /\ PreparedIn(m, q) /\ Untouched(m, Other(m.active))
  BY DEF Fits, RecoversAlone
<1>2. n \in Medias /\ n.active = m.active /\ n.preloaded = m.preloaded /\ n.els = m.els /\ n.tasks = m.tasks \ {t}
  BY <1>1, DoneIs
<1> HIDE DEF n
<1>3. \A x \in Preparing(n) : x \in Preparing(m)
  BY <1>2 DEF Preparing
<1>4. PreparedIn(n, q)
  BY <1>1, <1>2, <1>3 DEF PreparedIn
<1>5. \A x : x.kind \in Recovery \cup {"lookup"} => (x \in n.tasks <=> x \in m.tasks)
  BY <1>2 DEF Recovery, Preload
<1>6. Recovering(n, Other(m.active)) = Recovering(m, Other(m.active))
  BY <1>5 DEF Recovering
<1>7. Untouched(n, Other(m.active))
  BY <1>1, <1>2, <1>6 DEF Untouched
<1>8. Fits(n, q, cur)
  BY <1>2, <1>4, <1>5, <1>7, PreparesFit
<1>9. QED
  BY <1>8 DEF n

LEMMA ReadyFits ==
    ASSUME NEW m, NEW q \in Seq(Tracks), NEW cur, Fits(m, q, cur), NEW t \in m.tasks, t.kind \in Preload, StillCandidate(t), m = media
    PROVE  Fits(Ready(Done(m, t), t), q, cur)
<1> DEFINE e == t.el
           k == Done(m, t)
           p == [Sourced(k.els[e], "blob", t.track, {}) EXCEPT !.origin = "background"]
           np == [m.preloaded EXCEPT !.ready = TRUE]
           l == With(k, e, p)
           n == [l EXCEPT !.preloaded = np]
<1>1. m \in Medias /\ PreparedIn(m, q) /\ Untouched(m, Other(m.active)) /\ t \in Tasks /\ t.fresh /\ e # m.active
  BY DEF Fits, RecoversAlone, Medias, StillCandidate
<1>2. t \in Preparing(m)
  BY <1>1 DEF Preparing
<1>3. /\ m.preloaded # None /\ e = m.preloaded.el /\ e = Other(m.active) /\ e \in Elements /\ t.track \in Tracks
      /\ m.preloaded.index \in DOMAIN q /\ t.track = q[m.preloaded.index] /\ \A x \in Preparing(m) : x = t
      /\ m.active \in Elements
  BY <1>1, <1>2, MediaTyped DEF PreparedIn, Tasks
<1>4. k \in Medias /\ k.active = m.active /\ k.preloaded = m.preloaded /\ k.els = m.els /\ k.tasks = m.tasks \ {t}
  BY <1>1, DoneIs
<1>5. Ready(k, t) = n
  <2>1. Ready(k, t) = [l EXCEPT !.preloaded.ready = TRUE]
    BY Zenon DEF Ready, PlayBlob, With
  <2>2. [l EXCEPT !.preloaded.ready = TRUE] = [l EXCEPT !.preloaded = [l.preloaded EXCEPT !.ready = TRUE]]
    OBVIOUS
  <2>3. l.preloaded = m.preloaded
    BY <1>4 DEF With, Medias
  <2>4. QED
    BY <2>1, <2>2, <2>3
<1> HIDE DEF k, e
<1>6. k.els[e] \in Players
  BY <1>3, <1>4 DEF Medias
<1>7. /\ p \in Players /\ p.src = Src("blob", t.track) /\ p.fb = k.els[e].fb /\ p.terminal = k.els[e].terminal /\ p.inFlight = k.els[e].inFlight
  <2>1. Src("blob", t.track) \in Sources
    BY <1>3 DEF Src, Sources
  <2>2. QED
    BY <1>6, <2>1 DEF Sourced, Players
<1> HIDE DEF p
<1>8. /\ l \in Medias /\ l.active = k.active /\ l.preloaded = k.preloaded /\ l.tasks = k.tasks
      /\ l.els[e] = p /\ (\A f \in Elements : f # e => l.els[f] = k.els[f])
      /\ Preparing(l) = Preparing(k) /\ \A f : Recovering(l, f) = Recovering(k, f)
  BY <1>3, <1>4, <1>7, WithElement
<1>9. m.preloaded \in Preloads
  BY <1>1, <1>3 DEF Medias
<1>10. np \in Preloads /\ np.el = e /\ np.index = m.preloaded.index /\ np.ready = TRUE
  BY <1>3, <1>9 DEF Preloads
<1> HIDE DEF l, np
<1>11. n \in Medias /\ n.active = l.active /\ n.els = l.els /\ n.preloaded = np /\ n.tasks = l.tasks
  BY <1>8, <1>10 DEF Medias
<1> HIDE DEF n
<1>12. Preparing(n) = {}
  BY <1>3, <1>4, <1>8, <1>11 DEF Preparing
<1>13. PreparedIn(n, q)
  BY <1>3, <1>4, <1>7, <1>8, <1>10, <1>11, <1>12 DEF PreparedIn, e
<1>14. \A x : x.kind \in Recovery \cup {"lookup"} => (x \in n.tasks <=> x \in m.tasks)
  BY <1>4, <1>8, <1>11 DEF Recovery, Preload
<1>15. Recovering(n, e) = Recovering(m, e)
  BY <1>14 DEF Recovering
<1>16. Untouched(n, e)
  BY <1>1, <1>3, <1>4, <1>7, <1>8, <1>11, <1>15 DEF Untouched, Src
<1>17. n.active = m.active /\ n.els[m.active] = m.els[m.active]
  BY <1>1, <1>3, <1>4, <1>8, <1>11 DEF e
<1>18. Fits(n, q, cur)
  BY <1>3, <1>11, <1>13, <1>14, <1>16, <1>17, PreparesFit
<1>19. QED
  BY <1>5, <1>18 DEF k

LEMMA PreloadStepKeeps ==
    ASSUME Rest, Fits(media, queue, current), NEW t \in media.tasks, NEW ok \in BOOLEAN, PreloadStep(t, ok)
    PROVE  IInv'
<1> DEFINE m == Done(media, t)
           then == [t EXCEPT !.kind = IF t.kind = "preLookup" THEN "download" ELSE "keep"]
           k == abortFullDownload(m, t.el)
<1>1. /\ UNCHANGED <<queue, index, playMode, order, playing>> /\ t.kind \in Preload
      /\ \/ media' = m
         \/ t.fresh /\ media' = [m EXCEPT !.tasks = @ \cup {then}]
         \/ StillCandidate(t) /\ media' = Ready(m, t)
         \/ t.fresh /\ media' = [k EXCEPT !.tasks = @ \cup {then}]
  BY DEF PreloadStep, StillCandidate
<1>2. /\ queue \in Seq(Tracks) /\ order \in Seq(Nat) /\ playMode \in {"sequential", "single", "shuffle"}
      /\ playing \in BOOLEAN
  BY DEF Rest
<1>3. media \in Medias /\ t \in Tasks /\ t.el \in Elements
  BY DEF Fits, Medias, Tasks
<1>4. m \in Medias /\ m.active = media.active /\ m.preloaded = media.preloaded /\ m.els = media.els /\ m.tasks = media.tasks \ {t}
  BY <1>3, DoneIs
<1>5. then \in Tasks /\ then.kind \in Preload /\ then.el = t.el /\ then.track = t.track
  BY <1>3 DEF Tasks, Preload
<1>6. CASE media' = m
  <2>1. Fits(media', queue, current)
    BY <1>1, <1>6, PreloadEnds
  <2>2. QED
    BY <1>1, <1>2, <2>1, StaysInPlace
<1>7. CASE StillCandidate(t) /\ media' = Ready(m, t)
  <2>1. Fits(media', queue, current)
    BY <1>1, <1>2, <1>7, ReadyFits
  <2>2. QED
    BY <1>1, <1>2, <2>1, StaysInPlace
<1> HIDE DEF m, then
<1>8. CASE t.fresh /\ media' = [m EXCEPT !.tasks = @ \cup {then}]
  <2> DEFINE n == [m EXCEPT !.tasks = m.tasks \cup {then}]
  <2>1. m.tasks \cup {then} \in SUBSET Tasks
    BY <1>4, <1>5 DEF Medias
  <2>2. n \in Medias /\ n.active = m.active /\ n.preloaded = m.preloaded /\ n.els = m.els /\ n.tasks = m.tasks \cup {then}
    BY <1>4, <2>1 DEF Medias
  <2> HIDE DEF n
  <2>3. Fits(n, queue, current)
    <3>1. \A x \in n.tasks : (x \in media.tasks /\ x # t) \/ x = then \/ (x.kind \in Preload /\ ~x.fresh)
      BY <1>4, <2>2
    <3>2. \A x \in media.tasks : x.kind \notin Preload => x \in n.tasks
      BY <1>1, <1>4, <2>2
    <3>3. QED
      BY <1>1, <1>4, <1>5, <1>8, <2>2, <3>1, <3>2, PreloadTasks
  <2>4. media' = n
    BY <1>8 DEF n
  <2>5. QED
    BY <1>1, <1>2, <2>3, <2>4, StaysInPlace
<1>9. CASE t.fresh /\ media' = [k EXCEPT !.tasks = @ \cup {then}]
  <2> DEFINE n == [k EXCEPT !.tasks = k.tasks \cup {then}]
  <2>1. k \in Medias /\ k.active = m.active /\ k.preloaded = m.preloaded /\ k.els = m.els /\ k.tasks = Outdate(m.tasks, {t.el}, {"download"})
    BY <1>3, <1>4, abortFullDownloadIs
  <2> HIDE DEF k
  <2>2. k.tasks \cup {then} \in SUBSET Tasks
    BY <1>5, <2>1 DEF Medias
  <2>3. n \in Medias /\ n.active = k.active /\ n.preloaded = k.preloaded /\ n.els = k.els /\ n.tasks = k.tasks \cup {then}
    BY <2>1, <2>2 DEF Medias
  <2> HIDE DEF n
  <2>4. Fits(n, queue, current)
    <3>1. /\ \A x \in m.tasks : x.kind # "download" => x \in k.tasks
          /\ \A x \in k.tasks : x \in m.tasks \/ (x.kind = "download" /\ ~x.fresh)
      <4>1. m.tasks \in SUBSET Tasks
        BY <1>4, MediaTyped
      <4>2. /\ \A x \in m.tasks : ~(x.el \in {t.el} /\ x.kind \in {"download"}) => x \in k.tasks
            /\ \A x \in k.tasks : x \in m.tasks \/ (x.kind \in {"download"} /\ ~x.fresh)
        BY <2>1, <4>1, Outdates
      <4>3. QED
        BY <4>2
    <3>2. \A x \in n.tasks : (x \in media.tasks /\ x # t) \/ x = then \/ (x.kind \in Preload /\ ~x.fresh)
      BY <1>4, <2>3, <3>1 DEF Preload
    <3>3. \A x \in media.tasks : x.kind \notin Preload => x \in n.tasks
      BY <1>1, <1>4, <2>3, <3>1 DEF Preload
    <3>4. n.active = media.active /\ n.preloaded = media.preloaded /\ n.els = media.els
      BY <1>4, <2>1, <2>3
    <3>5. QED
      BY <1>1, <1>5, <1>9, <2>3, <3>2, <3>3, <3>4, PreloadTasks
  <2>5. media' = n
    BY <1>9 DEF n
  <2>6. QED
    BY <1>1, <1>2, <2>4, <2>5, StaysInPlace
<1>10. QED
  BY <1>1, <1>6, <1>7, <1>8, <1>9

-----------------------------------------------------------------------------
(* The source of the active element.                                       *)

\* Elements that differ in what no recovery and no preload looks at.
Similar(p, u) ==
    /\ p.src = u.src /\ p.fb = u.fb /\ p.terminal = u.terminal /\ p.inFlight = u.inFlight
    /\ p.over = u.over /\ p.attempted = u.attempted /\ p.origin = u.origin

LEMMA SimilarFits ==
    ASSUME NEW m, NEW n \in Medias, NEW q, NEW t, Fits(m, q, t), n.active = m.active, n.preloaded = m.preloaded,
           n.tasks = m.tasks, \A e \in Elements : Similar(n.els[e], m.els[e])
    PROVE  Fits(n, q, t)
<1>1. /\ m \in Medias /\ ShowsIn(m, t) /\ PreparedIn(m, q) /\ RecoversAlone(m)
      /\ StateInOrder(m, t) /\ TasksInOrder(m, t) /\ MovesIn(m, t)
  BY DEF Fits
<1>2. m.active \in Elements /\ Other(m.active) \in Elements
  BY <1>1, MediaTyped
<1>3. Preparing(n) = Preparing(m) /\ \A f : Recovering(n, f) = Recovering(m, f)
  BY DEF Preparing, Recovering
<1>4. Similar(n.els[m.active], m.els[m.active]) /\ Similar(n.els[Other(m.active)], m.els[Other(m.active)])
  BY <1>2
<1>5. ShowsIn(n, t)
  BY <1>1, <1>4 DEF ShowsIn, Similar
<1>6. PreparedIn(n, q)
  BY <1>1, <1>3, <1>4 DEF PreparedIn, Similar
<1>7. RecoversAlone(n)
  <2>1. Looks(n) => Looks(m)
    BY WithLooks, SMTT(30)
  <2>2. QED
    BY <1>1, <1>3, <1>4, <2>1 DEF RecoversAlone, Untouched, Similar
<1>8. StateInOrder(n, t)
  BY <1>1, <1>3, <1>4, SMTT(30) DEF StateInOrder, Similar, Loaded
<1>9. TasksInOrder(n, t)
  BY <1>1, <1>3, <1>4 DEF TasksInOrder, Similar
<1>10. MovesIn(n, t)
  BY <1>1, <1>3, <1>4 DEF MovesIn, Similar
<1>11. QED
  BY <1>5, <1>6, <1>7, <1>8, <1>9, <1>10 DEF Fits

LEMMA MetadataKeeps ==
    ASSUME Rest, Fits(media, queue, current), NEW e \in Elements, Metadata(e)
    PROVE  IInv'
<1> DEFINE m == media.els[e]
           own == {s.track : s \in {x \in m.seeks : x.of = "own"}}
           act == {s.track : s \in {x \in m.seeks : x.of = "active"}}
           p == [m EXCEPT !.meta = TRUE,
                          !.seeks = {s \in @ : s.of = "active" /\ e # media.active},
                          !.at = IF own # {} THEN CHOOSE x \in own : TRUE ELSE @]
           n == With(media, e, p)
           u == [n.els[media.active] EXCEPT !.at = CHOOSE x \in act : TRUE]
           k == With(n, media.active, u)
<1>1. media \in Medias /\ media.active \in Elements /\ m \in Players
  BY MediaTyped, SMTT(30) DEF Fits, Medias
<1>2. UNCHANGED <<queue, index, playMode, order, playing>> /\ media' = IF act = {} THEN n ELSE k
  <2>1. [media EXCEPT !.els[e].meta = TRUE,
                      !.els[e].seeks = {s \in @ : s.of = "active" /\ e # media.active},
                      !.els[e].at = IF own # {} THEN CHOOSE x \in own : TRUE ELSE @] = n
    BY <1>1, ZenonT(60) DEF With, Medias, Players
  <2>2. [n EXCEPT !.els[media.active].at = CHOOSE x \in act : TRUE] = k
    BY Zenon DEF With
  <2>3. QED
    BY <2>1, <2>2, ZenonT(30) DEF Metadata
<1>3. m.seeks \in SUBSET Seeks
  BY <1>1 DEF Players
<1>4. own \subseteq Positions /\ act \subseteq Positions
  BY <1>3 DEF Seeks
<1>5. own # {} => (CHOOSE x \in own : TRUE) \in Positions
  BY <1>4
<1>6. act # {} => (CHOOSE x \in act : TRUE) \in Positions
  BY <1>4, SMTT(30)
<1>7. p \in Players /\ Similar(p, m)
  BY <1>1, <1>3, <1>5 DEF Players, Similar
<1> HIDE DEF p, own, act
<1>8. /\ n \in Medias /\ n.active = media.active /\ n.preloaded = media.preloaded /\ n.tasks = media.tasks
      /\ n.els[e] = p /\ \A f \in Elements : f # e => n.els[f] = media.els[f]
  BY <1>1, <1>7, WithElement
<1>9. \A f \in Elements : Similar(n.els[f], media.els[f])
  BY <1>7, <1>8 DEF Similar
<1> HIDE DEF n
<1>10. Fits(n, queue, current)
  BY <1>8, <1>9, SimilarFits
<1>11. ASSUME act # {} PROVE Fits(k, queue, current)
  <2>1. n.els[media.active] \in Players
    BY <1>1, <1>8 DEF Medias
  <2>2. u \in Players /\ Similar(u, n.els[media.active])
    BY <1>6, <1>11, <2>1 DEF Players, Similar
  <2> HIDE DEF u
  <2>3. /\ k \in Medias /\ k.active = n.active /\ k.preloaded = n.preloaded /\ k.tasks = n.tasks
        /\ k.els[media.active] = u /\ \A f \in Elements : f # media.active => k.els[f] = n.els[f]
    BY <1>1, <1>8, <2>2, WithElement, SMTT(30)
  <2>4. \A f \in Elements : Similar(k.els[f], n.els[f])
    BY <2>2, <2>3 DEF Similar
  <2>5. QED
    BY <1>8, <1>10, <2>3, <2>4, SimilarFits
<1>12. Fits(media', queue, current)
  BY <1>2, <1>10, <1>11
<1>13. /\ order \in Seq(Nat) /\ playMode \in {"sequential", "single", "shuffle"}
       /\ playing \in BOOLEAN
  BY DEF Rest
<1>14. QED
  BY <1>2, <1>12, <1>13, StaysInPlace

BlobOf(p, t, origin, seeks) == [Sourced(p, "blob", t, seeks) EXCEPT !.origin = origin]

LEMMA BlobIs ==
    ASSUME NEW m \in Medias, NEW e \in Elements, NEW t \in Tracks, NEW origin, origin \in {"background", "fallback", None},
           NEW seeks \in SUBSET Seeks
    PROVE  LET p == BlobOf(m.els[e], t, origin, seeks)
           IN  /\ PlayBlob(m, e, t, origin, seeks) = With(m, e, p)
               /\ p \in Players /\ p.src = Src("blob", t) /\ p.origin = origin /\ p.over = FALSE
               /\ p.fb = m.els[e].fb /\ p.terminal = m.els[e].terminal /\ p.inFlight = m.els[e].inFlight
               /\ p.attempted = m.els[e].attempted
<1>1. m.els[e] \in Players
  BY MediaTyped
<1>2. Src("blob", t) \in Sources
  BY DEF Src, Sources
<1>3. QED
  BY <1>1, <1>2, ZenonT(30) DEF PlayBlob, With, Sourced, Players, BlobOf

LEMMA LookupDoneKeeps ==
    ASSUME Rest, Fits(media, queue, current), NEW t \in media.tasks, NEW hit \in BOOLEAN, LookupDone(t, hit)
    PROVE  IInv'
<1> DEFINE m == Done(media, t)
           e == t.el
<1>1. t.kind = "lookup" /\ UNCHANGED <<queue, index, playMode, order>>
  BY DEF LookupDone
<1>2. media \in Medias /\ PreparedIn(media, queue) /\ Untouched(media, Other(media.active)) /\ t \in Tasks
  BY DEF Fits, RecoversAlone, Medias
<1>3. e \in Elements /\ t.track \in Tracks /\ media.active \in Elements /\ Other(media.active) \in Elements /\ Other(media.active) # media.active
  BY <1>2, MediaTyped DEF Tasks
<1>4. /\ m \in Medias /\ m.active = media.active /\ m.preloaded = media.preloaded /\ m.els = media.els
      /\ m.tasks = media.tasks \ {t} /\ m.restore = media.restore
  BY <1>2, DoneIs
<1>5. /\ order \in Seq(Nat) /\ playMode \in {"sequential", "single", "shuffle"}
      /\ playing \in BOOLEAN
  BY DEF Rest
<1>6. \A x : x.kind \in Recovery \cup Preload => (x \in m.tasks <=> x \in media.tasks)
  BY <1>1, <1>4 DEF Recovery, Preload
<1>7. Preparing(m) = Preparing(media) /\ \A f : Recovering(m, f) = Recovering(media, f)
  BY <1>6, SameUnderWay
<1>8. PreparedIn(m, queue)
  BY <1>2, <1>4, <1>7 DEF PreparedIn
<1>9. Untouched(m, Other(media.active))
  BY <1>2, <1>4, <1>7 DEF Untouched
<1>10. CASE ~StillWanted(t)
  <2>1. media' = m /\ UNCHANGED playing
    BY <1>10 DEF LookupDone
  <2>2. Looks(m) => Looks(media)
    BY <1>4 DEF Looks
  <2>3. StillActive(m, media)
    BY <1>4, <1>7, <2>2 DEF StillActive
  <2>4. Fits(m, queue, current)
    BY <1>4, <1>8, <1>9, <2>3, StillFits
  <2>5. QED
    BY <1>1, <1>5, <2>1, <2>4, StaysInPlace
<1>11. CASE StillWanted(t)
  <2>1. e = media.active /\ current = t.track
    BY <1>11 DEF StillWanted
  <2>2. hasTrack
    <3>1. current # None
      BY <1>3, <2>1, PlayerAssumption
    <3>2. QED
      BY <3>1 DEF current, hasTrack
  <2>3. Untouched(m, e)
    <3>1. Looks(media)
      BY <1>1 DEF Looks
    <3>2. Untouched(media, e)
      BY <2>1, <3>1 DEF Fits, RecoversAlone
    <3>3. QED
      BY <1>4, <1>7, <3>2 DEF Untouched
  <2>4. playing' \in BOOLEAN
    <3>1. playing' = (playing \/ media.want)
      BY <1>11 DEF LookupDone
    <3>2. QED
      BY <3>1
  <2> HIDE DEF m
  <2>5. CASE hit
    <3> DEFINE sk == Seek(m.restore, "own")
               p == BlobOf(m.els[e], t.track, "background", sk)
               k == With(m, e, p)
               n == [k EXCEPT !.restore = None]
    <3>1. media' = [PlayBlob(m, e, t.track, "background", sk) EXCEPT !.restore = None]
      BY <1>11, <2>5 DEF LookupDone, m
    <3>2. sk \in SUBSET Seeks
      BY <1>4, MediaTyped, SeekTyped
    <3> HIDE DEF sk
    <3>3. /\ PlayBlob(m, e, t.track, "background", sk) = k
          /\ p \in Players /\ p.src = Src("blob", t.track)
          /\ p.fb = m.els[e].fb /\ p.terminal = m.els[e].terminal /\ p.inFlight = m.els[e].inFlight
      <4>1. m.els[e] \in Players
        BY <1>3, <1>4, MediaTyped
      <4>2. Src("blob", t.track) \in Sources
        BY <1>3 DEF Src, Sources
      <4>3. PlayBlob(m, e, t.track, "background", sk) = k
        BY DEF PlayBlob, With, BlobOf
      <4>4. QED
        BY <3>2, <4>1, <4>2, <4>3 DEF BlobOf, Sourced, Players
    <3> HIDE DEF p
    <3>4. /\ k \in Medias /\ k.active = m.active /\ k.preloaded = m.preloaded /\ k.tasks = m.tasks
          /\ k.els[e] = p /\ (\A f \in Elements : f # e => k.els[f] = m.els[f])
          /\ Preparing(k) = Preparing(m) /\ \A f : Recovering(k, f) = Recovering(m, f)
      BY <1>3, <1>4, <3>3, WithElement, SMTT(30)
    <3> HIDE DEF k
    <3>5. n \in Medias /\ n.active = k.active /\ n.els = k.els /\ n.preloaded = k.preloaded /\ n.tasks = k.tasks
      BY <3>4 DEF Medias
    <3> HIDE DEF n
    <3>6. Preparing(n) = Preparing(k) /\ \A f : Recovering(n, f) = Recovering(k, f)
      BY <3>5 DEF Preparing, Recovering
    <3>7. PreparedIn(n, queue)
      <4>1. n.els[Other(m.active)] = m.els[Other(m.active)]
        BY <1>3, <1>4, <2>1, <3>4, <3>5
      <4>2. n.preloaded = m.preloaded /\ n.active = m.active /\ Preparing(n) = Preparing(m)
        BY <3>4, <3>5, <3>6
      <4>3. QED
        BY <1>8, <4>1, <4>2 DEF PreparedIn
    <3>8. Untouched(n, e)
      BY <2>3, <3>3, <3>4, <3>5, <3>6 DEF Untouched, Src
    <3>9. Untouched(n, Other(media.active))
      BY <1>3, <1>9, <2>1, <3>4, <3>5, <3>6 DEF Untouched
    <3>10. ShowsIn(n, current)
      BY <1>4, <2>1, <3>3, <3>4, <3>5 DEF ShowsIn, Src
    <3>11. Starts(n, queue, current)
      BY <1>4, <2>1, <3>4, <3>5, <3>7, <3>8, <3>9, <3>10 DEF Starts
    <3>12. Fits(n, queue, current)
      BY <3>11, StartsFit
    <3>13. media' = n
      BY <3>1, <3>3 DEF n
    <3>14. QED
      BY <1>1, <1>5, <2>2, <2>4, <3>12, <3>13, StaysInPlace
  <2>6. CASE ~hit
    <3> DEFINE n == Stream(m, e, t.track)
               p == Sourced(m.els[e], "stream", t.track, Seek(m.restore, "active"))
    <3>1. media' = n
      BY <1>11, <2>6 DEF LookupDone, m
    <3>2. /\ n \in Medias /\ n.active = m.active /\ n.preloaded = m.preloaded /\ n.tasks = m.tasks
          /\ n.els = [m.els EXCEPT ![e] = p]
      BY <1>3, <1>4, StreamIs
    <3>3. m.els[e] \in Players /\ m.els \in [Elements -> Players]
      BY <1>3, <1>4, MediaTyped
    <3>4. p.src = Src("stream", t.track) /\ p.fb = m.els[e].fb /\ p.terminal = m.els[e].terminal /\ p.inFlight = m.els[e].inFlight
      BY <3>3 DEF Sourced, Players
    <3> HIDE DEF p, n
    <3>5. n.els[e] = p /\ \A f \in Elements : f # e => n.els[f] = m.els[f]
      BY <1>3, <3>2, <3>3
    <3>6. Preparing(n) = Preparing(m) /\ \A f : Recovering(n, f) = Recovering(m, f)
      BY <3>2 DEF Preparing, Recovering
    <3>7. PreparedIn(n, queue)
      <4>1. n.els[Other(m.active)] = m.els[Other(m.active)]
        BY <1>3, <1>4, <2>1, <3>5
      <4>2. QED
        BY <1>8, <3>2, <3>6, <4>1 DEF PreparedIn
    <3>8. Untouched(n, e)
      BY <2>3, <3>4, <3>5, <3>6 DEF Untouched, Src
    <3>9. Untouched(n, Other(media.active))
      BY <1>3, <1>9, <2>1, <3>5, <3>6 DEF Untouched
    <3>10. ShowsIn(n, current)
      BY <1>4, <2>1, <3>2, <3>4, <3>5 DEF ShowsIn, Src
    <3>11. Starts(n, queue, current)
      BY <1>4, <2>1, <3>2, <3>7, <3>8, <3>9, <3>10 DEF Starts
    <3>12. Fits(n, queue, current)
      BY <3>11, StartsFit
    <3>13. QED
      BY <1>1, <1>5, <2>2, <2>4, <3>1, <3>12, StaysInPlace
  <2>7. QED
    BY <2>5, <2>6
<1>12. QED
  BY <1>10, <1>11

-----------------------------------------------------------------------------
(* The source of the active element fails or ends.                         *)

\* It is given up on: what was under way for it is no longer its own.
GivesUpFrom(m, q, t) ==
    /\ m \in Medias /\ ShowsIn(m, t) /\ PreparedIn(m, q) /\ RecoversAlone(m) /\ ~Looks(m)
    /\ StateInOrder(m, t) /\ TasksInOrder(m, t)
    /\ m.els[m.active].fb = None \/ m.els[m.active].fb.phase = "full"

LEMMA GivenUpIs ==
    ASSUME NEW p \in Players, NEW t \in Tracks
    PROVE  LET u == GivenUp(p, t)
           IN  /\ u \in Players /\ u.terminal = t /\ u.fb = None /\ u.src.track = p.src.track
               /\ u.src.kind # "blob" /\ (p.src = NoSrc => u.src = NoSrc)
<1>1. GivenUp(p, t) \in Players
  BY ZenonT(30) DEF GivenUp, Players, Src, Sources
<1>2. p.src \in Sources
  BY DEF Players
<1>3. QED
  BY <1>1, <1>2 DEF GivenUp, Players, Src, Sources, NoSrc

LEMMA GivenUpFits ==
    ASSUME NEW m, NEW q, NEW t \in Tracks, GivesUpFrom(m, q, t)
    PROVE  Fits([abortFullDownload(m, m.active) EXCEPT !.tasks = Disown(@, m.active), !.els[m.active] = GivenUp(@, t)], q, t)
<1> DEFINE e == m.active
           p == m.els[e]
           u == GivenUp(p, t)
           k == abortFullDownload(m, e)
           d == [k EXCEPT !.tasks = Disown(k.tasks, e)]
           n == With(d, e, u)
<1>1. /\ m \in Medias /\ ShowsIn(m, t) /\ PreparedIn(m, q) /\ Untouched(m, Other(e)) /\ ~Looks(m)
      /\ StateInOrder(m, t) /\ TasksInOrder(m, t) /\ (p.fb = None \/ p.fb.phase = "full")
  BY DEF GivesUpFrom, RecoversAlone
<1>2. /\ e \in Elements /\ p \in Players /\ Other(e) \in Elements /\ Other(e) # e
  BY <1>1, MediaTyped
<1>3. /\ k \in Medias /\ k.active = e /\ k.preloaded = m.preloaded /\ k.els = m.els
      /\ k.tasks = Outdate(m.tasks, {e}, {"download"})
  BY <1>1, <1>2, abortFullDownloadIs
<1>4. [k EXCEPT !.tasks = Disown(@, e), !.els[e] = GivenUp(@, t)] = n
  <2>1. [k EXCEPT !.tasks = Disown(@, e), !.els[e] = GivenUp(@, t)] = [d EXCEPT !.els[e] = GivenUp(@, t)]
    OBVIOUS
  <2>2. d.els[e] = p
    BY <1>3 DEF Medias
  <2>3. QED
    BY <2>1, <2>2, Zenon DEF With
<1> HIDE DEF k
<1>5. Disown(k.tasks, e) \in SUBSET Tasks
  BY <1>3, Disowns, MediaTyped
<1>6. d \in Medias /\ d.active = e /\ d.preloaded = m.preloaded /\ d.els = m.els /\ d.tasks = Disown(k.tasks, e)
  BY <1>3, <1>5 DEF Medias
<1> HIDE DEF d
<1>7. /\ u \in Players /\ u.terminal = t /\ u.fb = None /\ u.src.track = p.src.track
      /\ u.src.kind # "blob" /\ (p.src = NoSrc => u.src = NoSrc)
  BY <1>2, GivenUpIs
<1> HIDE DEF u
<1>8. /\ n \in Medias /\ n.active = e /\ n.preloaded = m.preloaded /\ n.tasks = d.tasks
      /\ n.els[e] = u /\ n.els[Other(e)] = m.els[Other(e)]
      /\ Preparing(n) = Preparing(d) /\ \A f : Recovering(n, f) = Recovering(d, f)
  BY <1>2, <1>6, <1>7, WithElement, SMTT(30)
<1> HIDE DEF n
<1>9. \A f : Recovering(k, f) = Recovering(m, f)
  <2>1. {"download"} \cap Recovery = {}
    BY DEF Recovery
  <2>2. QED
    BY <1>1, <1>3, <2>1, OutdatesNone
<1>10. Recovering(n, Other(e)) = Recovering(m, Other(e))
  <2>1. Recovering(d, Other(e)) = Recovering(k, Other(e))
    BY <1>2, <1>3, <1>6, DisownsNone
  <2>2. QED
    BY <1>8, <1>9, <2>1
<1>11. \A x \in Preparing(n) : x \in Preparing(m)
  <2>1. SUFFICES ASSUME NEW x \in Preparing(d) PROVE x \in Preparing(m)
    BY <1>8
  <2>2. (x.el # e => x \in Preparing(k)) /\ \E y \in Preparing(k) : y.el = x.el
    BY <1>3, <1>6, DisownsPreparing
  <2>3. \A y \in Preparing(k) : y \in Preparing(m)
    BY <1>1, <1>3, OutdatesPreparing
  <2>4. \A y \in Preparing(m) : y.el # e
    BY <1>1, <1>2 DEF PreparedIn
  <2>5. QED
    BY <2>2, <2>3, <2>4
<1>12. PreparedIn(n, q)
  BY <1>1, <1>8, <1>11 DEF PreparedIn
<1>13. ~Looks(n)
  <2>1. Looks(k) => Looks(m)
    BY <1>1, <1>3, OutdatesLooks
  <2>2. Looks(d) => Looks(k)
    BY <1>3, <1>6, DisownsLooks
  <2>3. Looks(n) => Looks(d)
    BY <1>8, WithLooks
  <2>4. QED
    BY <1>1, <2>1, <2>2, <2>3
<1>14. RecoversAlone(n)
  BY <1>1, <1>8, <1>10, <1>13 DEF RecoversAlone, Untouched
<1>15. ShowsIn(n, t)
  BY <1>1, <1>7, <1>8 DEF ShowsIn
<1>16. t # None
  BY PlayerAssumption
<1>17. StateInOrder(n, t)
  BY <1>7, <1>8, <1>16 DEF StateInOrder, Loaded
<1>18. MovesIn(n, t)
  BY <1>7, <1>8 DEF MovesIn
<1>19. ASSUME NEW x \in Recovering(n, e)
       PROVE  ~x.same /\ x.fresh /\ x.el = e /\ x.kind \in Recovery
              /\ \E y \in Recovering(m, e) : y.kind = x.kind /\ y.fresh /\ y.track = x.track /\ y.complete = x.complete
  <2>1. x \in Disown(k.tasks, e) /\ x.el = e /\ x.kind \in Recovery /\ (x.fresh \/ x.same)
    BY <1>6, <1>8, <1>19 DEF Recovering
  <2>2. k.tasks \in SUBSET Tasks
    BY <1>3, MediaTyped
  <2>3. ~x.same /\ \E y \in k.tasks : y.el = e /\ y.kind = x.kind /\ y.fresh = x.fresh /\ y.track = x.track /\ y.complete = x.complete
    BY <2>1, <2>2, DisownsRecovery
  <2>4. \E y \in Recovering(k, e) : y.kind = x.kind /\ y.fresh /\ y.track = x.track /\ y.complete = x.complete
    BY <2>1, <2>3 DEF Recovering
  <2>5. QED
    BY <1>9, <2>1, <2>3, <2>4
<1>20. TasksInOrder(n, t)
  <2> SUFFICES ASSUME NEW x \in Recovering(n, e)
               PROVE  /\ x.fresh => (t # None => x.track = t) /\ (~x.same => u.terminal # None)
                      /\ x.fresh /\ x.kind = "range" => u.fb # None /\ u.fb.phase = "range" /\ u.inFlight
                      /\ x.fresh /\ x.same /\ x.kind = "prepare" => u.fb = None \/ u.inFlight
                      /\ x.fresh /\ x.kind \in {"full", "prepareFull"} => u.fb = None \/ u.fb.phase = "full"
                      /\ x.same /\ x.kind = "prepare" /\ x.complete => u.fb = None \/ u.fb.phase = "full"
                      /\ x.kind = "prepareFull" => x.complete
                      /\ x.fresh /\ x.same /\ x.kind \in {"range", "prepare"} =>
                           \A y \in Recovering(n, e) : y.fresh /\ y.same /\ y.kind \in {"range", "prepare"} => y = x
    BY <1>8 DEF TasksInOrder
  <2>1. ~x.same
    BY <1>19
  <2>2. PICK y \in Recovering(m, e) : y.kind = x.kind /\ y.fresh /\ y.track = x.track /\ y.complete = x.complete
    BY <1>19
  <2>3. /\ t # None => y.track = t
        /\ y.kind = "range" => p.fb # None /\ p.fb.phase = "range"
        /\ y.kind = "prepareFull" => y.complete
    BY <1>1, <2>2 DEF TasksInOrder
  <2>4. QED
    BY <1>1, <1>7, <1>16, <2>1, <2>2, <2>3
<1>21. Fits(n, q, t)
  BY <1>8, <1>12, <1>14, <1>15, <1>17, <1>18, <1>20 DEF Fits
<1>22. QED
  BY <1>4, <1>21 DEF k

LEMMA GiveUpKeeps ==
    ASSUME Rest, NEW m, NEW t \in Tracks, GivesUpFrom(m, queue, current),
           t # current \/ m.els[m.active].terminal = t => Fits(m, queue, current),
           GiveUp(m, m.active, t), UNCHANGED <<queue, playMode>>
    PROVE  IInv'
<1> DEFINE n == [abortFullDownload(m, m.active) EXCEPT !.tasks = Disown(@, m.active), !.els[m.active] = GivenUp(@, t)]
<1>1. /\ queue \in Seq(Tracks) /\ order \in Seq(Nat) /\ playMode \in {"sequential", "single", "shuffle"}
      /\ playing \in BOOLEAN
  BY DEF Rest
<1>2. CASE t # current \/ m.els[m.active].terminal = t
  <2>1. media' = m /\ UNCHANGED <<index, order, playing>>
    BY <1>2 DEF GiveUp
  <2>2. QED
    BY <1>1, <1>2, <2>1, StaysInPlace
<1>3. CASE t = current /\ m.els[m.active].terminal # t
  <2>1. Fits(n, queue, current)
    BY <1>3, GivenUpFits
  <2>2. \/ nextTrack(n, FALSE)
        \/ media' = n /\ playing' = FALSE /\ UNCHANGED <<index, order>>
    BY <1>3 DEF GiveUp
  <2>3. hasTrack /\ current = queue[index]
    <3>1. current # None
      BY <1>3, PlayerAssumption
    <3>2. QED
      BY <3>1 DEF current, hasTrack
  <2> HIDE DEF n
  <2>4. CASE nextTrack(n, FALSE)
    <3>1. index' \in DOMAIN queue /\ Fits(media', queue, queue[index']) /\ playing' \in BOOLEAN /\ order' \in Seq(Nat)
      BY <2>1, <2>3, <2>4, nextTrackFits
    <3>2. QED
      BY <1>1, <3>1, GoesOn
  <2>5. CASE media' = n /\ playing' = FALSE /\ UNCHANGED <<index, order>>
    BY <1>1, <2>1, <2>5, StaysInPlace
  <2>6. QED
    BY <2>2, <2>4, <2>5
<1>4. QED
  BY <1>2, <1>3

\* A source that is over: its recovery goes on, if it has one.
Over(m) == [m EXCEPT !.els[m.active].over = TRUE]

LEMMA OverIs ==
    ASSUME NEW m \in Medias
    PROVE  LET e == m.active
               n == Over(m)
           IN  /\ n \in Medias /\ n.active = e /\ n.preloaded = m.preloaded /\ n.tasks = m.tasks
               /\ n.els[Other(e)] = m.els[Other(e)] /\ n.els[e] = [m.els[e] EXCEPT !.over = TRUE]
               /\ Preparing(n) = Preparing(m) /\ \A f : Recovering(n, f) = Recovering(m, f)
<1> DEFINE e == m.active
           u == [m.els[e] EXCEPT !.over = TRUE]
<1>1. e \in Elements /\ Other(e) \in Elements /\ Other(e) # e /\ m.els[e] \in Players
  BY MediaTyped
<1>2. u \in Players
  BY <1>1 DEF Players
<1>3. Over(m) = With(m, e, u)
  BY Zenon DEF Over, With
<1> HIDE DEF u
<1>4. LET n == With(m, e, u)
      IN  /\ n \in Medias /\ n.active = e /\ n.preloaded = m.preloaded /\ n.tasks = m.tasks
          /\ n.els[Other(e)] = m.els[Other(e)] /\ n.els[e] = u
          /\ Preparing(n) = Preparing(m) /\ \A f : Recovering(n, f) = Recovering(m, f)
  BY <1>1, <1>2, WithElement
<1>5. QED
  BY <1>3, <1>4 DEF u

LEMMA OverStays ==
    ASSUME NEW m, NEW q, NEW t, m \in Medias, ShowsIn(m, t), PreparedIn(m, q), RecoversAlone(m),
           StateInOrder(m, t), TasksInOrder(m, t)
    PROVE  LET n == Over(m)
           IN  /\ n \in Medias /\ ShowsIn(n, t) /\ PreparedIn(n, q) /\ RecoversAlone(n)
               /\ StateInOrder(n, t) /\ TasksInOrder(n, t)
<1> DEFINE e == m.active
           p == m.els[e]
           u == [p EXCEPT !.over = TRUE]
           n == Over(m)
<1>1. /\ n \in Medias /\ n.active = e /\ n.preloaded = m.preloaded /\ n.tasks = m.tasks
      /\ n.els[Other(e)] = m.els[Other(e)] /\ n.els[e] = u
      /\ Preparing(n) = Preparing(m) /\ \A f : Recovering(n, f) = Recovering(m, f)
  BY OverIs
<1>2. p \in Players
  BY MediaTyped
<1>3. /\ u.src = p.src /\ u.fb = p.fb /\ u.terminal = p.terminal /\ u.inFlight = p.inFlight
      /\ u.over = TRUE /\ u.attempted = p.attempted /\ u.origin = p.origin
  BY <1>2 DEF Players
<1> HIDE DEF n, u
<1>4. ShowsIn(n, t)
  BY <1>1, <1>3 DEF ShowsIn
<1>5. PreparedIn(n, q)
  <2>1. m.preloaded # None => m.preloaded.el = Other(e)
    BY DEF PreparedIn
  <2>2. QED
    BY <1>1, <2>1 DEF PreparedIn
<1>6. RecoversAlone(n)
  <2>1. Looks(n) => Looks(m)
    BY <1>1, WithLooks
  <2>2. QED
    BY <1>1, <1>3, <2>1 DEF RecoversAlone, Untouched
<1>7. StateInOrder(n, t)
  BY <1>1, <1>3 DEF StateInOrder, Loaded
<1>8. TasksInOrder(n, t)
  BY <1>1, <1>3 DEF TasksInOrder
<1>9. QED
  BY <1>1, <1>4, <1>5, <1>6, <1>7, <1>8 DEF n

LEMMA OverGoesOn ==
    ASSUME NEW m, NEW q, NEW t, Fits(m, q, t), m.els[m.active].fb # None
    PROVE  GoesOnFrom(Over(m), q, t)
<1> DEFINE e == m.active
           p == m.els[e]
           u == [p EXCEPT !.over = TRUE]
           n == Over(m)
<1>1. /\ m \in Medias /\ ShowsIn(m, t) /\ PreparedIn(m, q) /\ RecoversAlone(m)
      /\ StateInOrder(m, t) /\ TasksInOrder(m, t) /\ MovesIn(m, t)
  BY DEF Fits
<1>2. /\ n \in Medias /\ ShowsIn(n, t) /\ PreparedIn(n, q) /\ RecoversAlone(n)
      /\ StateInOrder(n, t) /\ TasksInOrder(n, t)
  BY <1>1, OverStays
<1>3. n.active = e /\ n.els[e] = u /\ Recovering(n, e) = Recovering(m, e)
  BY <1>1, OverIs
<1>4. p \in Players
  BY <1>1, MediaTyped
<1>5. u.fb = p.fb /\ u.inFlight = p.inFlight
  BY <1>4 DEF Players
<1> HIDE DEF n, u
<1>6. p.inFlight => p.fb.live
  BY <1>1 DEF StateInOrder
<1>7. MovesOn(n, t)
  BY <1>1, <1>3, <1>5, <1>6 DEF MovesIn, MovesOn
<1>8. GoesOnFrom(n, q, t)
  BY <1>2, <1>7 DEF GoesOnFrom
<1>9. QED
  BY <1>8 DEF n

\* Without a recovery, and with one that a pause has halted or that loads the whole file, nothing has to be added.
LEMMA OverFits ==
    ASSUME NEW m, NEW q, NEW t, Fits(m, q, t),
           t = None \/ m.els[m.active].fb = None \/ ~m.els[m.active].fb.live \/ m.els[m.active].fb.phase = "full"
    PROVE  Fits(Over(m), q, t)
<1> DEFINE e == m.active
           p == m.els[e]
           u == [p EXCEPT !.over = TRUE]
           n == Over(m)
<1>1. /\ m \in Medias /\ ShowsIn(m, t) /\ PreparedIn(m, q) /\ RecoversAlone(m)
      /\ StateInOrder(m, t) /\ TasksInOrder(m, t) /\ MovesIn(m, t)
  BY DEF Fits
<1>2. /\ n \in Medias /\ ShowsIn(n, t) /\ PreparedIn(n, q) /\ RecoversAlone(n)
      /\ StateInOrder(n, t) /\ TasksInOrder(n, t)
  BY <1>1, OverStays
<1>3. n.active = e /\ n.els[e] = u /\ Recovering(n, e) = Recovering(m, e)
  BY <1>1, OverIs
<1>4. p \in Players
  BY <1>1, MediaTyped
<1>5. u.fb = p.fb /\ u.inFlight = p.inFlight
  BY <1>4 DEF Players
<1> HIDE DEF n, u
<1>6. MovesIn(n, t)
  BY <1>1, <1>3, <1>5 DEF MovesIn
<1>7. Fits(n, q, t)
  BY <1>2, <1>6 DEF Fits
<1>8. QED
  BY <1>7 DEF n

\* What has not begun to recover begins.
BeginsFrom(m, q, t) ==
    LET p == m.els[m.active] IN
    /\ m \in Medias /\ ShowsIn(m, t) /\ PreparedIn(m, q) /\ RecoversAlone(m) /\ ~Looks(m)
    /\ p.terminal = None /\ ~p.inFlight /\ Recovering(m, m.active) = {}
    /\ ~Loaded(p) /\ p.src.kind # "revoked" /\ (p.src.kind = "stream" => p.over /\ p.attempted)

LEMMA BeginsFit ==
    ASSUME NEW m, NEW q, NEW t \in Tracks, BeginsFrom(m, q, t), NEW play \in BOOLEAN
    PROVE  Fits(beginRecovery(m, m.active, t, play), q, t)
<1> DEFINE e == m.active
           p == m.els[e]
           fb == [track |-> t, phase |-> "range", left |-> Ranges, live |-> TRUE, play |-> play]
           u == [p EXCEPT !.fb = fb]
           n == With(m, e, u)
<1>1. beginRecovery(m, e, t, play) = continueRecovery(n, e, t)
  BY Zenon DEF beginRecovery, With
<1>2. /\ m \in Medias /\ ShowsIn(m, t) /\ PreparedIn(m, q) /\ RecoversAlone(m) /\ ~Looks(m)
      /\ p.terminal = None /\ ~p.inFlight /\ Recovering(m, e) = {}
      /\ ~Loaded(p) /\ p.src.kind # "revoked" /\ (p.src.kind = "stream" => p.over /\ p.attempted)
  BY DEF BeginsFrom
<1>3. e \in Elements /\ Other(e) \in Elements /\ Other(e) # e /\ p \in Players
  BY <1>2, MediaTyped
<1>4. fb \in Fallbacks /\ fb.track = t /\ fb.phase = "range" /\ fb.live
  BY PlayerAssumption DEF Fallbacks
<1>5. fb # None
  BY <1>4, PlayerAssumption
<1> HIDE DEF fb
<1>6. /\ u \in Players /\ u.src = p.src /\ u.fb = fb /\ u.terminal = p.terminal /\ u.inFlight = p.inFlight
      /\ u.over = p.over /\ u.attempted = p.attempted /\ u.origin = p.origin
  BY <1>3, <1>4 DEF Players
<1> HIDE DEF u
<1>7. /\ n \in Medias /\ n.active = e /\ n.preloaded = m.preloaded /\ n.tasks = m.tasks
      /\ n.els[e] = u /\ n.els[Other(e)] = m.els[Other(e)]
      /\ Preparing(n) = Preparing(m) /\ \A f : Recovering(n, f) = Recovering(m, f)
  BY <1>2, <1>3, <1>6, WithElement
<1> HIDE DEF n
<1>8. ShowsIn(n, t)
  BY <1>2, <1>6, <1>7 DEF ShowsIn
<1>9. PreparedIn(n, q)
  BY <1>2, <1>7 DEF PreparedIn
<1>10. RecoversAlone(n)
  <2>1. Looks(n) => Looks(m)
    BY <1>7, WithLooks
  <2>2. QED
    BY <1>2, <1>7, <2>1 DEF RecoversAlone, Untouched
<1>11. StateInOrder(n, t)
  BY <1>2, <1>4, <1>5, <1>6, <1>7 DEF StateInOrder, Loaded
<1>12. TasksInOrder(n, t)
  BY <1>2, <1>7 DEF TasksInOrder
<1>13. MovesOn(n, t)
  BY <1>2, <1>5, <1>6, <1>7 DEF MovesOn
<1>14. GoesOnFrom(n, q, t)
  BY <1>7, <1>8, <1>9, <1>10, <1>11, <1>12, <1>13 DEF GoesOnFrom
<1>15. Fits(continueRecovery(n, n.active, t), q, t)
  BY <1>14, continueRecoveryFits
<1>16. QED
  BY <1>1, <1>7, <1>15

\* A conversion that is dropped for the track that plays: nothing of it is a recovery.
LEMMA FullAbortedFits ==
    ASSUME NEW m, NEW q, NEW t, Fits(m, q, t)
    PROVE  LET n == abortFullDownload(m, m.active)
           IN  /\ Fits(n, q, t) /\ n.active = m.active /\ n.els = m.els
               /\ (Looks(n) => Looks(m)) /\ \A f : Recovering(n, f) = Recovering(m, f)
<1> DEFINE e == m.active
           n == abortFullDownload(m, e)
<1>1. m \in Medias /\ PreparedIn(m, q) /\ Untouched(m, Other(e)) /\ e \in Elements
  BY MediaTyped DEF Fits, RecoversAlone
<1>2. /\ n \in Medias /\ n.active = e /\ n.preloaded = m.preloaded /\ n.els = m.els
      /\ n.tasks = Outdate(m.tasks, {e}, {"download"})
  BY <1>1, abortFullDownloadIs
<1> HIDE DEF n
<1>3. \A f : Recovering(n, f) = Recovering(m, f)
  <2>1. {"download"} \cap Recovery = {}
    BY DEF Recovery
  <2>2. QED
    BY <1>1, <1>2, <2>1, OutdatesNone
<1>4. \A x \in Preparing(n) : x \in Preparing(m)
  BY <1>1, <1>2, OutdatesPreparing
<1>5. Looks(n) => Looks(m)
  BY <1>1, <1>2, OutdatesLooks
<1>6. PreparedIn(n, q)
  BY <1>1, <1>2, <1>4 DEF PreparedIn
<1>7. Untouched(n, Other(e))
  BY <1>1, <1>2, <1>3 DEF Untouched
<1>8. StillActive(n, m)
  BY <1>2, <1>3, <1>5 DEF StillActive
<1>9. Fits(n, q, t)
  BY <1>2, <1>6, <1>7, <1>8, StillFits
<1>10. QED
  BY <1>2, <1>3, <1>5, <1>9 DEF n

LEMMA StreamFails ==
    ASSUME NEW m, NEW q, NEW t \in Tracks, Fits(m, q, t), ~Looks(m), m.els[m.active].src.kind = "stream",
           ~m.els[m.active].over, NEW play \in BOOLEAN
    PROVE  LET k == Over(abortFullDownload(m, m.active))
           IN  /\ Fits(k, q, t)
               /\ ~(m.els[m.active].terminal = t \/ m.els[m.active].attempted) =>
                     Fits(beginRecovery([k EXCEPT !.els[m.active].attempted = TRUE], m.active, t, play), q, t)
<1> DEFINE e == m.active
           p == m.els[e]
           d == abortFullDownload(m, e)
           k == Over(d)
           v == [k.els[e] EXCEPT !.attempted = TRUE]
           n == With(k, e, v)
<1>1. m \in Medias /\ StateInOrder(m, t) /\ e \in Elements /\ Other(e) \in Elements /\ Other(e) # e /\ p \in Players
  BY MediaTyped DEF Fits
<1>2. p.fb = None
  BY <1>1 DEF StateInOrder
<1>3. /\ Fits(d, q, t) /\ d.active = e /\ d.els = m.els
      /\ (Looks(d) => Looks(m)) /\ \A f : Recovering(d, f) = Recovering(m, f)
  BY FullAbortedFits
<1> HIDE DEF d
<1>4. Fits(k, q, t)
  BY <1>2, <1>3, OverFits
<1>5. ASSUME p.terminal # t, ~p.attempted
      PROVE  Fits(beginRecovery([k EXCEPT !.els[e].attempted = TRUE], e, t, play), q, t)
  <2>1. t # None
    BY PlayerAssumption
  <2>2. p.terminal = None
    BY <1>1, <1>5, <2>1 DEF StateInOrder
  <2>3. ~p.inFlight
    BY <1>1, <1>2, <2>2 DEF StateInOrder
  <2>4. Recovering(m, e) = {}
    BY <1>1, <1>2, <1>5, <2>2 DEF StateInOrder
  <2>5. d \in Medias
    BY <1>3 DEF Fits
  <2>6. /\ k \in Medias /\ k.active = e /\ k.tasks = d.tasks /\ k.els[e] = [p EXCEPT !.over = TRUE]
        /\ \A f : Recovering(k, f) = Recovering(d, f)
    BY <1>3, <2>5, OverIs
  <2>7. ~Looks(k)
    BY <1>3, <2>6, WithLooks
  <2> HIDE DEF k
  <2>8. [k EXCEPT !.els[e].attempted = TRUE] = n
    BY Zenon DEF With
  <2>9. /\ v \in Players /\ v.src = p.src /\ v.terminal = p.terminal /\ v.inFlight = p.inFlight
        /\ v.over = TRUE /\ v.attempted = TRUE
    BY <1>1, <2>6 DEF Players
  <2> HIDE DEF v
  <2>10. /\ n \in Medias /\ n.active = k.active /\ n.preloaded = k.preloaded /\ n.tasks = k.tasks
         /\ n.els[e] = v /\ n.els[Other(e)] = k.els[Other(e)]
         /\ Preparing(n) = Preparing(k) /\ \A f : Recovering(n, f) = Recovering(k, f)
    BY <1>1, <2>6, <2>9, WithElement, SMTT(30)
  <2> HIDE DEF n
  <2>11. ShowsIn(n, t)
    <3>1. ShowsIn(m, t)
      BY DEF Fits
    <3>2. QED
      BY <2>6, <2>9, <2>10, <3>1 DEF ShowsIn
  <2>12. PreparedIn(n, q)
    <3>1. PreparedIn(k, q)
      BY <1>4 DEF Fits
    <3>2. QED
      BY <2>6, <2>10, <3>1 DEF PreparedIn
  <2>13. ~Looks(n)
    BY <2>7, <2>10, WithLooks
  <2>14. RecoversAlone(n)
    <3>1. Untouched(k, Other(e))
      BY <1>4, <2>6 DEF Fits, RecoversAlone
    <3>2. QED
      BY <2>6, <2>10, <2>13, <3>1 DEF RecoversAlone, Untouched
  <2>15. Recovering(n, e) = {}
    BY <1>3, <2>4, <2>6, <2>10
  <2>16. BeginsFrom(n, q, t)
    BY <2>2, <2>3, <2>6, <2>9, <2>10, <2>11, <2>12, <2>13, <2>14, <2>15 DEF BeginsFrom,
       Loaded
  <2>17. Fits(beginRecovery(n, n.active, t, play), q, t)
    BY <2>16, BeginsFit
  <2>18. QED
    BY <2>6, <2>8, <2>10, <2>17
<1>6. QED
  BY <1>4, <1>5 DEF d

LEMMA BlobFails ==
    ASSUME NEW m, NEW q, NEW t \in Tracks, Fits(m, q, t), ~Looks(m), m.els[m.active].fb = None,
           Loaded(m.els[m.active]), NEW play \in BOOLEAN
    PROVE  Fits(beginRecovery([Over(m) EXCEPT !.els[m.active].origin = None], m.active, t, play), q, t)
<1> DEFINE e == m.active
           p == m.els[e]
           k == Over(m)
           v == [k.els[e] EXCEPT !.origin = None]
           n == With(k, e, v)
<1>1. m \in Medias /\ StateInOrder(m, t) /\ e \in Elements /\ Other(e) \in Elements /\ Other(e) # e /\ p \in Players
  BY MediaTyped DEF Fits
<1>2. Fits(k, q, t)
  BY OverFits
<1>3. p.terminal = None
  BY <1>1 DEF StateInOrder
<1>4. ~p.inFlight
  BY <1>1, <1>3 DEF StateInOrder
<1>5. Recovering(m, e) = {}
  BY <1>1, <1>3 DEF StateInOrder
<1>6. /\ k \in Medias /\ k.active = e /\ k.tasks = m.tasks /\ k.els[e] = [p EXCEPT !.over = TRUE]
      /\ \A f : Recovering(k, f) = Recovering(m, f)
  BY <1>1, OverIs
<1> HIDE DEF k
<1>7. [k EXCEPT !.els[e].origin = None] = n
  BY Zenon DEF With
<1>8. /\ v \in Players /\ v.src = p.src /\ v.terminal = p.terminal /\ v.inFlight = p.inFlight /\ v.origin = None
  BY <1>1, <1>6 DEF Players
<1> HIDE DEF v
<1>9. /\ n \in Medias /\ n.active = k.active /\ n.preloaded = k.preloaded /\ n.tasks = k.tasks
      /\ n.els[e] = v /\ n.els[Other(e)] = k.els[Other(e)]
      /\ Preparing(n) = Preparing(k) /\ \A f : Recovering(n, f) = Recovering(k, f)
  <2>1. k \in Medias /\ e \in Elements /\ v \in Players
    BY <1>1, <1>6, <1>8
  <2>2. QED
    BY ONLY <1>1, <2>1, WithElement, SMTT(30)
<1> HIDE DEF n
<1>10. ShowsIn(n, t)
  <2>1. ShowsIn(m, t)
    BY DEF Fits
  <2>2. QED
    BY <1>6, <1>8, <1>9, <2>1 DEF ShowsIn
<1>11. PreparedIn(n, q)
  <2>1. PreparedIn(k, q)
    BY <1>2 DEF Fits
  <2>2. QED
    BY <1>6, <1>9, <2>1 DEF PreparedIn
<1>12. ~Looks(n)
  BY <1>6, <1>9, WithLooks
<1>13. RecoversAlone(n)
  <2>1. Untouched(k, Other(e))
    BY <1>2, <1>6 DEF Fits, RecoversAlone
  <2>2. QED
    BY <1>6, <1>9, <1>12, <2>1 DEF RecoversAlone, Untouched
<1>14. Recovering(n, e) = {}
  BY <1>5, <1>6, <1>9
<1>15. ~Loaded(v) /\ v.src.kind = "blob"
  BY <1>8, PlayerAssumption DEF Loaded
<1>16. BeginsFrom(n, q, t)
  BY <1>3, <1>4, <1>6, <1>8, <1>9, <1>10, <1>11, <1>12, <1>13, <1>14, <1>15 DEF BeginsFrom
<1>17. Fits(beginRecovery(n, n.active, t, play), q, t)
  BY <1>16, BeginsFit
<1>18. QED
  BY <1>6, <1>7, <1>9, <1>17 DEF k

LEMMA MediaErrorKeeps ==
    ASSUME Rest, Fits(media, queue, current), MediaError
    PROVE  IInv'
<1> DEFINE e == media.active
           p == media.els[e]
           k == Over(abortFullDownload(media, e))
<1>1. UNCHANGED <<queue, playMode>> /\ ~Looks(media) /\ p.src # NoSrc /\ ~p.over
  BY DEF MediaError, Looking, Act
<1>2. \/ /\ ~hasTrack \/ p.src.kind = "revoked"
         /\ media' = Over(media) /\ playing' = FALSE /\ UNCHANGED <<index, order>>
      \/ /\ hasTrack /\ p.src.kind = "stream"
         /\ media' = IF p.terminal = current \/ p.attempted THEN k
                     ELSE beginRecovery([k EXCEPT !.els[e].attempted = TRUE], e, current, playing)
         /\ playing' = FALSE /\ UNCHANGED <<index, order>>
      \/ /\ hasTrack /\ p.src.kind = "blob" /\ p.fb # None /\ p.fb.phase = "range"
         /\ media' = continueRecovery(Over(media), e, current)
         /\ playing' = FALSE /\ UNCHANGED <<index, order>>
      \/ /\ hasTrack /\ p.src.kind = "blob" /\ p.fb = None /\ p.origin = "background"
         /\ media' = beginRecovery([Over(media) EXCEPT !.els[e].origin = None], e, current, playing)
         /\ playing' = FALSE /\ UNCHANGED <<index, order>>
      \/ /\ hasTrack /\ p.src.kind = "blob" /\ (IF p.fb = None THEN p.origin # "background" ELSE p.fb.phase = "full")
         /\ GiveUp(Over(media), e, current)
  <2>1. abortFullDownload(media, e).active = e
    BY MediaTyped, abortFullDownloadIs DEF Fits
  <2>2. [abortFullDownload(media, e) EXCEPT !.els[e].over = TRUE] = k
    BY <2>1 DEF Over
  <2>3. [media EXCEPT !.els[e].over = TRUE] = Over(media)
    BY DEF Over
  <2> HIDE DEF k
  <2>4. QED
    BY <2>2, <2>3 DEF MediaError, Act
<1>3. /\ queue \in Seq(Tracks) /\ order \in Seq(Nat) /\ playMode \in {"sequential", "single", "shuffle"}
      /\ playing \in BOOLEAN
  BY DEF Rest
<1>4. IF hasTrack THEN current \in Tracks ELSE current = None
  BY <1>3 DEF current, hasTrack
<1>5. StateInOrder(media, current) /\ media \in Medias
  BY DEF Fits
<1>6. ASSUME Fits(media', queue, current), playing' = FALSE, UNCHANGED <<index, order>> PROVE IInv'
  BY <1>1, <1>3, <1>6, StaysInPlace
<1>7. CASE (~hasTrack \/ p.src.kind = "revoked") /\ media' = Over(media) /\ playing' = FALSE /\ UNCHANGED <<index, order>>
  <2>1. current = None \/ p.fb = None
    BY <1>4, <1>5, <1>7 DEF StateInOrder
  <2>2. Fits(Over(media), queue, current)
    BY <2>1, OverFits
  <2>3. QED
    BY <1>6, <1>7, <2>2
<1>8. CASE /\ hasTrack /\ p.src.kind = "stream"
           /\ media' = IF p.terminal = current \/ p.attempted THEN k
                       ELSE beginRecovery([k EXCEPT !.els[e].attempted = TRUE], e, current, playing)
           /\ playing' = FALSE /\ UNCHANGED <<index, order>>
  <2>1. /\ Fits(k, queue, current)
        /\ ~(p.terminal = current \/ p.attempted) =>
             Fits(beginRecovery([k EXCEPT !.els[e].attempted = TRUE], e, current, playing), queue, current)
    BY <1>1, <1>3, <1>4, <1>8, StreamFails
  <2> HIDE DEF k
  <2>2. QED
    BY <1>6, <1>8, <2>1
<1>9. CASE /\ hasTrack /\ p.src.kind = "blob" /\ p.fb # None /\ p.fb.phase = "range"
           /\ media' = continueRecovery(Over(media), e, current)
           /\ playing' = FALSE /\ UNCHANGED <<index, order>>
  <2>1. GoesOnFrom(Over(media), queue, current)
    BY <1>9, OverGoesOn
  <2>2. Over(media).active = e
    BY <1>5, OverIs
  <2>3. Fits(continueRecovery(Over(media), Over(media).active, current), queue, current)
    BY <1>4, <1>9, <2>1, continueRecoveryFits
  <2>4. QED
    BY <1>6, <1>9, <2>2, <2>3
<1>10. CASE /\ hasTrack /\ p.src.kind = "blob" /\ p.fb = None /\ p.origin = "background"
            /\ media' = beginRecovery([Over(media) EXCEPT !.els[e].origin = None], e, current, playing)
            /\ playing' = FALSE /\ UNCHANGED <<index, order>>
  <2>1. Loaded(p)
    BY <1>10 DEF Loaded
  <2>2. Fits(beginRecovery([Over(media) EXCEPT !.els[e].origin = None], e, current, playing), queue, current)
    BY <1>1, <1>3, <1>4, <1>10, <2>1, BlobFails
  <2>3. QED
    BY <1>6, <1>10, <2>2
<1>11. CASE /\ hasTrack /\ p.src.kind = "blob" /\ (IF p.fb = None THEN p.origin # "background" ELSE p.fb.phase = "full")
            /\ GiveUp(Over(media), e, current)
  <2> DEFINE n == Over(media)
  <2>1. p.fb = None \/ p.fb.phase = "full"
    BY <1>11
  <2>2. Fits(n, queue, current)
    BY <2>1, OverFits
  <2>3. n.active = e /\ n.tasks = media.tasks /\ n.els[e] = [p EXCEPT !.over = TRUE]
    BY <1>5, OverIs
  <2>4. p \in Players
    BY <1>5, MediaTyped
  <2>5. n.els[n.active].fb = p.fb
    BY <2>3, <2>4 DEF Players
  <2>6. ~Looks(n)
    BY <1>1, <2>3, WithLooks
  <2> HIDE DEF n
  <2>7. GivesUpFrom(n, queue, current)
    BY <2>1, <2>2, <2>5, <2>6 DEF GivesUpFrom, Fits
  <2>8. GiveUp(n, n.active, current)
    BY <1>11, <2>3 DEF n
  <2>9. QED
    BY <1>1, <1>4, <1>11, <2>2, <2>7, <2>8, GiveUpKeeps
<1>12. QED
  BY <1>2, <1>7, <1>8, <1>9, <1>10, <1>11

LEMMA EndedKeeps ==
    ASSUME Rest, Fits(media, queue, current), Ended
    PROVE  IInv'
<1> DEFINE e == media.active
           fb == media.els[e].fb
<1>1. UNCHANGED <<queue, playMode>>
  BY DEF Ended
<1>2. /\ queue \in Seq(Tracks) /\ order \in Seq(Nat) /\ playMode \in {"sequential", "single", "shuffle"}
      /\ playing \in BOOLEAN
  BY DEF Rest
<1>3. hasTrack => current \in Tracks /\ current = queue[index]
  BY <1>2 DEF current, hasTrack
<1>4. CASE hasTrack /\ fb # None
  <2>1. media' = (IF fb.phase = "range" /\ fb.live THEN continueRecovery(Over(media), e, current) ELSE Over(media))
        /\ UNCHANGED <<index, order, playing>>
    BY <1>4 DEF Ended, Over, Act
  <2>2. GoesOnFrom(Over(media), queue, current)
    BY <1>4, OverGoesOn
  <2>3. Over(media).active = e
    BY OverIs DEF Fits
  <2>4. Fits(continueRecovery(Over(media), Over(media).active, current), queue, current)
    BY <1>3, <1>4, <2>2, continueRecoveryFits
  <2>5. media \in Medias /\ media.els[e] \in Players
    BY MediaTyped DEF Fits
  <2>6. fb.phase \in {"range", "full"}
    BY <1>4, <2>5 DEF Players, Fallbacks
  <2>7. ~(fb.phase = "range" /\ fb.live) => Fits(Over(media), queue, current)
    BY <2>6, OverFits
  <2>8. Fits(media', queue, current)
    BY <2>1, <2>3, <2>4, <2>7
  <2>9. QED
    BY <1>1, <1>2, <2>1, <2>8, StaysInPlace
<1>5. CASE hasTrack /\ fb = None
  <2> DEFINE n == invalidatePreload(media)
  <2>1. nextTrack(n, FALSE)
    BY <1>5 DEF Ended, Act
  <2>2. Fits(n, queue, queue[index])
    BY <1>3, <1>5, InvalidatedFits
  <2> HIDE DEF n
  <2>3. index' \in DOMAIN queue /\ Fits(media', queue, queue[index']) /\ playing' \in BOOLEAN /\ order' \in Seq(Nat)
    BY <1>5, <2>1, <2>2, nextTrackFits
  <2>4. QED
    BY <1>1, <1>2, <2>3, GoesOn
<1>6. CASE ~hasTrack
  <2> DEFINE n == IF fb # None THEN media ELSE invalidatePreload(media)
  <2>1. nextOfNothing(n, FALSE)
    BY <1>6 DEF Ended, Act
  <2>2. Fits(n, queue, current)
    BY InvalidatedFits
  <2> HIDE DEF n
  <2>3. media' = n /\ index' = index /\ playing' \in BOOLEAN /\ order' \in Seq(Nat)
    BY <2>1, nextOfNothingStays
  <2>4. QED
    BY <1>1, <1>2, <2>2, <2>3, StaysInPlace
<1>7. QED
  BY <1>4, <1>5, <1>6

-----------------------------------------------------------------------------
(* The answers of a recovery.                                              *)

\* One that comes back is no longer under way; the rest is as it was.
LEMMA DoneStays ==
    ASSUME NEW m, NEW q, NEW c1, Fits(m, q, c1), NEW t \in m.tasks, t.kind \in Recovery
    PROVE  LET n == Done(m, t)
           IN  /\ n \in Medias /\ n.active = m.active /\ n.preloaded = m.preloaded /\ n.els = m.els /\ n.tasks = m.tasks \ {t}
               /\ ShowsIn(n, c1) /\ PreparedIn(n, q) /\ RecoversAlone(n) /\ StateInOrder(n, c1) /\ TasksInOrder(n, c1)
               /\ (Looks(n) <=> Looks(m)) /\ Preparing(n) = Preparing(m)
               /\ \A f : Recovering(n, f) = Recovering(m, f) \ {t}
<1> DEFINE n == Done(m, t)
           e == m.active
<1>1. /\ m \in Medias /\ ShowsIn(m, c1) /\ PreparedIn(m, q) /\ RecoversAlone(m)
      /\ StateInOrder(m, c1) /\ TasksInOrder(m, c1)
  BY DEF Fits
<1>2. n \in Medias /\ n.active = e /\ n.preloaded = m.preloaded /\ n.els = m.els /\ n.tasks = m.tasks \ {t}
  BY <1>1, DoneIs
<1> HIDE DEF n
<1>3. \A f : Recovering(n, f) = Recovering(m, f) \ {t}
  BY <1>2 DEF Recovering
<1>4. Preparing(n) = Preparing(m)
  BY <1>2 DEF Preparing, Preload, Recovery
<1>5. Looks(n) <=> Looks(m)
  BY <1>2 DEF Looks, Recovery
<1>6. ShowsIn(n, c1)
  BY <1>1, <1>2 DEF ShowsIn
<1>7. PreparedIn(n, q)
  BY <1>1, <1>2, <1>4 DEF PreparedIn
<1>8. RecoversAlone(n)
  BY <1>1, <1>2, <1>3, <1>5 DEF RecoversAlone, Untouched
<1>9. StateInOrder(n, c1)
  <2>1. Recovering(m, e) = {} => Recovering(n, e) = {}
    BY <1>3
  <2>2. QED
    BY <1>1, <1>2, <2>1 DEF StateInOrder
<1>10. TasksInOrder(n, c1)
  <2>1. \A x \in Recovering(n, e) : x \in Recovering(m, e)
    BY <1>3
  <2>2. QED
    BY <1>1, <1>2, <2>1 DEF TasksInOrder
<1>11. QED
  BY <1>2, <1>3, <1>4, <1>5, <1>6, <1>7, <1>8, <1>9, <1>10 DEF n

\* A recovery that is still fresh or still its own is the active element's.
LEMMA RecoversHere ==
    ASSUME NEW m, NEW q, NEW c1, Fits(m, q, c1), NEW t \in m.tasks, t.kind \in Recovery, t.fresh \/ t.same
    PROVE  t.el = m.active /\ t \in Recovering(m, m.active) /\ ~Looks(m)
<1>1. m \in Medias /\ RecoversAlone(m) /\ t \in Tasks
  BY DEF Fits, Medias
<1>2. t.el \in Elements
  BY <1>1 DEF Tasks
<1>3. t \in Recovering(m, t.el)
  BY DEF Recovering
<1>4. Recovering(m, Other(m.active)) = {} /\ (Looks(m) => Recovering(m, m.active) = {})
  BY <1>1 DEF RecoversAlone, Untouched
<1>5. t.el = m.active
  BY <1>1, <1>2, <1>3, <1>4, MediaTyped
<1>6. QED
  BY <1>3, <1>4, <1>5

\* An answer nothing waits for.
LEMMA DoneFits ==
    ASSUME NEW m, NEW q, NEW c1, Fits(m, q, c1), NEW t \in m.tasks, t.kind \in Recovery,
           \/ ~t.fresh
           \/ m.els[m.active].fb = None
           \/ c1 = None /\ t.kind \notin {"range", "prepare"}
    PROVE  Fits(Done(m, t), q, c1)
<1> DEFINE n == Done(m, t)
           e == m.active
<1>1. /\ n \in Medias /\ n.active = e /\ n.els = m.els
      /\ ShowsIn(n, c1) /\ PreparedIn(n, q) /\ RecoversAlone(n) /\ StateInOrder(n, c1) /\ TasksInOrder(n, c1)
      /\ \A f : Recovering(n, f) = Recovering(m, f) \ {t}
  BY DoneStays
<1> HIDE DEF n
<1>2. MovesIn(m, c1)
  BY DEF Fits
<1>3. \A x \in Recovering(m, e) : x # t => x \in Recovering(n, e)
  BY <1>1
<1>4. MovesIn(n, c1)
  BY <1>1, <1>2, <1>3 DEF MovesIn
<1>5. Fits(n, q, c1)
  BY <1>1, <1>4 DEF Fits
<1>6. QED
  BY <1>5 DEF n

\* A range is under way alone.
LEMMA RangeAlone ==
    ASSUME NEW m, NEW q, NEW c1, Fits(m, q, c1), NEW t \in m.tasks, t.kind = "range", t.fresh
    PROVE  LET p == m.els[m.active]
           IN  /\ t.el = m.active /\ t \in Recovering(m, m.active) /\ ~Looks(m) /\ t.same
               /\ p.fb # None /\ p.fb \in Fallbacks /\ p.fb.phase = "range" /\ p.fb.live /\ p.inFlight /\ p.terminal = None
               /\ (c1 # None => t.track = c1)
               /\ \A x \in Recovering(m, m.active) :
                    x # t => ~x.fresh /\ ~(x.same /\ x.kind = "prepare" /\ x.complete) /\ (x.kind = "prepareFull" => x.complete)
<1> DEFINE e == m.active
           p == m.els[e]
<1>1. m \in Medias /\ StateInOrder(m, c1) /\ TasksInOrder(m, c1)
  BY DEF Fits
<1>2. t.el = e /\ t \in Recovering(m, e) /\ ~Looks(m)
  BY RecoversHere DEF Recovery
<1>3. p.fb # None /\ p.fb.phase = "range" /\ p.inFlight /\ (c1 # None => t.track = c1) /\ (~t.same => p.terminal # None)
  BY <1>1, <1>2 DEF TasksInOrder
<1>4. p.terminal = None /\ p.fb.live
  BY <1>1, <1>3 DEF StateInOrder
<1>5. p.fb \in Fallbacks
  BY <1>1, <1>3, MediaTyped DEF Players
<1>6. ASSUME NEW x \in Recovering(m, e), x # t
      PROVE  ~x.fresh /\ ~(x.same /\ x.kind = "prepare" /\ x.complete) /\ (x.kind = "prepareFull" => x.complete)
  <2>1. /\ x.fresh => x.same
        /\ x.kind \in Recovery
        /\ x.fresh /\ x.kind \in {"full", "prepareFull"} => FALSE
        /\ ~(x.same /\ x.kind = "prepare" /\ x.complete)
        /\ x.kind = "prepareFull" => x.complete
    BY <1>1, <1>3, <1>4, <1>6 DEF TasksInOrder, Recovering
  <2>2. x.fresh /\ x.same /\ x.kind \in {"range", "prepare"} => x = t
    BY <1>1, <1>2, <1>3, <1>4, <1>6 DEF TasksInOrder
  <2>3. QED
    BY <1>6, <2>1, <2>2 DEF Recovery
<1>7. QED
  BY <1>2, <1>3, <1>4, <1>5, <1>6

LEMMA WithTwice ==
    ASSUME NEW m \in Medias, NEW e \in Elements, NEW p \in Players, NEW u \in Players
    PROVE  With(With(m, e, p), e, u) = With(m, e, u)
<1>1. m.els \in [Elements -> Players]
  BY MediaTyped
<1>2. [[m.els EXCEPT ![e] = p] EXCEPT ![e] = u] = [m.els EXCEPT ![e] = u]
  BY <1>1
<1>3. /\ With(m, e, p) = [m EXCEPT !.els = [m.els EXCEPT ![e] = p]]
      /\ With(m, e, u) = [m EXCEPT !.els = [m.els EXCEPT ![e] = u]]
  BY DEF With
<1> DEFINE k == With(m, e, p)
<1>4. k \in Medias /\ k.els = [m.els EXCEPT ![e] = p]
  BY MediaChanged DEF With, Medias
<1>5. With(k, e, u) = [k EXCEPT !.els = [k.els EXCEPT ![e] = u]]
  BY DEF With
<1>6. [[m EXCEPT !.els = [m.els EXCEPT ![e] = p]] EXCEPT !.els = [m.els EXCEPT ![e] = u]] = [m EXCEPT !.els = [m.els EXCEPT ![e] = u]]
  BY DEF Medias
<1> HIDE DEF k
<1>7. With(k, e, u) = [k EXCEPT !.els = [m.els EXCEPT ![e] = u]]
  BY <1>2, <1>4, <1>5
<1>8. QED
  BY <1>3, <1>6, <1>7 DEF k

\* A range that fails: what is left is the whole file.
Failed(m, e) == [m EXCEPT !.els[e].inFlight = FALSE, !.els[e].fb.left = 0]
Dropped(m, e) == [m EXCEPT !.els[e].inFlight = FALSE]

LEMMA RangeFails ==
    ASSUME NEW m, NEW q, NEW c1 \in Tracks \cup {None}, Fits(m, q, c1), NEW t \in m.tasks, t.kind = "range", t.fresh
    PROVE  Fits(continueRecovery(Failed(Done(m, t), t.el), t.el, c1), q, c1)
<1> DEFINE e == m.active
           p == m.els[e]
           d == Done(m, t)
           gb == [p.fb EXCEPT !.left = 0]
           v == [p EXCEPT !.inFlight = FALSE]
           u == [v EXCEPT !.fb = gb]
           n == With(d, e, u)
<1>1. /\ t.el = e /\ t \in Recovering(m, e) /\ ~Looks(m) /\ t.same
      /\ p.fb # None /\ p.fb \in Fallbacks /\ p.fb.phase = "range" /\ p.fb.live /\ p.inFlight /\ p.terminal = None
      /\ (c1 # None => t.track = c1)
      /\ \A x \in Recovering(m, e) :
           x # t => ~x.fresh /\ ~(x.same /\ x.kind = "prepare" /\ x.complete) /\ (x.kind = "prepareFull" => x.complete)
  BY RangeAlone
<1>2. /\ d \in Medias /\ d.active = e /\ d.preloaded = m.preloaded /\ d.els = m.els
      /\ ShowsIn(d, c1) /\ PreparedIn(d, q) /\ RecoversAlone(d) /\ StateInOrder(d, c1) /\ TasksInOrder(d, c1)
      /\ (Looks(d) <=> Looks(m)) /\ \A f : Recovering(d, f) = Recovering(m, f) \ {t}
  BY DoneStays DEF Recovery
<1>3. e \in Elements /\ Other(e) \in Elements /\ Other(e) # e /\ p \in Players
  BY <1>2, MediaTyped
<1>4. gb \in Fallbacks /\ gb.track = p.fb.track /\ gb.phase = "range" /\ gb.left = 0 /\ gb.live
  BY <1>1 DEF Fallbacks
<1>5. gb # None
  BY <1>4, PlayerAssumption
<1>6. Failed(d, t.el) = n
  <2> DEFINE a1 == With(d, e, v)
  <2>1. v \in Players /\ v.fb = p.fb
    BY <1>3 DEF Players
  <2>2. u \in Players
    <3>1. ASSUME NEW y \in Players, NEW g \in Fallbacks PROVE [y EXCEPT !.fb = g] \in Players
      BY DEF Players
    <3> HIDE DEF v, gb
    <3>2. QED
      BY <2>1, <1>4, <3>1
  <2>3. [d EXCEPT !.els[e].inFlight = FALSE] = a1
    BY <1>2, Zenon DEF With
  <2> HIDE DEF v, gb
  <2>4. a1.els[e] = v
    BY <1>2, <1>3, <2>1, WithElement
  <2>5. [d EXCEPT !.els[e].inFlight = FALSE, !.els[e].fb.left = 0] = [[d EXCEPT !.els[e].inFlight = FALSE] EXCEPT !.els[e].fb.left = 0]
    OBVIOUS
  <2>6. With(a1, e, u) = n
    BY <1>2, <1>3, <2>1, <2>2, WithTwice
  <2> HIDE DEF a1, n
  <2>7. [a1 EXCEPT !.els[e].fb.left = 0] = With(a1, e, u)
    <3>1. [a1 EXCEPT !.els[e].fb.left = 0] = With(a1, e, [a1.els[e] EXCEPT !.fb.left = 0])
      BY Zenon DEF With
    <3>2. [v EXCEPT !.fb.left = 0] = u
      BY <2>1 DEF gb
    <3>3. QED
      BY <2>4, <3>1, <3>2
  <2>8. QED
    BY <1>1, <2>3, <2>5, <2>6, <2>7 DEF Failed
<1> HIDE DEF gb
<1>7. /\ u \in Players /\ ~u.inFlight /\ u.src = p.src /\ u.fb = gb /\ u.terminal = p.terminal
      /\ u.over = p.over /\ u.attempted = p.attempted /\ u.origin = p.origin
  BY <1>3, <1>4 DEF Players
<1> HIDE DEF u, d
<1>8. /\ n \in Medias /\ n.active = e /\ n.preloaded = m.preloaded /\ n.tasks = d.tasks
      /\ n.els[e] = u /\ n.els[Other(e)] = m.els[Other(e)]
      /\ Preparing(n) = Preparing(d) /\ \A f : Recovering(n, f) = Recovering(d, f)
  BY <1>2, <1>3, <1>7, WithElement, SMTT(30)
<1> HIDE DEF n
<1>9. ShowsIn(n, c1)
  BY <1>2, <1>7, <1>8 DEF ShowsIn
<1>10. PreparedIn(n, q)
  BY <1>2, <1>8 DEF PreparedIn
<1>11. RecoversAlone(n)
  <2>1. ~Looks(n)
    BY <1>1, <1>2, <1>8, WithLooks
  <2>2. QED
    BY <1>2, <1>8, <2>1 DEF RecoversAlone, Untouched
<1>12. StateInOrder(n, c1)
  BY <1>1, <1>2, <1>4, <1>5, <1>7, <1>8 DEF StateInOrder, Loaded
<1>13. TasksInOrder(n, c1)
  BY <1>1, <1>2, <1>8 DEF TasksInOrder
<1>14. MovesOn(n, c1)
  BY <1>5, <1>7, <1>8 DEF MovesOn
<1>15. GoesOnFrom(n, q, c1)
  BY <1>8, <1>9, <1>10, <1>11, <1>12, <1>13, <1>14 DEF GoesOnFrom
<1>16. Fits(continueRecovery(n, n.active, c1), q, c1)
  BY <1>15, continueRecoveryFits
<1>17. QED
  BY <1>1, <1>6, <1>8, <1>16 DEF d

\* One that comes when no track is current any more.
LEMMA RangeUnwanted ==
    ASSUME NEW m, NEW q, Fits(m, q, None), NEW t \in m.tasks, t.kind = "range", t.fresh
    PROVE  Fits(Dropped(Done(m, t), t.el), q, None)
<1> DEFINE e == m.active
           p == m.els[e]
           d == Done(m, t)
           u == [p EXCEPT !.inFlight = FALSE]
           n == With(d, e, u)
<1>1. /\ t.el = e /\ t \in Recovering(m, e) /\ ~Looks(m) /\ t.same
      /\ p.fb # None /\ p.fb \in Fallbacks /\ p.fb.phase = "range" /\ p.fb.live /\ p.inFlight /\ p.terminal = None
      /\ \A x \in Recovering(m, e) :
           x # t => ~x.fresh /\ ~(x.same /\ x.kind = "prepare" /\ x.complete) /\ (x.kind = "prepareFull" => x.complete)
  BY RangeAlone
<1>2. /\ d \in Medias /\ d.active = e /\ d.preloaded = m.preloaded /\ d.els = m.els
      /\ ShowsIn(d, None) /\ PreparedIn(d, q) /\ RecoversAlone(d) /\ StateInOrder(d, None) /\ TasksInOrder(d, None)
      /\ (Looks(d) <=> Looks(m)) /\ \A f : Recovering(d, f) = Recovering(m, f) \ {t}
  BY DoneStays DEF Recovery
<1>3. e \in Elements /\ Other(e) \in Elements /\ Other(e) # e /\ p \in Players
  BY <1>2, MediaTyped
<1>4. Dropped(d, t.el) = n
  BY <1>1, <1>2, Zenon DEF With, Dropped
<1>5. /\ u \in Players /\ ~u.inFlight /\ u.src = p.src /\ u.fb = p.fb /\ u.terminal = p.terminal
      /\ u.over = p.over /\ u.attempted = p.attempted /\ u.origin = p.origin
  BY <1>3 DEF Players
<1> HIDE DEF u, d
<1>6. /\ n \in Medias /\ n.active = e /\ n.preloaded = m.preloaded /\ n.tasks = d.tasks
      /\ n.els[e] = u /\ n.els[Other(e)] = m.els[Other(e)]
      /\ Preparing(n) = Preparing(d) /\ \A f : Recovering(n, f) = Recovering(d, f)
  BY <1>2, <1>3, <1>5, WithElement, SMTT(30)
<1> HIDE DEF n
<1>7. ShowsIn(n, None)
  BY DEF ShowsIn
<1>8. PreparedIn(n, q)
  BY <1>2, <1>6 DEF PreparedIn
<1>9. RecoversAlone(n)
  <2>1. ~Looks(n)
    BY <1>1, <1>2, <1>6, WithLooks
  <2>2. QED
    BY <1>2, <1>6, <2>1 DEF RecoversAlone, Untouched
<1>10. StateInOrder(n, None)
  BY <1>1, <1>2, <1>5, <1>6 DEF StateInOrder, Loaded
<1>11. TasksInOrder(n, None)
  BY <1>1, <1>2, <1>6 DEF TasksInOrder
<1>12. MovesIn(n, None)
  BY <1>1, <1>5, <1>6 DEF MovesIn
<1>13. Fits(n, q, None)
  BY <1>6, <1>7, <1>8, <1>9, <1>10, <1>11, <1>12 DEF Fits
<1>14. QED
  BY <1>4, <1>13 DEF d

\* A range that has come is prepared in its place.
Prepared(t, how) == [t EXCEPT !.kind = "prepare", !.complete = (how = "whole")]
Arrived(m, e, how, r) ==
    [m EXCEPT !.els[e].fb = Fetched(@, how), !.tasks = @ \cup {r}]

LEMMA FetchedIs ==
    ASSUME NEW g \in Fallbacks, NEW how
    PROVE  LET f == Fetched(g, how)
           IN  /\ f \in Fallbacks /\ f.track = g.track /\ f.live = g.live
               /\ (how = "whole" => f.phase = "full" /\ f.left = 0) /\ (how # "whole" => f.phase = g.phase)
<1>1. CASE how = "whole"
  <2> DEFINE f == [g EXCEPT !.left = 0, !.phase = "full"]
  <2>1. Fetched(g, how) = f
    BY <1>1 DEF Fetched
  <2>2. f \in Fallbacks
    <3>1. ASSUME NEW h \in Fallbacks PROVE [h EXCEPT !.left = 0] \in Fallbacks
      BY DEF Fallbacks
    <3>2. ASSUME NEW h \in Fallbacks PROVE [h EXCEPT !.phase = "full"] \in Fallbacks
      BY DEF Fallbacks
    <3>3. f = [[g EXCEPT !.left = 0] EXCEPT !.phase = "full"]
      OBVIOUS
    <3> HIDE DEF f
    <3>4. QED
      BY <3>1, <3>2, <3>3
  <2>3. f.track = g.track /\ f.live = g.live /\ f.phase = "full" /\ f.left = 0
    BY DEF Fallbacks
  <2> HIDE DEF f
  <2>4. QED
    BY <1>1, <2>1, <2>2, <2>3
<1>2. CASE how # "whole"
  <2>1. g.left \in Int
    BY DEF Fallbacks
  <2>2. Fetched(g, how) = [g EXCEPT !.left = g.left - 1]
    BY <1>2 DEF Fetched
  <2>3. QED
    BY <1>2, <2>1, <2>2 DEF Fallbacks
<1>3. QED
  BY <1>1, <1>2

LEMMA RangeAnswered ==
    ASSUME NEW m, NEW q, NEW c1, Fits(m, q, c1), NEW t \in m.tasks, t.kind = "range", t.fresh, NEW how
    PROVE  Fits(Arrived(Done(m, t), t.el, how, Prepared(t, how)), q, c1)
<1> DEFINE e == m.active
           p == m.els[e]
           d == Done(m, t)
           r == Prepared(t, how)
           gb == Fetched(p.fb, how)
           u == [p EXCEPT !.fb = gb]
           k == With(d, e, u)
           ts == k.tasks \cup {r}
           n == [k EXCEPT !.tasks = ts]
<1>1. /\ t.el = e /\ t \in Recovering(m, e) /\ ~Looks(m) /\ t.same
      /\ p.fb # None /\ p.fb \in Fallbacks /\ p.fb.phase = "range" /\ p.fb.live /\ p.inFlight /\ p.terminal = None
      /\ (c1 # None => t.track = c1)
      /\ \A x \in Recovering(m, e) :
           x # t => ~x.fresh /\ ~(x.same /\ x.kind = "prepare" /\ x.complete) /\ (x.kind = "prepareFull" => x.complete)
  BY RangeAlone
<1>2. /\ d \in Medias /\ d.active = e /\ d.preloaded = m.preloaded /\ d.els = m.els
      /\ ShowsIn(d, c1) /\ PreparedIn(d, q) /\ RecoversAlone(d) /\ StateInOrder(d, c1) /\ TasksInOrder(d, c1)
      /\ (Looks(d) <=> Looks(m)) /\ \A f : Recovering(d, f) = Recovering(m, f) \ {t}
  BY DoneStays DEF Recovery
<1>3. e \in Elements /\ Other(e) \in Elements /\ Other(e) # e /\ p \in Players /\ d.tasks \in SUBSET Tasks
  BY <1>2, MediaTyped
<1>4. /\ gb \in Fallbacks /\ gb.track = p.fb.track /\ gb.live
      /\ (how = "whole" => gb.phase = "full" /\ gb.left = 0) /\ (how # "whole" => gb.phase = "range")
  BY <1>1, FetchedIs
<1>5. gb # None
  BY <1>4, PlayerAssumption
<1>6. Arrived(d, t.el, how, r) = n
  <2> DEFINE x == [d EXCEPT !.els[e].fb = Fetched(@, how)]
  <2>1. Arrived(d, e, how, r) = [x EXCEPT !.tasks = @ \cup {r}]
    BY DEF Arrived
  <2>2. x = k
    BY <1>2, Zenon DEF With
  <2> HIDE DEF x, k, r
  <2>3. QED
    BY <1>1, <2>1, <2>2
<1> HIDE DEF gb
<1>7. /\ r \in Tasks /\ r.kind = "prepare" /\ r.el = e /\ r.track = t.track /\ r.fresh /\ r.same
      /\ (r.complete <=> how = "whole")
  <2>1. t \in Tasks
    BY <1>1 DEF Recovering, Fits, Medias
  <2>2. QED
    BY <1>1, <2>1 DEF Tasks, Recovery, Prepared
<1>8. /\ u \in Players /\ u.inFlight /\ u.src = p.src /\ u.fb = gb /\ u.terminal = p.terminal
      /\ u.over = p.over /\ u.attempted = p.attempted /\ u.origin = p.origin
  BY <1>1, <1>3, <1>4 DEF Players
<1> HIDE DEF u, d, r
<1>9. /\ k \in Medias /\ k.active = e /\ k.preloaded = m.preloaded /\ k.tasks = d.tasks
       /\ k.els[e] = u /\ k.els[Other(e)] = m.els[Other(e)]
  BY <1>2, <1>3, <1>8, WithElement, SMTT(30)
<1> HIDE DEF k
<1>10. ts \in SUBSET Tasks /\ ts = d.tasks \cup {r}
  BY <1>3, <1>7, <1>9
<1> HIDE DEF ts
<1>11. /\ n \in Medias /\ n.active = e /\ n.preloaded = m.preloaded /\ n.tasks = ts
       /\ n.els[e] = u /\ n.els[Other(e)] = m.els[Other(e)]
  BY <1>10, <1>9 DEF Medias
<1> HIDE DEF n
<1>12. Recovering(n, e) = Recovering(d, e) \cup {r}
  BY <1>7, <1>10, <1>11 DEF Recovering, Recovery
<1>13. Recovering(n, Other(e)) = Recovering(d, Other(e)) /\ Preparing(n) = Preparing(d)
  BY <1>3, <1>7, <1>10, <1>11 DEF Recovering, Preparing, Preload
<1>14. ~Looks(n)
  BY <1>1, <1>2, <1>7, <1>10, <1>11 DEF Looks
<1>15. ShowsIn(n, c1)
  BY <1>2, <1>8, <1>11 DEF ShowsIn
<1>16. PreparedIn(n, q)
  BY <1>2, <1>11, <1>13 DEF PreparedIn
<1>17. RecoversAlone(n)
  BY <1>2, <1>11, <1>13, <1>14 DEF RecoversAlone, Untouched
<1>18. StateInOrder(n, c1)
  BY <1>1, <1>2, <1>4, <1>5, <1>8, <1>11 DEF StateInOrder, Loaded
<1>19. TasksInOrder(n, c1)
  <2> SUFFICES ASSUME NEW x \in Recovering(n, e)
               PROVE  /\ x.fresh => (c1 # None => x.track = c1) /\ (~x.same => u.terminal # None)
                      /\ x.fresh /\ x.kind = "range" => u.fb # None /\ u.fb.phase = "range" /\ u.inFlight
                      /\ x.fresh /\ x.same /\ x.kind = "prepare" => u.fb = None \/ u.inFlight
                      /\ x.fresh /\ x.kind \in {"full", "prepareFull"} => u.fb = None \/ u.fb.phase = "full"
                      /\ x.same /\ x.kind = "prepare" /\ x.complete => u.fb = None \/ u.fb.phase = "full"
                      /\ x.kind = "prepareFull" => x.complete
                      /\ x.fresh /\ x.same /\ x.kind \in {"range", "prepare"} =>
                           \A y \in Recovering(n, e) : y.fresh /\ y.same /\ y.kind \in {"range", "prepare"} => y = x
    BY <1>11 DEF TasksInOrder
  <2>1. \A y \in Recovering(n, e) :
          y = r \/ (~y.fresh /\ ~(y.same /\ y.kind = "prepare" /\ y.complete) /\ (y.kind = "prepareFull" => y.complete))
    BY <1>1, <1>2, <1>12
  <2>2. CASE x = r
    BY <1>1, <1>4, <1>7, <1>8, <2>1, <2>2
  <2>3. CASE x # r
    BY <2>1, <2>3
  <2>4. QED
    BY <2>2, <2>3
<1>20. MovesIn(n, c1)
  <2>1. r \in Recovering(n, e)
    BY <1>12
  <2>2. gb.phase = "full" => r.complete
    BY <1>4, <1>7
  <2>3. QED
    BY <1>7, <1>8, <1>11, <2>1, <2>2 DEF MovesIn
<1>21. Fits(n, q, c1)
  BY <1>11, <1>15, <1>16, <1>17, <1>18, <1>19, <1>20 DEF Fits
<1>22. QED
  BY <1>6, <1>21 DEF d, r

LEMMA RangeDoneKeeps ==
    ASSUME Rest, Fits(media, queue, current), NEW t \in media.tasks, NEW how \in {"part", "whole", "error"}, RangeDone(t, how)
    PROVE  IInv'
<1> DEFINE d == Done(media, t)
           e == t.el
<1>1. /\ t.kind = "range" /\ UNCHANGED <<queue, index, playMode, order, playing>>
      /\ media' =
           IF ~t.fresh \/ (how # "error" /\ ~t.same) THEN d
           ELSE IF how = "error"
           THEN continueRecovery(Failed(d, e), e, current)
           ELSE IF e # d.active \/ current # t.track
           THEN Dropped(d, e)
           ELSE Arrived(d, e, how, Prepared(t, how))
  BY Zenon DEF RangeDone, Failed, Dropped, Arrived, Prepared
<1>2. /\ queue \in Seq(Tracks) /\ order \in Seq(Nat) /\ playMode \in {"sequential", "single", "shuffle"}
      /\ playing \in BOOLEAN
  BY DEF Rest
<1>3. current \in Tracks \cup {None}
  BY <1>2 DEF current
<1>4. media \in Medias
  BY DEF Fits
<1>5. d.active = media.active
  BY <1>4, DoneIs
<1>6. t.fresh => /\ e = media.active /\ t.same /\ (current # None => t.track = current)
  BY <1>1, RangeAlone
<1> HIDE DEF d
<1>7. CASE ~t.fresh
  <2>1. Fits(d, queue, current)
    BY <1>1, <1>7, DoneFits DEF Recovery, d
  <2>2. media' = d
    BY <1>1, <1>7
  <2>3. QED
    BY <1>1, <1>2, <2>1, <2>2, StaysInPlace
<1>8. CASE t.fresh /\ how = "error"
  <2>1. media' = continueRecovery(Failed(d, e), e, current)
    BY <1>1, <1>8
  <2>2. Fits(media', queue, current)
    BY <1>1, <1>3, <1>8, <2>1, RangeFails DEF d
  <2>3. QED
    BY <1>1, <1>2, <2>2, StaysInPlace
<1>9. CASE t.fresh /\ how # "error" /\ current # t.track
  <2>1. current = None
    BY <1>6, <1>9
  <2>2. media' = Dropped(d, e)
    BY <1>1, <1>6, <1>9
  <2>3. Fits(media, queue, None)
    BY <2>1
  <2>4. Fits(Dropped(d, e), queue, None)
    BY <1>1, <1>9, <2>3, RangeUnwanted DEF d
  <2>5. Fits(media', queue, current)
    BY <2>1, <2>2, <2>4
  <2>6. QED
    BY <1>1, <1>2, <2>5, StaysInPlace
<1>10. CASE t.fresh /\ how # "error" /\ current = t.track
  <2>1. media' = Arrived(d, e, how, Prepared(t, how))
    BY <1>1, <1>5, <1>6, <1>10
  <2>2. Fits(media', queue, current)
    BY <1>1, <1>10, <2>1, RangeAnswered DEF d
  <2>3. QED
    BY <1>1, <1>2, <2>2, StaysInPlace
<1>11. QED
  BY <1>7, <1>8, <1>9, <1>10

\* The whole file has come: it is prepared in its place.
Turned(t) == [t EXCEPT !.kind = "prepareFull", !.complete = TRUE]

LEMMA FullAnswered ==
    ASSUME NEW m, NEW q, NEW c1, Fits(m, q, c1), NEW t \in m.tasks, t.kind = "full", t.fresh
    PROVE  Fits([Done(m, t) EXCEPT !.tasks = @ \cup {Turned(t)}], q, c1)
<1> DEFINE e == m.active
           p == m.els[e]
           d == Done(m, t)
           r == Turned(t)
           ts == d.tasks \cup {r}
           n == [d EXCEPT !.tasks = ts]
<1>1. t.el = e /\ t \in Recovering(m, e) /\ ~Looks(m)
  BY RecoversHere DEF Recovery
<1>2. /\ d \in Medias /\ d.active = e /\ d.preloaded = m.preloaded /\ d.els = m.els
      /\ ShowsIn(d, c1) /\ PreparedIn(d, q) /\ RecoversAlone(d) /\ StateInOrder(d, c1) /\ TasksInOrder(d, c1)
      /\ (Looks(d) <=> Looks(m)) /\ \A f : Recovering(d, f) = Recovering(m, f) \ {t}
  BY DoneStays DEF Recovery
<1>3. e \in Elements /\ Other(e) \in Elements /\ Other(e) # e /\ p \in Players /\ d.tasks \in SUBSET Tasks
  BY <1>2, MediaTyped
<1>4. /\ r \in Tasks /\ r.kind = "prepareFull" /\ r.el = e /\ r.track = t.track /\ r.fresh /\ r.same = t.same /\ r.complete
  <2>1. t \in Tasks
    BY <1>1 DEF Recovering, Fits, Medias
  <2>2. QED
    BY <1>1, <2>1 DEF Tasks, Recovery, Turned
<1>5. /\ (c1 # None => t.track = c1) /\ (~t.same => p.terminal # None)
      /\ (p.fb = None \/ p.fb.phase = "full")
  BY <1>1 DEF Fits, TasksInOrder
<1>6. StateInOrder(m, c1) /\ MovesIn(m, c1)
  BY DEF Fits
<1> HIDE DEF d, r
<1>7. ts \in SUBSET Tasks
  BY <1>3, <1>4
<1>8. n \in Medias /\ n.active = e /\ n.preloaded = m.preloaded /\ n.tasks = ts /\ n.els = m.els
  BY <1>2, <1>7 DEF Medias
<1> HIDE DEF n
<1>9. Recovering(n, e) = Recovering(d, e) \cup {r}
  BY <1>4, <1>8 DEF Recovering, Recovery
<1>10. Recovering(n, Other(e)) = Recovering(d, Other(e)) /\ Preparing(n) = Preparing(d)
  BY <1>3, <1>4, <1>8 DEF Recovering, Preparing, Preload
<1>11. ~Looks(n)
  BY <1>1, <1>2, <1>4, <1>8 DEF Looks
<1>12. ShowsIn(n, c1)
  BY <1>2, <1>8 DEF ShowsIn
<1>13. PreparedIn(n, q)
  BY <1>2, <1>8, <1>10 DEF PreparedIn
<1>14. RecoversAlone(n)
  BY <1>2, <1>8, <1>10, <1>11 DEF RecoversAlone, Untouched
<1>15. StateInOrder(n, c1)
  BY <1>1, <1>6, <1>8 DEF StateInOrder
<1>16. TasksInOrder(n, c1)
  <2> SUFFICES ASSUME NEW x \in Recovering(n, e)
               PROVE  /\ x.fresh => (c1 # None => x.track = c1) /\ (~x.same => p.terminal # None)
                      /\ x.fresh /\ x.kind = "range" => p.fb # None /\ p.fb.phase = "range" /\ p.inFlight
                      /\ x.fresh /\ x.same /\ x.kind = "prepare" => p.fb = None \/ p.inFlight
                      /\ x.fresh /\ x.kind \in {"full", "prepareFull"} => p.fb = None \/ p.fb.phase = "full"
                      /\ x.same /\ x.kind = "prepare" /\ x.complete => p.fb = None \/ p.fb.phase = "full"
                      /\ x.kind = "prepareFull" => x.complete
                      /\ x.fresh /\ x.same /\ x.kind \in {"range", "prepare"} =>
                           \A y \in Recovering(n, e) : y.fresh /\ y.same /\ y.kind \in {"range", "prepare"} => y = x
    BY <1>8 DEF TasksInOrder
  <2>1. CASE x = r
    BY <1>4, <1>5, <2>1
  <2>2. CASE x \in Recovering(d, e)
    <3>1. \A y \in Recovering(n, e) : y.fresh /\ y.same /\ y.kind \in {"range", "prepare"} => y \in Recovering(d, e)
      BY <1>4, <1>9
    <3>2. QED
      BY <1>2, <2>2, <3>1 DEF TasksInOrder
  <2>3. QED
    BY <1>9, <2>1, <2>2
<1>17. MovesIn(n, c1)
  <2>1. r \in Recovering(n, e)
    BY <1>9
  <2>2. \A x \in Recovering(m, e) : x # t => x \in Recovering(n, e)
    BY <1>2, <1>9
  <2>3. p.fb # None => t.same
    BY <1>5, <1>6 DEF StateInOrder
  <2>4. QED
    BY <1>4, <1>6, <1>8, <2>1, <2>2, <2>3 DEF MovesIn
<1>18. Fits(n, q, c1)
  BY <1>8, <1>12, <1>13, <1>14, <1>15, <1>16, <1>17 DEF Fits
<1>19. QED
  BY <1>18 DEF n, d, r

LEMMA FullDoneKeeps ==
    ASSUME Rest, Fits(media, queue, current), NEW t \in media.tasks, NEW ok \in BOOLEAN, FullDone(t, ok)
    PROVE  IInv'
<1> DEFINE d == Done(media, t)
           stale == ~t.fresh \/ (ok /\ (t.el # media.active \/ current # t.track))
<1>1. /\ t.kind = "full" /\ UNCHANGED <<queue, playMode>>
      /\ \/ stale /\ media' = d /\ UNCHANGED <<index, order, playing>>
         \/ ~stale /\ ok /\ media' = [d EXCEPT !.tasks = @ \cup {Turned(t)}] /\ UNCHANGED <<index, order, playing>>
         \/ ~stale /\ ~ok /\ GiveUp(d, t.el, t.track)
  BY DEF FullDone, Turned
<1>2. /\ queue \in Seq(Tracks) /\ order \in Seq(Nat) /\ playMode \in {"sequential", "single", "shuffle"}
      /\ playing \in BOOLEAN
  BY DEF Rest
<1>3. media \in Medias /\ t \in Tasks /\ t.track \in Tracks
  BY DEF Fits, Medias, Tasks
<1>4. t.fresh => t.el = media.active /\ t \in Recovering(media, media.active) /\ ~Looks(media)
  BY <1>1, RecoversHere DEF Recovery
<1>5. t.fresh => /\ (current # None => t.track = current)
                 /\ (media.els[media.active].fb = None \/ media.els[media.active].fb.phase = "full")
  BY <1>1, <1>4 DEF Fits, TasksInOrder
<1>6. CASE stale /\ media' = d /\ UNCHANGED <<index, order, playing>>
  <2>1. ~t.fresh \/ current = None
    BY <1>4, <1>5, <1>6
  <2>2. Fits(d, queue, current)
    BY <1>1, <2>1, DoneFits DEF Recovery
  <2>3. QED
    BY <1>1, <1>2, <1>6, <2>2, StaysInPlace
<1>7. CASE ~stale /\ ok /\ media' = [d EXCEPT !.tasks = @ \cup {Turned(t)}] /\ UNCHANGED <<index, order, playing>>
  <2>1. Fits(media', queue, current)
    BY <1>1, <1>7, FullAnswered
  <2>2. QED
    BY <1>1, <1>2, <1>7, <2>1, StaysInPlace
<1>8. CASE ~stale /\ ~ok /\ GiveUp(d, t.el, t.track)
  <2>1. /\ d \in Medias /\ d.active = media.active /\ d.els = media.els
        /\ ShowsIn(d, current) /\ PreparedIn(d, queue) /\ RecoversAlone(d)
        /\ StateInOrder(d, current) /\ TasksInOrder(d, current) /\ (Looks(d) <=> Looks(media))
    BY <1>1, DoneStays DEF Recovery
  <2>2. GivesUpFrom(d, queue, current)
    BY <1>4, <1>5, <1>8, <2>1 DEF GivesUpFrom
  <2>3. ASSUME t.track # current \/ d.els[d.active].terminal = t.track PROVE Fits(d, queue, current)
    <3>1. CASE t.track # current
      <4>1. current = None
        BY <1>5, <1>8, <3>1
      <4>2. QED
        BY <1>1, <4>1, DoneFits DEF Recovery
    <3>2. CASE d.els[d.active].terminal = t.track
      <4>1. media.els[media.active].terminal # None
        BY <1>3, <2>1, <3>2, PlayerAssumption
      <4>2. media.els[media.active].fb = None
        BY <4>1 DEF Fits, StateInOrder
      <4>3. QED
        BY <1>1, <4>2, DoneFits DEF Recovery
    <3>3. QED
      BY <2>3, <3>1, <3>2
  <2>4. GiveUp(d, d.active, t.track)
    BY <1>4, <1>8, <2>1
  <2> HIDE DEF d
  <2>5. QED
    BY <1>1, <1>3, <2>2, <2>3, <2>4, GiveUpKeeps
<1>9. QED
  BY <1>1, <1>6, <1>7, <1>8

\* A conversion that is done: the Blob is played, and a recovery that is complete is over.
Sounding(t, c1) == t.fresh /\ c1 = t.track
Completes(t) == t.same /\ t.complete /\ (t.kind = "prepareFull" => t.fresh)

LEMMA PreparedFits ==
    ASSUME NEW m, NEW q, NEW c1 \in Tracks \cup {None}, Fits(m, q, c1), NEW t \in m.tasks, t.kind \in {"prepare", "prepareFull"},
           t.fresh \/ t.same, NEW v \in Players,
           v.terminal = m.els[m.active].terminal, v.attempted = m.els[m.active].attempted,
           Sounding(t, c1) => v.src = Src("blob", t.track) /\ v.over = FALSE /\ v.origin # "background",
           ~Sounding(t, c1) => /\ v.src = m.els[m.active].src /\ v.over = m.els[m.active].over
                               /\ v.origin = m.els[m.active].origin,
           Completes(t) => v.fb = None, ~Completes(t) => v.fb = m.els[m.active].fb,
           Completes(t) \/ (t.same /\ t.fresh) => v.inFlight = FALSE,
           ~(Completes(t) \/ (t.same /\ t.fresh)) => v.inFlight = m.els[m.active].inFlight
    PROVE  Fits(With(Done(m, t), m.active, v), q, c1)
<1> DEFINE e == m.active
           p == m.els[e]
           d == Done(m, t)
           n == With(d, e, v)
<1>1. t.el = e /\ t \in Recovering(m, e) /\ ~Looks(m)
  BY RecoversHere DEF Recovery
<1>2. /\ d \in Medias /\ d.active = e /\ d.preloaded = m.preloaded /\ d.els = m.els
      /\ ShowsIn(d, c1) /\ PreparedIn(d, q) /\ RecoversAlone(d)
      /\ (Looks(d) <=> Looks(m)) /\ \A f : Recovering(d, f) = Recovering(m, f) \ {t}
  BY DoneStays DEF Recovery
<1>3. e \in Elements /\ Other(e) \in Elements /\ Other(e) # e /\ p \in Players
  BY <1>2, MediaTyped
<1>4. StateInOrder(m, c1) /\ TasksInOrder(m, c1) /\ MovesIn(m, c1)
  BY DEF Fits
<1>5. t.fresh /\ ~Sounding(t, c1) => c1 = None
  BY <1>1, <1>4 DEF TasksInOrder, Sounding
<1>6. t.fresh /\ ~t.same => p.terminal # None
  BY <1>1, <1>4 DEF TasksInOrder
<1>7. t.kind = "prepareFull" => t.complete /\ (t.fresh => p.fb = None \/ p.fb.phase = "full")
  BY <1>1, <1>4 DEF TasksInOrder
<1>8. Completes(t) => p.fb = None \/ p.fb.phase = "full"
  BY <1>1, <1>4, <1>7 DEF TasksInOrder, Completes
<1>9. p.terminal # None => p.fb = None
  BY <1>4 DEF StateInOrder
<1>10. Src("blob", t.track).kind = "blob" /\ Src("blob", t.track).track = t.track
  BY DEF Src
<1> HIDE DEF d
<1>11. /\ n \in Medias /\ n.active = e /\ n.preloaded = m.preloaded /\ n.tasks = d.tasks
       /\ n.els[e] = v /\ n.els[Other(e)] = m.els[Other(e)]
       /\ Preparing(n) = Preparing(d) /\ \A f : Recovering(n, f) = Recovering(d, f)
  BY <1>2, <1>3, WithElement
<1> HIDE DEF n
<1>12. Recovering(n, e) = Recovering(m, e) \ {t}
  BY <1>2, <1>11
<1>13. ShowsIn(n, c1)
  <2>1. CASE Sounding(t, c1)
    BY <1>10, <1>11, <2>1 DEF ShowsIn, Sounding
  <2>2. CASE ~Sounding(t, c1)
    BY <1>2, <1>11, <2>2 DEF ShowsIn
  <2>3. QED
    BY <2>1, <2>2
<1>14. PreparedIn(n, q)
  BY <1>2, <1>11 DEF PreparedIn
<1>15. RecoversAlone(n)
  <2>1. ~Looks(n)
    BY <1>1, <1>2, <1>11, WithLooks
  <2>2. QED
    BY <1>2, <1>11, <2>1 DEF RecoversAlone, Untouched
<1>16. ~(p.fb = None /\ p.terminal = None /\ ((p.src.kind = "stream" /\ ~p.attempted) \/ Loaded(p)))
  BY <1>1, <1>4 DEF StateInOrder
<1>17. StateInOrder(n, c1)
  <2>1. v.fb # None => ~Completes(t) /\ v.fb = p.fb
    OBVIOUS
  <2>2. v.inFlight => p.inFlight /\ v.fb = p.fb
    OBVIOUS
  <2>3. p.fb = None => v.fb = None
    OBVIOUS
  <2>4. CASE Sounding(t, c1)
    <3>1. ~Loaded(v) /\ v.src.kind = "blob"
      BY <1>10, <2>4 DEF Loaded
    <3>2. QED
      BY <1>4, <1>9, <1>11, <2>1, <2>2, <2>3, <3>1 DEF StateInOrder
  <2>5. CASE ~Sounding(t, c1)
    <3>1. Loaded(v) <=> Loaded(p)
      BY <2>5 DEF Loaded
    <3>2. v.src = p.src /\ v.over = p.over
      BY <2>5
    <3>3. p.fb # None => ~Loaded(p) /\ (p.src.kind = "stream" => p.attempted)
      BY <1>4 DEF StateInOrder
    <3>4. ~(v.terminal = None /\ ((v.src.kind = "stream" /\ ~v.attempted) \/ Loaded(v)))
      BY <1>16, <3>1, <3>2, <3>3
    <3>5. QED
      BY <1>4, <1>9, <1>11, <2>1, <2>2, <2>3, <3>1, <3>2, <3>4 DEF StateInOrder
  <2>6. QED
    BY <2>4, <2>5
<1>18. TasksInOrder(n, c1)
  <2> SUFFICES ASSUME NEW x \in Recovering(n, e)
               PROVE  /\ x.fresh => (c1 # None => x.track = c1) /\ (~x.same => v.terminal # None)
                      /\ x.fresh /\ x.kind = "range" => v.fb # None /\ v.fb.phase = "range" /\ v.inFlight
                      /\ x.fresh /\ x.same /\ x.kind = "prepare" => v.fb = None \/ v.inFlight
                      /\ x.fresh /\ x.kind \in {"full", "prepareFull"} => v.fb = None \/ v.fb.phase = "full"
                      /\ x.same /\ x.kind = "prepare" /\ x.complete => v.fb = None \/ v.fb.phase = "full"
                      /\ x.kind = "prepareFull" => x.complete
                      /\ x.fresh /\ x.same /\ x.kind \in {"range", "prepare"} =>
                           \A y \in Recovering(n, e) : y.fresh /\ y.same /\ y.kind \in {"range", "prepare"} => y = x
    BY <1>11 DEF TasksInOrder
  <2>1. x \in Recovering(m, e) /\ x # t
    BY <1>12
  <2>2. /\ x.fresh => (c1 # None => x.track = c1) /\ (~x.same => p.terminal # None)
        /\ x.fresh /\ x.kind = "range" => p.fb # None /\ p.fb.phase = "range" /\ p.inFlight
        /\ x.fresh /\ x.same /\ x.kind = "prepare" => p.fb = None \/ p.inFlight
        /\ x.fresh /\ x.kind \in {"full", "prepareFull"} => p.fb = None \/ p.fb.phase = "full"
        /\ x.same /\ x.kind = "prepare" /\ x.complete => p.fb = None \/ p.fb.phase = "full"
        /\ x.kind = "prepareFull" => x.complete
        /\ x.fresh /\ x.same /\ x.kind \in {"range", "prepare"} =>
             \A y \in Recovering(m, e) : y.fresh /\ y.same /\ y.kind \in {"range", "prepare"} => y = x
    BY <1>4, <2>1 DEF TasksInOrder
  <2>3. x.fresh /\ x.same /\ x.kind \in {"range", "prepare"} => ~(t.fresh /\ t.same /\ t.kind = "prepare")
    BY <1>1, <2>1, <2>2
  <2>4. ASSUME x.fresh, x.kind = "range" PROVE v.fb # None /\ v.fb.phase = "range" /\ v.inFlight
    <3>1. p.fb # None /\ p.fb.phase = "range" /\ p.inFlight /\ x.same
      BY <1>9, <2>2, <2>4
    <3>2. ~Completes(t)
      BY <1>8, <3>1
    <3>3. ~(t.same /\ t.fresh)
      BY <1>7, <2>3, <2>4, <3>1
    <3>4. QED
      BY <3>1, <3>2, <3>3
  <2>5. ASSUME x.fresh, x.same, x.kind = "prepare" PROVE v.fb = None \/ v.inFlight
    <3>1. t.same /\ t.fresh => Completes(t)
      BY <1>7, <2>3, <2>5 DEF Completes
    <3>2. QED
      BY <2>2, <2>5, <3>1
  <2>6. v.fb = None \/ v.fb = p.fb
    OBVIOUS
  <2>7. \A y \in Recovering(n, e) : y \in Recovering(m, e)
    BY <1>12
  <2>8. QED
    BY <2>2, <2>4, <2>5, <2>6, <2>7
<1>19. MovesIn(n, c1)
  <2> SUFFICES ASSUME v.fb # None
               PROVE  /\ v.inFlight => \E x \in Recovering(n, e) : x.fresh /\ x.same /\ x.kind \in {"range", "prepare"}
                      /\ c1 # None /\ v.over /\ v.fb.live => \E x \in Recovering(n, e) : x.fresh
                      /\ c1 # None /\ v.fb.phase = "full" /\ v.fb.live =>
                           \E x \in Recovering(n, e) :
                             x.fresh /\ x.same /\ (x.kind \in {"full", "prepareFull"} \/ (x.kind = "prepare" /\ x.complete))
    BY <1>11 DEF MovesIn
  <2>1. ~Completes(t) /\ v.fb = p.fb /\ (t.fresh => t.same)
    BY <1>6, <1>9
  <2>2. \A x \in Recovering(m, e) : x # t => x \in Recovering(n, e)
    BY <1>12
  <2>3. v.inFlight => p.inFlight /\ ~(t.same /\ t.fresh)
    OBVIOUS
  <2>4. c1 # None /\ v.over => p.over /\ ~t.fresh
    BY <1>5
  <2>5. t.fresh => t.kind = "prepare" /\ ~t.complete
    BY <1>7, <2>1 DEF Completes
  <2>6. QED
    BY <1>4, <2>1, <2>2, <2>3, <2>4, <2>5 DEF MovesIn
<1>20. Fits(n, q, c1)
  BY <1>11, <1>13, <1>14, <1>15, <1>17, <1>18, <1>19 DEF Fits
<1>21. QED
  BY <1>20 DEF n, d

LEMMA WithSame ==
    ASSUME NEW m \in Medias, NEW e \in Elements
    PROVE  With(m, e, m.els[e]) = m
<1>1. m.els \in [Elements -> Players]
  BY MediaTyped
<1>2. [m.els EXCEPT ![e] = m.els[e]] = m.els
  BY <1>1
<1>3. With(m, e, m.els[e]) = [m EXCEPT !.els = [m.els EXCEPT ![e] = m.els[e]]]
  BY DEF With
<1>4. [m EXCEPT !.els = m.els] = m
  BY DEF Medias
<1>5. QED
  BY <1>2, <1>3, <1>4

\* What the conversion leaves of the element, step by step.
NewBlob(p, t, c1) == IF Sounding(t, c1) THEN BlobOf(p, t.track, IF t.complete THEN "fallback" ELSE None, {}) ELSE p
NoRecovery(p, t) == IF Completes(t) THEN [p EXCEPT !.fb = None] ELSE p
NotInFlight(p, t) == IF Completes(t) \/ (t.same /\ t.fresh) THEN [p EXCEPT !.inFlight = FALSE] ELSE p

LEMMA NewBlobIs ==
    ASSUME NEW p \in Players, NEW t \in Tasks, NEW c1
    PROVE  LET u == NewBlob(p, t, c1)
           IN  /\ u \in Players /\ u.terminal = p.terminal /\ u.attempted = p.attempted /\ u.fb = p.fb /\ u.inFlight = p.inFlight
               /\ (Sounding(t, c1) => u.src = Src("blob", t.track) /\ u.over = FALSE /\ u.origin # "background")
               /\ (~Sounding(t, c1) => u.src = p.src /\ u.over = p.over /\ u.origin = p.origin)
<1>1. CASE Sounding(t, c1)
  <2> DEFINE o == IF t.complete THEN "fallback" ELSE None
             u == BlobOf(p, t.track, o, {})
  <2>1. NewBlob(p, t, c1) = u
    BY <1>1 DEF NewBlob
  <2>2. o \in {"background", "fallback", None} /\ o # "background"
    BY PlayerAssumption
  <2>3. Src("blob", t.track) \in Sources
    BY DEF Src, Sources, Tasks
  <2> HIDE DEF o
  <2>4. u \in Players
    BY <2>2, <2>3 DEF BlobOf, Sourced, Players
  <2>5. /\ u.terminal = p.terminal /\ u.attempted = p.attempted /\ u.fb = p.fb /\ u.inFlight = p.inFlight
        /\ u.src = Src("blob", t.track) /\ u.over = FALSE /\ u.origin = o
    BY DEF BlobOf, Sourced, Players
  <2> HIDE DEF u
  <2>6. QED
    BY <1>1, <2>1, <2>2, <2>4, <2>5
<1>2. CASE ~Sounding(t, c1)
  BY <1>2 DEF NewBlob
<1>3. QED
  BY <1>1, <1>2

LEMMA PrepareDoneKeeps ==
    ASSUME Rest, Fits(media, queue, current), NEW t \in media.tasks, PrepareDone(t)
    PROVE  IInv'
<1> DEFINE e == t.el
           d == Done(media, t)
           o == IF t.complete THEN "fallback" ELSE None
           k == IF StillRecovering(t) THEN PlayBlob(d, e, t.track, o, {}) ELSE d
           over == t.same /\ t.complete /\ (t.kind = "prepareFull" => t.fresh)
           n == IF over THEN [k EXCEPT !.els[e].fb = None] ELSE k
           z == IF over \/ (t.same /\ t.fresh) THEN [n EXCEPT !.els[e].inFlight = FALSE] ELSE n
           fb == media.els[e].fb
           sound == StillRecovering(t) /\ (IF fb = None THEN TRUE ELSE fb.play)
<1>1. /\ t.kind \in {"prepare", "prepareFull"} /\ UNCHANGED <<queue, index, playMode, order>>
      /\ media' = z /\ playing' = (playing \/ sound)
  BY Zenon DEF PrepareDone
<1>2. /\ queue \in Seq(Tracks) /\ order \in Seq(Nat) /\ playMode \in {"sequential", "single", "shuffle"}
      /\ playing \in BOOLEAN
  BY DEF Rest
<1>3. media \in Medias /\ t \in Tasks /\ t.track \in Tracks /\ e \in Elements
  BY DEF Fits, Medias, Tasks
<1>4. playing' \in BOOLEAN
  <2> HIDE DEF z
  <2>1. sound \in BOOLEAN
    <3>1. CASE fb = None
      BY <3>1 DEF StillRecovering
    <3>2. CASE fb # None
      <4>1. fb \in Fallbacks
        BY <1>3, <3>2 DEF Medias, Players
      <4>2. fb.play \in BOOLEAN
        BY <4>1 DEF Fallbacks
      <4>3. QED
        BY <3>2, <4>2 DEF StillRecovering
    <3>3. QED
      BY <3>1, <3>2
  <2> HIDE DEF sound
  <2>2. QED
    BY <1>1, <1>2, <2>1
<1> HIDE DEF sound
<1>5. Fits(z, queue, current)
  <2>1. CASE ~t.fresh /\ ~t.same
    <3>1. z = d
      BY <2>1 DEF StillRecovering
    <3>2. Fits(d, queue, current)
      BY <1>1, <2>1, DoneFits DEF Recovery
    <3>3. QED
      BY <3>1, <3>2
  <2>2. CASE t.fresh \/ t.same
    <3> DEFINE p == media.els[e]
               w1 == NewBlob(p, t, current)
               w2 == NoRecovery(w1, t)
               w3 == NotInFlight(w2, t)
    <3>1. e = media.active
      BY <1>1, <2>2, RecoversHere DEF Recovery
    <3>2. /\ d \in Medias /\ d.active = media.active /\ d.els = media.els
      BY <1>3, DoneIs
    <3>3. p \in Players
      BY <1>3 DEF Medias
    <3>4. /\ w1 \in Players /\ w1.terminal = p.terminal /\ w1.attempted = p.attempted /\ w1.fb = p.fb /\ w1.inFlight = p.inFlight
          /\ (Sounding(t, current) => w1.src = Src("blob", t.track) /\ w1.over = FALSE /\ w1.origin # "background")
          /\ (~Sounding(t, current) => w1.src = p.src /\ w1.over = p.over /\ w1.origin = p.origin)
      BY <1>3, <3>3, NewBlobIs
    <3>5. StillRecovering(t) <=> Sounding(t, current)
      BY <3>1 DEF StillRecovering, Sounding
    <3>6. over <=> Completes(t)
      BY DEF Completes
    <3> HIDE DEF d, over
    <3>7. k = With(d, e, w1)
      <4>1. CASE Sounding(t, current)
        BY <3>2, <3>5, <4>1, Zenon DEF PlayBlob, With, NewBlob, BlobOf
      <4>2. CASE ~Sounding(t, current)
        <5>1. k = d /\ w1 = p
          BY <3>5, <4>2 DEF NewBlob
        <5>2. With(d, e, d.els[e]) = d
          BY <1>3, <3>2, WithSame
        <5>3. QED
          BY <3>2, <5>1, <5>2
      <4>3. QED
        BY <4>1, <4>2
    <3> HIDE DEF k, w1
    <3>8. /\ w2 \in Players /\ w2.terminal = w1.terminal /\ w2.attempted = w1.attempted /\ w2.inFlight = w1.inFlight
          /\ w2.src = w1.src /\ w2.over = w1.over /\ w2.origin = w1.origin
          /\ (Completes(t) => w2.fb = None) /\ (~Completes(t) => w2.fb = w1.fb)
      BY <3>4 DEF NoRecovery, Players
    <3>9. n = With(d, e, w2)
      <4>1. CASE Completes(t)
        <5>1. n = [k EXCEPT !.els[e].fb = None]
          BY <3>6, <4>1
        <5>2. k.els[e] = w1
          BY <1>3, <3>2, <3>4, <3>7, WithElement
        <5>3. [k EXCEPT !.els[e].fb = None] = With(k, e, [w1 EXCEPT !.fb = None])
          BY <5>2, Zenon DEF With
        <5>4. w2 = [w1 EXCEPT !.fb = None]
          BY <4>1 DEF NoRecovery
        <5> HIDE DEF n, w2
        <5>5. With(With(d, e, w1), e, w2) = With(d, e, w2)
          BY <1>3, <3>2, <3>4, <3>8, WithTwice
        <5>6. QED
          BY <3>7, <5>1, <5>3, <5>4, <5>5
      <4>2. CASE ~Completes(t)
        BY <3>6, <3>7, <4>2 DEF NoRecovery
      <4>3. QED
        BY <4>1, <4>2
    <3> HIDE DEF n, w2
    <3>10. /\ w3 \in Players /\ w3.terminal = w2.terminal /\ w3.attempted = w2.attempted /\ w3.fb = w2.fb
           /\ w3.src = w2.src /\ w3.over = w2.over /\ w3.origin = w2.origin
           /\ (Completes(t) \/ (t.same /\ t.fresh) => w3.inFlight = FALSE)
           /\ (~(Completes(t) \/ (t.same /\ t.fresh)) => w3.inFlight = w2.inFlight)
      BY <3>8, ZenonT(30) DEF NotInFlight, Players
    <3>11. z = With(d, e, w3)
      <4>1. CASE Completes(t) \/ (t.same /\ t.fresh)
        <5>1. z = [n EXCEPT !.els[e].inFlight = FALSE]
          BY <3>6, <4>1
        <5>2. n.els[e] = w2
          BY <1>3, <3>2, <3>8, <3>9, WithElement
        <5>3. [n EXCEPT !.els[e].inFlight = FALSE] = With(n, e, [w2 EXCEPT !.inFlight = FALSE])
          BY <5>2, Zenon DEF With
        <5>4. w3 = [w2 EXCEPT !.inFlight = FALSE]
          BY <4>1 DEF NotInFlight
        <5> HIDE DEF z, w3
        <5>5. With(With(d, e, w2), e, w3) = With(d, e, w3)
          BY <1>3, <3>2, <3>8, <3>10, WithTwice
        <5>6. QED
          BY <3>9, <5>1, <5>3, <5>4, <5>5
      <4>2. CASE ~(Completes(t) \/ (t.same /\ t.fresh))
        BY <3>6, <3>9, <4>2 DEF NotInFlight
      <4>3. QED
        BY <4>1, <4>2
    <3> HIDE DEF z, w3
    <3>12. current \in Tracks \cup {None}
      BY <1>2 DEF current
    <3>13. Fits(With(Done(media, t), media.active, w3), queue, current)
      <4>1. /\ w3.terminal = p.terminal /\ w3.attempted = p.attempted
            /\ (Sounding(t, current) => w3.src = Src("blob", t.track) /\ w3.over = FALSE /\ w3.origin # "background")
            /\ (~Sounding(t, current) => w3.src = p.src /\ w3.over = p.over /\ w3.origin = p.origin)
            /\ (Completes(t) => w3.fb = None) /\ (~Completes(t) => w3.fb = p.fb)
            /\ (Completes(t) \/ (t.same /\ t.fresh) => w3.inFlight = FALSE)
            /\ (~(Completes(t) \/ (t.same /\ t.fresh)) => w3.inFlight = p.inFlight)
        BY <3>4, <3>8, <3>10
      <4>2. QED
        BY <1>1, <2>2, <3>1, <3>10, <3>12, <4>1, PreparedFits
    <3>14. QED
      BY <3>1, <3>11, <3>13, SMTT(30) DEF d
  <2>3. QED
    BY <2>1, <2>2, ZenonT(30)
<1> HIDE DEF z
<1>6. QED
  BY <1>1, <1>2, <1>4, <1>5, StaysInPlace
-----------------------------------------------------------------------------
\* A page begins with an empty queue and two empty elements.
LEMMA PlayerStarts == Init => IInv
<1> SUFFICES ASSUME Init PROVE IInv
  OBVIOUS
<1>1. queue = <<>> /\ index = 0 /\ playMode = "sequential" /\ order = <<>> /\ playing = FALSE /\ media = Blank
  BY DEF Init
<1>2. Len(queue) = 0 /\ DOMAIN queue = {} /\ queue \in Seq(Tracks) /\ order \in Seq(Nat)
  BY <1>1
<1>3. current = None /\ ~hasTrack
  BY <1>1, <1>2 DEF current, hasTrack
<1>4. NewElement \in Players
  BY NewElementTyped
<1>5. /\ Blank.active = "A" /\ Blank.els = [e \in Elements |-> NewElement] /\ Blank.preloaded = None
      /\ Blank.tasks = {} /\ Blank.restore = None /\ Blank.want = TRUE
  BY DEF Blank
<1>6. \A e \in Elements : Blank.els[e] = NewElement
  BY <1>5
<1>7. Blank.active \in Elements /\ Other(Blank.active) \in Elements
  BY <1>5 DEF Elements, Other
<1>8. Blank \in Medias
  <2>1. [e \in Elements |-> NewElement] \in [Elements -> Players]
    BY <1>4
  <2>2. QED
    BY <2>1 DEF Blank, Medias, Elements
<1>9. /\ NewElement.fb = None /\ NewElement.terminal = None /\ ~NewElement.inFlight
      /\ NewElement.src.kind # "revoked" /\ NewElement.src = NoSrc
  BY DEF NewElement, NoSrc
<1>10. \A e \in Elements : Untouched(Blank, e)
  BY <1>5, <1>6, <1>9 DEF Untouched, Recovering
<1>11. PreparedIn(Blank, queue) /\ ShowsIn(Blank, current)
  BY <1>3, <1>5 DEF PreparedIn, Preparing, ShowsIn
<1>12. Fits(Blank, queue, current)
  <2>1. Starts(Blank, queue, current)
    BY <1>7, <1>8, <1>10, <1>11 DEF Starts
  <2>2. QED
    BY <2>1, StartsFit
<1>13. TypeOK
  <2>1. index \in 0 .. Len(queue)
    BY <1>1, <1>2
  <2>2. playMode \in {"sequential", "single", "shuffle"} /\ playing \in BOOLEAN
    BY <1>1
  <2>3. media \in Medias
    BY <1>1, <1>8
  <2>4. QED
    BY ONLY <1>2, <2>1, <2>2, <2>3 DEF TypeOK
<1>14. TrackUnlessEmpty
  BY <1>1 DEF TrackUnlessEmpty
<1>15. Fits(media, queue, current)
  BY <1>1, <1>12
<1>16. QED
  BY ONLY <1>13, <1>14, <1>15 DEF IInv, Fits

LEMMA PlayerStays == ASSUME IInv, UNCHANGED playerVars PROVE IInv'
<1>1. Rest /\ Fits(media, queue, current)
  BY PlayerInvs
<1>2. UNCHANGED <<queue, index>> /\ order' = order /\ playMode' = playMode /\ playing' = playing /\ media' = media
  BY DEF playerVars
<1>3. order' \in Seq(Nat) /\ playMode' \in {"sequential", "single", "shuffle"} /\ playing' \in BOOLEAN
  BY <1>1, <1>2 DEF Rest
<1>4. Fits(media', queue, current)
  BY <1>1, <1>2
<1>5. QED
  BY <1>1, <1>2, <1>3, <1>4, StaysInPlace

\* Whatever the user does, and whatever comes back late, it stays true.
LEMMA UserKeeps == ASSUME IInv, User PROVE IInv'
<1>1. Rest /\ Fits(media, queue, current)
  BY PlayerInvs
<1>2. CASE next
  BY <1>1, <1>2, nextKeeps
<1>3. CASE prev
  BY <1>1, <1>3, prevKeeps
<1>4. CASE clear
  BY <1>1, <1>4, clearKeeps
<1>5. CASE cyclePlayMode
  BY <1>1, <1>5, cyclePlayModeKeeps
<1>6. CASE toggle
  BY <1>1, <1>6, toggleKeeps
<1>7. CASE QualityChanges
  BY <1>1, <1>7, QualityChangesKeeps
<1>8. CASE Reload
  BY <1>1, <1>8, ReloadKeeps
<1>9. CASE \E i \in DOMAIN queue : chooseAt(i)
  BY <1>1, <1>9, chooseAtKeeps
<1>10. CASE \E i \in DOMAIN queue : removeAt(i)
  BY <1>1, <1>10, removeAtKeeps
<1>11. CASE \E t \in Tracks : playNext(t)
  BY <1>1, <1>11, playNextKeeps
<1>12. CASE \E q \in Queues, autoplay \in BOOLEAN : \E i \in 1 .. Len(q) : setQueue(q, i, autoplay)
  <2>1. PICK q \in Queues, autoplay \in BOOLEAN : \E i \in 1 .. Len(q) : setQueue(q, i, autoplay)
    BY <1>12
  <2>2. PICK i \in 1 .. Len(q) : setQueue(q, i, autoplay)
    BY <2>1
  <2>3. QED
    BY <1>1, <2>2, setQueueKeeps, PlayerAssumption
<1>13. CASE \E autoplay \in BOOLEAN : setQueue(<<>>, 0, autoplay)
  BY <1>1, <1>13, setQueueKeeps
<1>14. CASE \E t \in Tracks : playNow(t)
  <2>1. PICK t \in Tracks : setQueue(<<t>>, 1, TRUE)
    BY <1>14 DEF playNow
  <2>2. <<t>> \in Seq(Tracks) /\ 1 \in 1 .. Len(<<t>>)
    OBVIOUS
  <2>3. QED
    BY <1>1, <2>1, <2>2, setQueueKeeps
<1>15. QED
  BY <1>2, <1>3, <1>4, <1>5, <1>6, <1>7, <1>8, <1>9, <1>10, <1>11, <1>12, <1>13, <1>14 DEF User

LEMMA BrowserKeeps == ASSUME IInv, Browser PROVE IInv'
<1>1. Rest /\ Fits(media, queue, current)
  BY PlayerInvs
<1>2. CASE preloadNext
  BY <1>1, <1>2, preloadNextKeeps
<1>3. CASE PreloadError
  BY <1>1, <1>3, PreloadErrorKeeps
<1>4. CASE MediaError
  BY <1>1, <1>4, MediaErrorKeeps
<1>5. CASE Ended
  BY <1>1, <1>5, EndedKeeps
<1>6. CASE \E e \in Elements : Metadata(e)
  BY <1>1, <1>6, MetadataKeeps
<1>7. ASSUME NEW t \in media.tasks, NEW ok \in BOOLEAN, PreloadStep(t, ok) \/ LookupDone(t, ok) \/ FullDone(t, ok)
      PROVE  IInv'
  BY <1>1, <1>7, PreloadStepKeeps, LookupDoneKeeps, FullDoneKeeps
<1>8. ASSUME NEW t \in media.tasks, NEW how \in {"part", "whole", "error"}, RangeDone(t, how)
      PROVE  IInv'
  BY <1>1, <1>8, RangeDoneKeeps
<1>9. ASSUME NEW t \in media.tasks, PrepareDone(t)
      PROVE  IInv'
  BY <1>1, <1>9, PrepareDoneKeeps
<1>10. QED
  BY <1>2, <1>3, <1>4, <1>5, <1>6, <1>7, <1>8, <1>9 DEF Browser

LEMMA PlayerStep == ASSUME IInv, [Next]_playerVars PROVE IInv'
BY UserKeeps, BrowserKeeps, PlayerStays DEF Next

LEMMA PlayerFollowsTheQueue == ASSUME IInv PROVE SoundsAsShown /\ PreparedIsNext
<1>1. media \in Medias /\ ShowsIn(media, current) /\ PreparedIn(media, queue) /\ queue \in Seq(Tracks)
  BY DEF IInv, TypeOK
<1>2. hasTrack => current \in Tracks /\ current # None
  BY <1>1, PlayerAssumption DEF hasTrack, current
<1>3. SoundsAsShown
  BY <1>1, <1>2 DEF SoundsAsShown, ShowsIn, Act
<1>4. PreparedIsNext
  BY <1>1, MediaTyped DEF PreparedIn, PreparedIsNext
<1>5. QED
  BY <1>3, <1>4

LEMMA RecoveriesMove == ASSUME IInv PROVE RecoveryMoves
<1> DEFINE own == {t \in media.tasks : t.fresh /\ t.el = media.active /\ t.kind \in Recovery}
<1>1. MovesIn(media, current) /\ queue \in Seq(Tracks)
  BY DEF IInv, TypeOK
<1>2. hasTrack => current # None
  BY <1>1, PlayerAssumption DEF hasTrack, current
<1>3. ASSUME \E x \in Recovering(media, media.active) : x.fresh
      PROVE  own # {}
  BY <1>3 DEF Recovering
<1>4. Act.inFlight /\ Act.fb # None => own # {}
  BY <1>1, <1>3 DEF MovesIn, Act
<1>5. (hasTrack /\ Act.over /\ Act.fb # None) => (Act.fb.live => own # {})
  BY <1>1, <1>2, <1>3 DEF MovesIn, Act
<1>6. QED
  BY <1>4, <1>5 DEF RecoveryMoves

LEMMA PlayerGoesOn == ASSUME IInv, [ClientNext]_clientVars PROVE IInv'
<1>1. [Next]_playerVars
  BY DEF ClientNext, clientVars, playerVars
<1>2. QED
  BY <1>1, PlayerStep

\* Whatever lookup, download or recovery comes back late, and however the queue has
\* changed since, the active element has no source of another track than the current
\* one, while there is one, and a track that is ready for an instant swap is the one
\* the queue has there, for any tracks, queues and number of ranges.
THEOREM TheQueueIsFollowed == ClientSpec => []ElementsFollowTheQueue
<1>1. ClientInit => IInv
  BY PlayerStarts DEF ClientInit
<1>2. IInv /\ [ClientNext]_clientVars => IInv'
  BY PlayerGoesOn
<1>3. IInv => ElementsFollowTheQueue
  BY PlayerFollowsTheQueue DEF ElementsFollowTheQueue
<1>4. QED
  BY <1>1, <1>2, <1>3, PTL DEF ClientSpec

\* A recovery of a source the browser cannot play always has an answer to come, once the
\* source has ended or failed, until it is paused, over or given up.
THEOREM RecoveriesNeverHang == ClientSpec => []RecoveryNeverHangs
<1>1. ClientInit => IInv
  BY PlayerStarts DEF ClientInit
<1>2. IInv /\ [ClientNext]_clientVars => IInv'
  BY PlayerGoesOn
<1>3. IInv => RecoveryNeverHangs
  BY RecoveriesMove DEF RecoveryNeverHangs
<1>4. QED
  BY <1>1, <1>2, <1>3, PTL DEF ClientSpec

\* The state of all three parts of the client has its types.
Parts == part \in {"player", "requests", "worker"}
THEOREM ClientIsTyped == ClientSpec => []TypesOK
<1>1. ClientInit => IInv /\ Requests!IInv /\ WorkerInv /\ Parts
  BY PlayerStarts, RequestsStart, WorkerStart DEF ClientInit, Parts
<1>2. (IInv /\ Requests!IInv /\ WorkerInv /\ Parts) /\ [ClientNext]_clientVars
        => (IInv /\ Requests!IInv /\ WorkerInv /\ Parts)'
  <2> SUFFICES ASSUME IInv, Requests!IInv, WorkerInv, Parts, [ClientNext]_clientVars
               PROVE  IInv' /\ Requests!IInv' /\ WorkerInv' /\ Parts'
    OBVIOUS
  <2>1. [Requests!Next]_requestVars /\ [Worker!Next]_workerVars /\ part' = part
    BY DEF ClientNext, clientVars, requestVars, workerVars
  <2>2. Parts'
    BY <2>1 DEF Parts
  <2>3. QED
    BY <2>1, <2>2, PlayerGoesOn, RequestsStep, WorkerSteps
<1>3. IInv /\ Requests!IInv /\ WorkerInv /\ Parts => TypesOK
  <2> SUFFICES ASSUME IInv, Requests!IInv, WorkerInv, Parts PROVE TypesOK
    OBVIOUS
  <2>1. TypeOK /\ Requests!TypeOK /\ Worker!TypeOK
    BY DEF IInv, Requests!IInv, WorkerInv
  <2>2. QED
    BY <2>1 DEF TypesOK, Parts
<1>4. QED
  BY <1>1, <1>2, <1>3, PTL DEF ClientSpec
=============================================================================
