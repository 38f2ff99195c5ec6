----------------------------- MODULE CatalogMerge -----------------------------
(***************************************************************************)
(* Merging songs that are the same: an administrator's merge and removal   *)
(* of surplus copies (worker/src/endpoints/edgesonic/diagnostics.ts,       *)
(* utils/catalogMerge.ts), and the historical dedupe of songs that share a *)
(* file (utils/historicalSongDedupe.ts), while people play and list them.  *)
(* A request reads, awaits and writes; a batch is one transaction, undone  *)
(* by a foreign key that points nowhere.                                   *)
(***************************************************************************)
EXTENDS Integers, FiniteSets, Functions

CONSTANTS
    Songs,      \* song_masters
    Instances,  \* song_instances, none of them derived, missing or a video
    Home,       \* the song of each at first
    Uri,        \* its file: instances may share one
    Bytes,      \* what its file holds
    Rank,       \* compareInstanceQuality: less is better, and no two are equal
    Merit,      \* chooseSurvivorMaster: less is better, and no two are equal
    Requests,
    Ops,        \* what they are for: "merge", "retire", "dedupe"
    MaxPlays,   \* bound: how often a song is played
    None

VARIABLES
    masters,  \* songs there are
    of,       \* the song of each instance, None without a row
    files,    \* URIs whose bytes are stored
    plays,    \* play_count in the annotations of each song id, which no key protects
    listed,   \* the song of a playlist entry, which goes with it
    req,      \* requests: where they are and what they have read
    played,   \* history: how often anything was played
    late      \* and how often a song that was gone by then

mergeVars == <<masters, of, files, plays, listed, req, played, late>>

New == [op |-> None, at |-> "new", mode |-> None, keep |-> None, drops |-> {}, gone |-> {}, inst |-> None, bytes |-> None]

Of(s) == {i \in Instances : of[i] = s}
Best(I) == CHOOSE i \in I : \A j \in I : Rank[i] <= Rank[j]

Init ==
    /\ masters = Songs
    /\ of = Home
    /\ files = Range(Uri)
    /\ plays = [s \in Songs |-> 0]
    /\ listed \in Songs
    /\ req = [r \in Requests |-> New]
    /\ played = 0 /\ late = 0

Reads(r, read) == req' = [req EXCEPT ![r] = read] /\ UNCHANGED <<masters, of, files, plays, listed, played, late>>
Go(r, to) == Reads(r, [req[r] EXCEPT !.at = to])

-----------------------------------------------------------------------------
(* Songs become one *)

\* A request for a merge (of two, here) re-reads the songs; one for the surplus copies
\* goes on to them.
AskMerge(r, keep, drop, mode) ==
    /\ req[r].at = "new" /\ "merge" \in Ops
    /\ keep # drop /\ {keep, drop} \subseteq masters
    /\ Reads(r, [New EXCEPT !.op = "merge", !.at = "load", !.mode = mode, !.keep = keep, !.drops = {drop}])

AskRetire(r, s, mode) ==
    /\ req[r].at = "new" /\ "retire" \in Ops
    /\ Reads(r, [New EXCEPT !.op = "retire", !.at = "plan", !.mode = mode, !.keep = s])

\* loadMasters: without its survivor the merge throws, without its duplicates it is
\* done; then the play queues are rewritten, in an await of their own.
LoadMasters(r) ==
    /\ req[r].at = "load"
    /\ Reads(r, [req[r] EXCEPT !.at = CASE req[r].keep \notin masters -> "end"
                                         [] req[r].drops \cap masters = {} -> "plan"
                                         [] OTHER -> "batch",
                               !.drops = @ \cap masters])

\* The songs of a component: those in every set that has s and, with a song, all
\* that share a file with it.
Component(s) ==
    LET Share(t, u) == \E i \in Of(t), j \in Of(u) : Uri[i] = Uri[j]
        Closed(C) == \A t \in C : \A u \in masters : Share(t, u) => u \in C
    IN  {t \in masters : \A C \in SUBSET masters : s \in C /\ Closed(C) => t \in C}

\* The instances of a file that several songs of C share, but one: the survivor's
\* before the others'.
Doubled(C, keep) ==
    LET Copies(u) == {i \in Instances : of[i] \in C /\ Uri[i] = u}
        Kept(u) == Best(IF Copies(u) \cap Of(keep) # {} THEN Copies(u) \cap Of(keep) ELSE Copies(u))
    IN  UNION {Copies(u) \ {Kept(u)} : u \in {v \in Range(Uri) : Cardinality({of[i] : i \in Copies(v)}) > 1}}

\* The dedupe reads a component, whose best song stays.
LoadComponents(r, s) ==
    /\ req[r].at = "new" /\ "dedupe" \in Ops
    /\ s \in masters
    /\ LET C == Component(s)
           keep == CHOOSE t \in C : \A u \in C : Merit[t] <= Merit[u]
       IN  /\ Cardinality(C) > 1
           /\ Reads(r, [New EXCEPT !.op = "dedupe", !.at = "batch",
                                   !.keep = keep, !.drops = C \ {keep}, !.gone = Doubled(C, keep)])

\* Mutant: a database that does not enforce foreign keys.
DanglesNever(keep, drops) == FALSE

\* The batch would point a row at a song that is gone.
Dangles(keep, drops) ==
    keep \notin masters /\ (listed \in drops \/ \E i \in Instances : of[i] \in drops)

\* masterMergeStatements for each duplicate, the instances a dedupe deletes, and the
\* duplicates' rows; all of it or nothing.
Batch(r) ==
    /\ req[r].at = "batch"
    /\ LET keep == req[r].keep
           drops == req[r].drops
       IN  IF Dangles(keep, drops) THEN Go(r, "end")
           ELSE /\ plays' = [s \in Songs |-> IF s \in drops THEN 0
                                             ELSE IF s = keep THEN plays[s] + SumFunctionOnSet(plays, drops)
                                             ELSE plays[s]]
                /\ of' = [i \in Instances |-> IF i \in req[r].gone THEN None
                                              ELSE IF of[i] \in drops THEN keep ELSE of[i]]
                /\ listed' = IF listed \in drops THEN keep ELSE listed
                /\ masters' = masters \ drops
                /\ req' = [req EXCEPT ![r].at = IF req[r].op = "dedupe" THEN "end" ELSE "plan"]
                /\ UNCHANGED <<files, played, late>>

-----------------------------------------------------------------------------
(* Surplus copies go *)

\* planRetirement: all but the best, or those whose bytes a better one has too.
Surplus(s, mode) ==
    IF mode = "best" THEN {i \in Of(s) : i # Best(Of(s))}
    ELSE {i \in Of(s) : \E j \in Of(s) : Rank[j] < Rank[i] /\ (Uri[i] = Uri[j] \/ Bytes[i] = Bytes[j])}

Plan(r) ==
    /\ req[r].at = "plan"
    /\ Reads(r, [req[r] EXCEPT !.at = "retire", !.gone = IF req[r].keep \in masters THEN Surplus(req[r].keep, req[r].mode) ELSE {}])

\* retireInstance up to storageTarget: the bytes go unless another row names them.
RetireNext(r) ==
    /\ req[r].at = "retire" /\ req[r].gone # {}
    /\ LET i == Best(req[r].gone)
           shared == \E j \in Instances \ {i} : of[j] # None /\ Uri[j] = Uri[i]
       IN  IF of[i] = None THEN Reads(r, [req[r] EXCEPT !.gone = @ \ {i}])
           ELSE Reads(r, [req[r] EXCEPT !.at = "bytes", !.inst = i, !.bytes = IF shared THEN None ELSE Uri[i]])

\* The bytes first; when that fails the row stays.
DeleteBytes(r) ==
    /\ req[r].at = "bytes"
    /\ \/ /\ files' = files \ {req[r].bytes}
          /\ req' = [req EXCEPT ![r].at = "rows"]
          /\ UNCHANGED <<masters, of, plays, listed, played, late>>
       \/ /\ req[r].bytes # None
          /\ Reads(r, [req[r] EXCEPT !.at = "retire", !.gone = @ \ {req[r].inst}])

DeleteRows(r) ==
    /\ req[r].at = "rows"
    /\ of' = [of EXCEPT ![req[r].inst] = None]
    /\ req' = [req EXCEPT ![r].at = "retire", ![r].gone = @ \ {req[r].inst}]
    /\ UNCHANGED <<masters, files, plays, listed, played, late>>

Done(r) ==
    /\ req[r].at = "retire" /\ req[r].gone = {}
    /\ Go(r, "end")

-----------------------------------------------------------------------------
\* scrobble counts a play of whatever id a player still has in its queue.
Play(s) ==
    /\ played < MaxPlays
    /\ plays' = [plays EXCEPT ![s] = @ + 1]
    /\ played' = played + 1
    /\ late' = IF s \in masters THEN late ELSE late + 1
    /\ UNCHANGED <<masters, of, files, listed, req>>

Next ==
    \/ \E r \in Requests :
         \/ \E s, t \in Songs, mode \in {"exact", "best"} : AskMerge(r, s, t, mode)
         \/ \E s \in Songs : LoadComponents(r, s) \/ \E mode \in {"exact", "best"} : AskRetire(r, s, mode)
         \/ LoadMasters(r) \/ Batch(r) \/ Plan(r) \/ RetireNext(r) \/ DeleteBytes(r) \/ DeleteRows(r) \/ Done(r)
    \/ \E s \in Songs : Play(s)

Spec == Init /\ [][Next]_mergeVars

-----------------------------------------------------------------------------
TypeOK ==
    /\ masters \subseteq Songs
    /\ of \in [Instances -> Songs \cup {None}]
    /\ \A i \in Instances : of[i] # None => of[i] \in masters
    /\ files \subseteq Range(Uri)
    /\ plays \in [Songs -> 0 .. MaxPlays] /\ late \in 0 .. played
    /\ listed \in masters
    /\ \A r \in Requests : /\ req[r].at \in {"new", "load", "batch", "plan", "retire", "bytes", "rows", "end"}
                           /\ req[r].drops \subseteq Songs /\ req[r].gone \subseteq Instances

\* Whatever is merged into what, by requests that do not know of each other, every play
\* is counted once, and every play of a song there was at a song there is
\* (catalogMerge.ts:97, 204). The exception is a play that arrives after its song was
\* merged away: scrobble asks no song (queries.ts:698), and its count stays at an id that
\* nothing shows, unless a merge that read that song earlier still moves it.
PlaysAddUp ==
    /\ SumFunction(plays) = played
    /\ SumFunctionOnSet(plays, Songs \ masters) <= late

\* A song keeps a copy one can play: removal never takes the last row, nor the bytes
\* another row needs (catalogMerge.ts:329, diagnostics.ts:79).
LastCopyStays == \A s \in masters : \E i \in Of(s) : Uri[i] \in files
=============================================================================
