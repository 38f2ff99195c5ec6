-------------------------------- MODULE Clone --------------------------------
(***************************************************************************)
(* The cloning of another server's library into this one, driven by the    *)
(* Tools page of a browser: each song's metadata, then each song's audio,  *)
(* several at a time, then a playlist in chunks.  What was done is kept in *)
(* the page and in its session storage, so that a later run skips the      *)
(* audio that has arrived.  A run may be cancelled, a page closed, and any *)
(* request end with an error after some of its statements.                 *)
(*                                                                         *)
(* A song of the other server has the same recording as one of this        *)
(* library (Match), or as none, and then is its own match.                 *)
(***************************************************************************)
EXTENDS Naturals, FiniteSets, SequencesExt

CONSTANTS
    Songs,      \* the songs of the other server
    Upstream,   \* its playlist, cut into chunks: a sequence of sequences of songs
    Match,      \* the id in this library of a song's recording
    MaxRuns,    \* BOUND: runs
    MaxFaults,  \* BOUND: requests that end early, pages closed, songs merged away, lists renamed
    None

VARIABLES
    masters,    \* the rows of song_masters, by id
    idMap,      \* clone_id_map: the local id of a remote song
    bucket,     \* the cloned objects of R2, each named by a master and a song's path
    objects,    \* the rows of storage_objects for them
    instances,  \* the rows of song_instances for them
    lists,      \* the rows of playlists with those of playlist_songs, by id
    run,        \* the page
    work,       \* by song, its request
    saved,      \* the session storage: songs whose audio has arrived
    runs, faults

vars == <<masters, idMap, bucket, objects, instances, lists, run, work, saved, runs, faults>>
library == <<masters, idMap, bucket, objects, instances, lists>>

Ids == Songs \cup {Match[s] : s \in Songs}
Ours == {Match[s] : s \in Songs} \ Songs   \* songs this library had before
ListIds == {"remote", "hashed", "own"}     \* the other server's id, pl-clone-..., and one of this server
Names == {"theirs", "mine"}                \* the name of the other server's list, and any other

\* stray: history, a chunk went to another list than the first (which was renamed meanwhile)
Off == [at |-> "off", cancel |-> FALSE, done |-> {}, chunk |-> 1, target |-> None, sent |-> <<>>, stray |-> FALSE]
NoWork == [at |-> "none", id |-> None]
NewList(name) == [name |-> name, songs |-> <<>>, count |-> 0]

\* The other server's id may name a list here, cloned from elsewhere or renamed since.
Init ==
    /\ masters = Ours /\ idMap = [s \in Songs |-> None]
    /\ bucket = {} /\ objects = {} /\ instances = {}
    /\ \E names \in [{"remote", "own"} -> Names \cup {None}] :
         lists = [l \in ListIds |-> IF l = "hashed" \/ names[l] = None THEN None ELSE NewList(names[l])]
    /\ run = Off /\ work = [s \in Songs |-> NoWork]
    /\ saved = {} /\ runs = 0 /\ faults = 0

Fault == faults < MaxFaults /\ faults' = faults + 1
Todo == [s \in Songs |-> [at |-> "todo", id |-> None]]
Settled == \A s \in Songs : work[s].at \in {"ok", "failed"} \/ (run.cancel /\ work[s].at = "todo")

-----------------------------------------------------------------------------
\* The page.

\* runClone: the cache is loaded, and the other server answers a first request.
Starts ==
    /\ run.at = "off" /\ runs < MaxRuns /\ runs' = runs + 1
    /\ run' = [Off EXCEPT !.at = "metadata", !.done = saved]
    /\ work' = Todo
    /\ UNCHANGED <<library, saved, faults>>

\* The first request fails: runClone returns without setting cloneRunning back.
PingFails ==
    /\ run.at = "off" /\ runs < MaxRuns /\ runs' = runs + 1 /\ Fault
    /\ run' = [Off EXCEPT !.at = "stuck", !.done = saved]
    /\ UNCHANGED <<library, work, saved>>

\* The stage is over; the next one has listed its songs.
MetadataEnds ==
    /\ run.at = "metadata" /\ Settled
    /\ run' = [run EXCEPT !.at = "audio"]
    /\ work' = Todo
    /\ UNCHANGED <<library, saved, runs, faults>>

\* Its songs cannot be listed: the stages that are left are skipped.
ListingFails ==
    /\ run.at \in {"metadata", "audio"} /\ \A s \in Songs : work[s].at = "todo"
    /\ Fault
    /\ run' = [run EXCEPT !.at = "failed"] /\ work' = [s \in Songs |-> NoWork]
    /\ UNCHANGED <<library, saved, runs>>

AudioEnds ==
    /\ run.at = "audio" /\ Settled
    /\ run' = [run EXCEPT !.at = "lists"]
    /\ work' = [s \in Songs |-> NoWork]
    /\ UNCHANGED <<library, saved, runs, faults>>

\* The last chunk is in, or the run was cancelled: saveCloneCacheNow.
Ends ==
    /\ run.at = "failed" \/ (run.at = "lists" /\ (run.cancel \/ run.chunk > Len(Upstream)))
    /\ run' = [Off EXCEPT !.done = run.done] /\ saved' = run.done
    /\ UNCHANGED <<library, work, runs, faults>>

cancelClone ==
    /\ run.at \in {"metadata", "audio", "lists"} /\ ~run.cancel
    /\ run' = [run EXCEPT !.cancel = TRUE]
    /\ UNCHANGED <<library, work, saved, runs, faults>>

\* markCloneCacheDirty: a second later
Flushes ==
    /\ run.at # "off" /\ saved # run.done
    /\ saved' = run.done
    /\ UNCHANGED <<library, run, work, runs, faults>>

clearCloneCache ==
    /\ run.done # {}
    /\ run' = [run EXCEPT !.done = {}] /\ saved' = {}
    /\ UNCHANGED <<library, work, runs, faults>>

\* The page is closed or loaded again.
Reloads ==
    /\ run.at # "off" /\ Fault
    /\ run' = Off /\ work' = [s \in Songs |-> NoWork]
    /\ UNCHANGED <<library, saved, runs>>

-----------------------------------------------------------------------------
\* upsertMaster.

\* resolveExistingSongMaster: the song's own id, else a song of like names, which a search
\* through some of the rows finds or not, else a new row
Resolved(s) == IF s \in masters THEN {s} ELSE {s} \cup ({Match[s]} \cap masters)

Resolves(s) ==
    /\ run.at = "metadata" /\ work[s].at = "todo" /\ ~run.cancel
    /\ \E id \in Resolved(s) : work' = [work EXCEPT ![s] = [at |-> "insert", id |-> id]]
    /\ UNCHANGED <<library, run, saved, runs, faults>>

Inserts(s) ==
    /\ work[s].at = "insert"
    /\ masters' = masters \cup {work[s].id}
    /\ work' = [work EXCEPT ![s].at = "map"]
    /\ UNCHANGED <<idMap, bucket, objects, instances, lists, run, saved, runs, faults>>

saveCloneIdMap(s) ==
    /\ work[s].at = "map"
    /\ idMap' = [idMap EXCEPT ![s] = work[s].id]
    /\ work' = [work EXCEPT ![s].at = "ok"]
    /\ UNCHANGED <<masters, bucket, objects, instances, lists, run, saved, runs, faults>>

-----------------------------------------------------------------------------
\* ingestAudio and fetchAudioToR2.

\* What an earlier run has done is counted without a request ...
Skips(s) ==
    /\ run.at = "audio" /\ work[s].at = "todo" /\ ~run.cancel /\ s \in run.done
    /\ work' = [work EXCEPT ![s].at = "ok"]
    /\ UNCHANGED <<library, run, saved, runs, faults>>

\* ... and otherwise the song's master is looked up.
resolveCloneId(s) == IF idMap[s] = None THEN s ELSE idMap[s]

LooksUp(s) ==
    /\ run.at = "audio" /\ work[s].at = "todo" /\ ~run.cancel /\ s \notin run.done
    /\ work' = [work EXCEPT ![s] = IF resolveCloneId(s) \in masters THEN [at |-> "put", id |-> resolveCloneId(s)]
                                   ELSE [at |-> "failed", id |-> None]]
    /\ UNCHANGED <<library, run, saved, runs, faults>>

\* The object is written under a key made of master and path ...
Puts(s) ==
    /\ work[s].at = "put"
    /\ bucket' = bucket \cup {<<work[s].id, s>>}
    /\ work' = [work EXCEPT ![s].at = "register"]
    /\ UNCHANGED <<masters, idMap, objects, instances, lists, run, saved, runs, faults>>

\* ... and taken back, whatever was there before, when it is empty or too large.
Refuses(s) ==
    /\ work[s].at = "put" /\ Fault
    /\ bucket' = bucket \ {<<work[s].id, s>>}
    /\ work' = [work EXCEPT ![s].at = "failed"]
    /\ UNCHANGED <<masters, idMap, objects, instances, lists, run, saved, runs>>

\* The instance names an object that registerR2Object would make next: the INSERT
\* keeps the foreign key or throws, and what is thrown is logged and answered with ok.
Registers(s) ==
    LET key == <<work[s].id, s>>
        kept == key \in objects /\ work[s].id \in masters
    IN /\ work[s].at = "register"
       /\ instances' = instances \cup (IF kept THEN {key} ELSE {})
       /\ objects' = objects \cup (IF kept THEN {key} ELSE {})
       /\ work' = [work EXCEPT ![s].at = "answer"]
       /\ UNCHANGED <<masters, idMap, bucket, lists, run, saved, runs, faults>>

Counts(s) ==
    /\ work[s].at = "answer"
    /\ work' = [work EXCEPT ![s].at = "ok"]
    /\ run' = [run EXCEPT !.done = @ \cup {s}]
    /\ UNCHANGED <<library, saved, runs, faults>>

\* A request ends with an error instead of its next statement.
Fails(s) ==
    /\ work[s].at \in {"insert", "map", "put", "register", "answer"} /\ Fault
    /\ work' = [work EXCEPT ![s].at = "failed"]
    /\ UNCHANGED <<library, run, saved, runs>>

-----------------------------------------------------------------------------
\* upsertPlaylist.

SameName == {l \in ListIds : lists[l] # None /\ lists[l].name = "theirs"}

\* Mutant: without the clone's own id.
TargetIsRequested ==
    LET asked == IF run.target = None THEN "remote" ELSE run.target
    IN IF Cardinality(SameName) = 1 THEN CHOOSE l \in SameName : TRUE ELSE asked

\* resolveClonePlaylistId: the one list of that name, the requested id while it is free
\* or bears the name, or an id of this clone's own.  A chunk that is appended
\* asks for the id the first one was given.
TargetOf ==
    LET asked == IF run.target = None THEN "remote" ELSE run.target
        free == lists[asked] = None
        named == ~free /\ lists[asked].name = "theirs"
    IN IF run.chunk > 1 THEN (IF named THEN asked ELSE IF Cardinality(SameName) = 1 THEN CHOOSE l \in SameName : TRUE ELSE None)
       ELSE IF Cardinality(SameName) = 1 THEN CHOOSE l \in SameName : TRUE
       ELSE IF free \/ named THEN asked ELSE "hashed"

\* resolveCloneSongRefs: by name; what has no candidate, or two, is left out
Candidates(s) == {s, Match[s]} \cap masters
Found(chunk) == {i \in DOMAIN chunk : Cardinality(Candidates(chunk[i])) = 1}
Nth(S, n) == CHOOSE i \in S : Cardinality({j \in S : j <= i}) = n
Matched(chunk) == [n \in 1 .. Cardinality(Found(chunk)) |-> CHOOSE id \in Candidates(chunk[Nth(Found(chunk), n)]) : TRUE]

\* The first chunk replaces the list, the others need it ...
Cleared(l) == IF run.chunk = 1 THEN [lists EXCEPT ![l] = NewList("theirs")] ELSE lists
\* ... and each adds its songs behind the last, and counts the list anew.
Extended(l) == [Cleared(l) EXCEPT ![l].songs = @ \o Matched(Upstream[run.chunk])]
Counted(l) == [Extended(l) EXCEPT ![l].count = Len(Extended(l)[l].songs)]

Sending == run.at = "lists" /\ ~run.cancel /\ run.chunk <= Len(Upstream)

SendsChunk ==
    /\ Sending /\ TargetOf # None
    /\ lists' = Counted(TargetOf)
    /\ run' = [run EXCEPT !.chunk = @ + 1, !.target = TargetOf, !.sent = @ \o Matched(Upstream[run.chunk]),
                         !.stray = @ \/ (run.chunk > 1 /\ TargetOf # run.target)]
    /\ UNCHANGED <<masters, idMap, bucket, objects, instances, work, saved, runs, faults>>

\* The request ends early, or its answer is lost; or no list can be told to be the one.
ChunkFails ==
    /\ Sending
    /\ IF TargetOf = None THEN lists' = lists /\ UNCHANGED faults
       ELSE Fault /\ lists' \in {lists, Cleared(TargetOf), Extended(TargetOf), Counted(TargetOf)}
    /\ run' = [run EXCEPT !.at = "failed"]
    /\ UNCHANGED <<masters, idMap, bucket, objects, instances, work, saved, runs>>

-----------------------------------------------------------------------------
\* The rest of this server.

\* mergeSongMasters: a song goes, and what names it names the other.
Merges(s) ==
    LET keep == Match[s]
    IN /\ s \in masters /\ keep # s /\ keep \in masters /\ Fault
       /\ masters' = masters \ {s}
       /\ idMap' = [t \in Songs |-> IF idMap[t] = s THEN keep ELSE idMap[t]]
       /\ lists' = [l \in ListIds |-> IF lists[l] = None THEN None
                                      ELSE [lists[l] EXCEPT !.songs = [i \in DOMAIN @ |-> IF @[i] = s THEN keep ELSE @[i]]]]
       /\ run' = [run EXCEPT !.sent = [i \in DOMAIN @ |-> IF @[i] = s THEN keep ELSE @[i]]]
       /\ UNCHANGED <<bucket, objects, instances, work, saved, runs>>

\* updatePlaylist: the user gives a list another name.
Renames(l) ==
    /\ lists[l] # None /\ Fault
    /\ \E name \in Names \ {lists[l].name} : lists' = [lists EXCEPT ![l].name = name]
    /\ UNCHANGED <<masters, idMap, bucket, objects, instances, run, work, saved, runs>>

Next ==
    \/ Starts \/ PingFails \/ MetadataEnds \/ ListingFails \/ AudioEnds \/ Ends \/ cancelClone \/ Flushes \/ clearCloneCache \/ Reloads
    \/ \E s \in Songs : \/ Resolves(s) \/ Inserts(s) \/ saveCloneIdMap(s)
                        \/ Skips(s) \/ LooksUp(s) \/ Puts(s) \/ Refuses(s) \/ Registers(s) \/ Counts(s) \/ Fails(s) \/ Merges(s)
    \/ SendsChunk \/ ChunkFails
    \/ \E l \in ListIds : Renames(l)

Spec == Init /\ [][Next]_vars

-----------------------------------------------------------------------------
Lists == [name : Names, songs : Seq(Ids), count : Nat]
Pages == [at : {"off", "stuck", "metadata", "audio", "lists", "failed"}, cancel : BOOLEAN, done : SUBSET Songs,
          chunk : 1 .. Len(Upstream) + 1, target : ListIds \cup {None}, sent : Seq(Ids), stray : BOOLEAN]
SongWork == [at : {"none", "todo", "insert", "map", "put", "register", "answer", "ok", "failed"}, id : Ids \cup {None}]

TypeOK ==
    /\ masters \subseteq Ids /\ idMap \in [Songs -> Ids \cup {None}]
    /\ bucket \subseteq Ids \X Songs /\ objects \subseteq bucket /\ instances \subseteq bucket
    /\ lists \in [ListIds -> Lists \cup {None}] /\ run \in Pages /\ work \in [Songs -> SongWork] /\ saved \subseteq Songs

\* What a later run skips has arrived: a song in the page's cache or in the session
\* storage has its object, whatever was refused, cancelled, cleared or closed
\* (Tools.vue:860: "this song's bytes already landed in R2 in a previous run").
SkippedHaveArrived == \A s \in run.done \cup saved : \E m \in Ids : <<m, s>> \in bucket

\* Audio that the page counts as cloned can be played: it has an instance
\* (clone.ts:1004: it "records the upstream logical path in D1, then creates a
\* song_instances row").
ClonedAudioIsRegistered == \A s \in run.done : \E m \in Ids : <<m, s>> \in instances

\* After each chunk that was answered the list holds what has been sent in this run, in
\* order and once, and says so, although earlier runs may have stopped anywhere
\* (clone.ts:748; until the user renames it).
ListsArrive ==
    run.at = "lists" /\ run.target # None /\ ~run.stray =>
        LET list == lists[run.target]
        IN list # None /\ (list.name = "theirs" => list.songs = run.sent /\ list.count = Len(list.songs))

\* Cloning writes to no list that bears another name, even under the id that was asked
\* for (clone.ts:778); the list this clone has made for itself is its own.
OthersStay ==
    \A l \in ListIds \ {"hashed"} :
        (SendsChunk \/ ChunkFails) /\ lists[l] # None /\ lists[l].name # "theirs" => lists'[l] = lists[l]

-----------------------------------------------------------------------------
\* What these hold by.

\* Requests are under way in their stage only, and one that fetches audio is about a song
\* that the page does not count as done.
StageHasItsWork ==
    /\ run.at \notin {"metadata", "audio"} => \A s \in Songs : work[s].at = "none"
    /\ \A s \in Songs : /\ work[s].at \in {"insert", "map", "put", "register", "answer"} => work[s].id \in Ids
                        /\ work[s].at \in {"put", "register", "answer"} => run.at = "audio" /\ s \notin run.done

\* Once a request has written its object nobody else takes it.
WrittenIsThere == \A s \in Songs : work[s].at \in {"register", "answer"} => <<work[s].id, s>> \in bucket

\* A page that runs knows all that its session storage has.
SavedIsKnown == run.at # "off" => saved \subseteq run.done

\* No request gets past the foreign key (Registers).
NothingIsRegistered == objects = {} /\ instances = {}

\* The list is chosen with the first chunk, which comes after the songs.
TargetComesFirst == /\ run.chunk = 1 <=> run.target = None
                    /\ run.at \in {"metadata", "audio"} => run.chunk = 1
                    /\ run.chunk = 1 => run.sent = <<>> /\ ~run.stray

\* The list a run writes to holds what was sent, under whatever name.
ListHolds ==
    run.at = "lists" /\ run.target # None /\ ~run.stray =>
        lists[run.target] # None /\ lists[run.target].songs = run.sent /\ lists[run.target].count = Len(run.sent)

IInv == /\ TypeOK /\ StageHasItsWork /\ WrittenIsThere /\ SavedIsKnown /\ NothingIsRegistered
        /\ TargetComesFirst /\ ListHolds /\ SkippedHaveArrived
=============================================================================
