------------------------------ MODULE MCStorage ------------------------------
(***************************************************************************)
(* Small instances of the components around the stored files: the hot      *)
(* cache, the files of R2, the scan of a source, the cloning of another    *)
(* server, and the merging of songs that are the same.  They do not        *)
(* interact: part says which one a behaviour is about, and the others      *)
(* rest.                                                                   *)
(***************************************************************************)
EXTENDS HotCache, Sequences, TLC

CONSTANTS
    a, b, a1, a2, b1, w1, w2, sweep,                        \* a cached song with two files, and one with one
    Requests, Ops, Paths, Home, Old, Legacy, Stable,        \* of R2Files
    Top, Nested, Scans, Kinds, MaxChanges, MayHide,         \* of StorageScan
    s1, s2, o1, Tracks, Upstream, Match, MaxRuns, MaxUpsets, \* of Clone
    x, y, z, x1, x2, y1, z1, f1, f2, f3, Works, Pressings, Admins, Chores, MaxPlays  \* of CatalogMerge

VARIABLES part,
          objects, objectRows, files, songs, held, job, req,
          kind, mode, disk, changes, instances, entry, scan, tasks,
          masters, idMap, fetched, fetchedRows, cloned, lists, run, work, saved, runs, upsets,
          works, of, stored, plays, listed, asks, played, late

MCSongs == {a, b}
MCInstances == {a1, a2, b1}
MCInstancesOf == (a1 :> a) @@ (a2 :> a) @@ (b1 :> b)
MCInstancesSize == (a1 :> 1) @@ (a2 :> 4) @@ (b1 :> 2)
MCWriters == {w1, w2}
MCSweep == {sweep}
MCMatch == (s1 :> o1) @@ (s2 :> s2)    \* s1 is here already, as o1
MCUpstream == <<<<s1>>, <<s2>>>>

\* x and y share a file, z has the same bytes and better ones, x2 is another version.
MCHome == (x1 :> x) @@ (x2 :> x) @@ (y1 :> y) @@ (z1 :> z)
MCUri == (x1 :> f1) @@ (x2 :> f3) @@ (y1 :> f1) @@ (z1 :> f2)
MCBytes == (x1 :> 1) @@ (x2 :> 2) @@ (y1 :> 1) @@ (z1 :> 1)
MCRank == (x1 :> 2) @@ (x2 :> 4) @@ (y1 :> 3) @@ (z1 :> 1)
MCMerit == (x :> 1) @@ (y :> 2) @@ (z :> 3)

R2 == INSTANCE R2Files WITH bucket <- objects, rows <- objectRows
Scan == INSTANCE StorageScan WITH rows <- instances
Cloning == INSTANCE Clone WITH Songs <- Tracks, MaxFaults <- MaxUpsets, bucket <- fetched, objects <- fetchedRows,
                               instances <- cloned, faults <- upsets
Merging == INSTANCE CatalogMerge WITH Songs <- Works, Instances <- Pressings, Requests <- Admins, Ops <- Chores,
                                      Home <- MCHome, Uri <- MCUri, Bytes <- MCBytes, Rank <- MCRank, Merit <- MCMerit,
                                      masters <- works, files <- stored, req <- asks

\* None is neither a row nor a task, and no status of a file.
ASSUME StorageAssumption ==
    /\ MaxChanges \in Nat
    /\ None \notin {"file", "song"} \cup Scan!RowStates \cup Scan!TaskStates
    /\ None \notin Cloning!ListIds \cup Cloning!Ids \cup Cloning!Lists /\ Upstream \in Seq(Seq(Tracks))

r2Vars == <<objects, objectRows, files, songs, held, job, req>>
scanVars == <<kind, mode, disk, changes, instances, entry, scan, tasks>>
cloneVars == <<masters, idMap, fetched, fetchedRows, cloned, lists, run, work, saved, runs, upsets>>
mergeVars == <<works, of, stored, plays, listed, asks, played, late>>
storageVars == <<part, rows, bucket, proc, failed, overlap, objects, objectRows, files, songs, held, job, req,
                 kind, mode, disk, changes, instances, entry, scan, tasks,
                 masters, idMap, fetched, fetchedRows, cloned, lists, run, work, saved, runs, upsets,
                 works, of, stored, plays, listed, asks, played, late>>

StorageInit ==
    /\ part \in {"cache", "r2", "scan", "clone", "merge"}
    /\ Init /\ R2!Init /\ Scan!Init /\ Cloning!Init /\ Merging!Init
    /\ part # "scan" => kind = "s3" /\ mode = "library" /\ \A f \in Scan!Files : disk[f] = 0 /\ instances[f] = None
    /\ part # "clone" => \A l \in Cloning!ListIds : lists[l] = None
    /\ part # "merge" => listed = x

StorageNext ==
    /\ UNCHANGED part
    /\ IF part = "cache" THEN Next ELSE UNCHANGED vars
    /\ IF part = "r2" THEN R2!Next ELSE UNCHANGED r2Vars
    /\ IF part = "scan" THEN Scan!Next ELSE UNCHANGED scanVars
    /\ IF part = "clone" THEN Cloning!Next ELSE UNCHANGED cloneVars
    /\ IF part = "merge" THEN Merging!Next ELSE UNCHANGED mergeVars

StorageSpec == StorageInit /\ [][StorageNext]_storageVars

MCSymmetry == Permutations(Requests) \cup Permutations(Scans)

\* The second copy runs only while nothing has failed and the sweep has nothing
\* under way, and only next to the file that fits.
CacheCorner ==
    \/ proc[w2].pc = "idle"
    \/ /\ Never(Faults) /\ proc[sweep].pc = "idle"
       /\ \A w \in Writers : proc[w].inst # a2

\* Two requests under way, one that died.
R2Corner ==
    /\ Cardinality({r \in Requests : req[r].at \notin {"new", "end", "dead"}}) <= 2
    /\ Cardinality({r \in Requests : req[r].at = "dead"}) <= 1

\* Scans overlap on WebDAV and without tasks; tasks are followed while nothing else
\* changes; what dies does so by itself.
Overlap == \A s \in Scans : Scan!Running(s)
ScanCorner ==
    /\ Overlap => (\A s \in Scans : ~scan[s].pool) /\ (\A f \in Scan!Files : tasks[f] = None) /\ kind = "webdav" /\ mode = "library"
    /\ mode = "sync_only" => changes = 0
    /\ (\E f \in Scan!Files : tasks[f] # None) => changes = 0 /\ (\A f \in Nested : tasks[f] = None)
    /\ \A s \in Scans : scan[s].force => scan[s].pool
    /\ (\A s \in Scans : scan[s].at \notin {"dead", "failed"}) \/ (changes = 0 /\ ~Overlap)

\* No copies are removed between a dedupe's reading and its batch.
MergeCorner ==
    \A r, q \in Admins : asks[r].op = "dedupe" /\ asks[r].at # "end" => asks[q].at \notin {"plan", "retire", "bytes", "rows"}

Corner == CASE part = "cache" -> CacheCorner [] part = "r2" -> R2Corner [] part = "scan" -> ScanCorner
            [] part = "clone" -> TRUE [] part = "merge" -> MergeCorner

-----------------------------------------------------------------------------
\* The type invariants of the modules.
TypesOK == CASE part = "cache" -> TypeOK [] part = "r2" -> R2!TypeOK [] part = "scan" -> Scan!TypeOK
             [] part = "clone" -> Cloning!TypeOK [] part = "merge" -> Merging!TypeOK

\* The cache of a source stays within its budget, no stored bytes escape the account and
\* a row that may be played has its object (cacheTiers.ts:20 and 31, hotcache.ts:61);
\* a play of a song there is is counted at one there is, whatever is merged into what,
\* and each song whose surplus copies were removed can be played (catalogMerge.ts:97 and
\* 329).
CopiesAddUp ==
    /\ part = "cache" => WithinBudget /\ BytesAccounted /\ PlayableHasBytes
    /\ part = "merge" => Merging!PlaysAddUp /\ Merging!LastCopyStays

\* A song of the library's own files has its bytes (files.ts:380, 554), and only an
\* upload changes which song an instance plays (work_lossless.ts:331).
FilesKeepTheirSongs ==
    /\ [](part = "r2" => R2!SongsHaveBytes)
    /\ [][part = "r2" => \A i \in R2!Ids : R2!KeepsItsSong(i)]_storageVars

\* What a later run of a clone skips has arrived (Tools.vue:860), the list a run writes
\* to holds what has been sent of it (clone.ts:748), and no list of another name is
\* written to (clone.ts:778).
ClonesAreTrue ==
    /\ [](part = "clone" => Cloning!SkippedHaveArrived /\ Cloning!ListsArrive)
    /\ [][part = "clone" => Cloning!OthersStay]_storageVars

\* A scan hides a song as missing only when its file was away or in a directory that
\* could not be listed (hidden; scan.ts:1232), and one that is completed with nothing
\* changing meanwhile and everything listed leaves the truth (scan.ts:400).
ScansTellTheTruth ==
    [][part = "scan" => Scan!HidesTheMissing /\ Scan!LeavesTheTruth]_storageVars
=============================================================================
