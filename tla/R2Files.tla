------------------------------- MODULE R2Files -------------------------------
(***************************************************************************)
(* The files of the R2 bucket: objects under immutable keys, their rows    *)
(* storage_objects, the logical files storage_entries and the instances    *)
(* song_instances that play them.  Requests upload over a path, delete,    *)
(* copy, move, migrate a library of legacy keys, edit tags in place and    *)
(* replace a WAV by the FLAC a worker made of it; each is cut where it     *)
(* awaits the database or the bucket and something another request does    *)
(* could matter.  A request makes at most one object, instance and file,   *)
(* named after it.  Leases never expire here (UploadMetadata has that);    *)
(* folders, sizes, other sources, masters and albums are left out.         *)
(***************************************************************************)
EXTENDS Integers, FiniteSets

CONSTANTS
    Requests,
    Ops,          \* what requests there are
    Paths,
    Home,         \* path of the library's first file, also its legacy key
    Old,          \* that file's instance, and its song
    Legacy,       \* its key before migration
    Stable,       \* the key and object that migration gives it
    None

Keys == Requests \cup {Legacy, Stable}
Ids == Requests \cup {Old}
Forms == {"wav", "flac"}
Content == [song : Ids, edits : SUBSET Requests, form : Forms]

VARIABLES
    bucket,       \* content under each key; content stands for the etag too
    rows,         \* storage_objects; a row's id is its physical key
    files,        \* storage_entries
    songs,        \* song_instances
    held,         \* upload leases, by instance or by path
    job,          \* the lossless row of work_queue
    req

fileVars == <<bucket, rows, files, songs, held, job, req>>

Waiting == [op |-> None, at |-> "new", path |-> None, entry |-> None, inst |-> None,
            old |-> None, key |-> None, seen |-> None, form |-> None, try |-> 0, gone |-> FALSE]

Init ==
    /\ bucket = [k \in Keys |-> IF k = Legacy THEN [song |-> Old, edits |-> {}, form |-> "wav"] ELSE None]
    /\ rows = [k \in Keys |-> None]
    /\ files = [f \in Requests |-> None]
    /\ songs = [i \in Ids |-> IF i = Old THEN [key |-> Legacy, obj |-> None, form |-> "wav"] ELSE None]
    /\ held = {} /\ job = None
    /\ req = [r \in Requests |-> Waiting]

\* findR2EntryByPath: the path is unique
EntryAt(p) == IF \E f \in Requests : files[f] # None /\ files[f].path = p
              THEN CHOOSE f \in Requests : files[f] # None /\ files[f].path = p ELSE None
InstanceOf(f) == IF f = None THEN None ELSE files[f].inst

FilesOf(k) == {f \in Requests : files[f] # None /\ files[f].obj = k}
SongsOf(k) == {i \in Ids : songs[i] # None /\ songs[i].obj = k}
FilesOfSong(i) == {f \in Requests : files[f] # None /\ files[f].inst = i}

At(r, op, at) == req[r].op = op /\ req[r].at = at
Begin(r, op, m) == Ops # {} /\ op \in Ops /\ req[r].at = "new" /\ req' = [req EXCEPT ![r] = [m EXCEPT !.op = op]]
Goto(r, at) == req' = [req EXCEPT ![r].at = at]
Leases(r) == {req[r].inst, req[r].path} \cap held
End(r) == Goto(r, "end") /\ held' = held \ Leases(r)

\* registerR2Object: the row, and the file at the path, which keeps its instance
\* when none is given; an instance that is gone is refused by the foreign key
Register(r, k, row, p, i) ==
    LET f == IF EntryAt(p) = None THEN r ELSE EntryAt(p)
    IN  /\ rows' = [rows EXCEPT ![k] = IF @ = None THEN row ELSE [@ EXCEPT !.etag = IF row.etag = None THEN @ ELSE row.etag,
                                                                        !.legacy = @ \/ row.legacy]]
        /\ files' = [files EXCEPT ![f] = [path |-> p, obj |-> k,
                                          inst |-> IF i = None THEN InstanceOf(EntryAt(p)) ELSE i]]

FreshRow(form) == [etag |-> None, legacy |-> FALSE, form |-> form]

-----------------------------------------------------------------------------
(* Upload to a path, which overwrites what is there *)

UploadStarts(r, p, form) ==
    LET e == EntryAt(p)
        i == InstanceOf(e)
    IN  /\ Begin(r, "upload", [Waiting EXCEPT
             !.at = IF e = None THEN "put" ELSE "lease", !.path = p, !.form = form, !.entry = e,
             !.inst = i, !.old = IF e = None THEN None ELSE files[e].obj,
             !.key = IF i = None THEN None ELSE songs[i].key])
        /\ UNCHANGED <<bucket, rows, files, songs, held, job>>

\* markUploadMetadataPending, and the reset that needs the instance unchanged;
\* a file without an instance is leased by its path, and compared again
Leasable(q) ==
    IF q.inst # None
    THEN q.inst \notin held /\ (IF songs[q.inst] = None THEN FALSE ELSE songs[q.inst].key = q.key)
    ELSE /\ q.path \notin held /\ EntryAt(q.path) = q.entry
         /\ files[q.entry] = [path |-> q.path, obj |-> q.old, inst |-> None]

UploadLeases(r) ==
    /\ At(r, "upload", "lease")
    /\ IF Leasable(req[r])
       THEN /\ held' = held \cup {IF req[r].inst # None THEN req[r].inst ELSE req[r].path}
            /\ Goto(r, "put")
       ELSE Goto(r, "end") /\ UNCHANGED held
    /\ UNCHANGED <<bucket, rows, files, songs, job>>

\* The bytes go to a key nobody else knows; then the object's row, and the
\* instance, an old one or a new one
UploadRecords(r) ==
    /\ At(r, "upload", "put")
    /\ LET q == req[r]
           i == IF q.inst = None THEN r ELSE q.inst
       IN  /\ bucket' = [bucket EXCEPT ![r] = [song |-> r, edits |-> {}, form |-> q.form]]
           /\ rows' = [rows EXCEPT ![r] = FreshRow(q.form)]
           /\ songs' = [songs EXCEPT ![i] = IF @ = None /\ i # r THEN None
                                            ELSE [key |-> r, obj |-> r, form |-> q.form]]
           /\ Goto(r, "register")
    /\ UNCHANGED <<files, held, job>>

\* registerR2Object, or what the handler's catch does
UploadRegisters(r) ==
    /\ At(r, "upload", "register")
    /\ LET i == IF req[r].inst = None THEN r ELSE req[r].inst
       IN  \/ /\ songs[i] # None
              /\ Register(r, r, FreshRow(req[r].form), req[r].path, i)
              /\ Goto(r, IF req[r].old = None THEN "release" ELSE "retire")
              /\ UNCHANGED <<bucket, held>>
           \/ /\ songs[i] = None
              /\ IF SongsOf(r) \cup FilesOf(r) = {}
                 THEN bucket' = [bucket EXCEPT ![r] = None] /\ rows' = [rows EXCEPT ![r] = None]
                 ELSE UNCHANGED <<bucket, rows>>
              /\ End(r) /\ UNCHANGED files
    /\ UNCHANGED <<songs, job>>

\* cleanupStorageObject of the replaced object: an instance that still names it
\* makes the statement fail, and the request with it
UploadRetires(r) ==
    /\ At(r, "upload", "retire")
    /\ LET old == req[r].old IN
       \/ /\ FilesOf(old) = {} /\ SongsOf(old) # {}
          /\ End(r) /\ UNCHANGED rows
       \/ /\ FilesOf(old) # {} \/ SongsOf(old) = {}
          /\ rows' = IF FilesOf(old) = {} THEN [rows EXCEPT ![old] = None] ELSE rows
          /\ Goto(r, IF req[r].inst = None THEN "release" ELSE "bytes") /\ UNCHANGED held
    /\ UNCHANGED <<bucket, files, songs, job>>

\* the replaced bytes go whatever still names them
UploadEnds(r) ==
    /\ At(r, "upload", "bytes") \/ At(r, "upload", "release")
    /\ bucket' = IF req[r].at = "bytes" THEN [bucket EXCEPT ![req[r].old] = None] ELSE bucket
    /\ End(r)
    /\ UNCHANGED <<rows, files, songs, job>>

-----------------------------------------------------------------------------
(* Delete, copy, move *)

DeleteStarts(r, p) ==
    /\ EntryAt(p) # None
    /\ LET e == EntryAt(p)
           i == files[e].inst
       IN  Begin(r, "delete", [Waiting EXCEPT !.at = "count", !.entry = e, !.inst = i, !.old = files[e].obj,
                               !.key = IF i = None THEN None ELSE songs[i].obj])
    /\ UNCHANGED <<bucket, rows, files, songs, held, job>>

\* The counts; entry and instance are those read before
DeleteCounts(r) ==
    /\ At(r, "delete", "count")
    /\ LET q == req[r]
           drops == q.inst # None /\ Cardinality(FilesOfSong(q.inst)) <= 1
           left == Cardinality(SongsOf(q.old)) - (IF drops /\ q.key = q.old THEN 1 ELSE 0)
       IN  req' = [req EXCEPT ![r].at = IF Cardinality(FilesOf(q.old)) <= 1 /\ left <= 0 THEN "bytes" ELSE "entry",
                              ![r].inst = IF drops THEN @ ELSE None]
    /\ UNCHANGED <<bucket, rows, files, songs, held, job>>

\* A failing bucket keeps the catalogue as it is
DeleteBytes(r, ok) ==
    /\ At(r, "delete", "bytes")
    /\ bucket' = IF ok THEN [bucket EXCEPT ![req[r].old] = None] ELSE bucket
    /\ req' = [req EXCEPT ![r].at = IF ok THEN "entry" ELSE "end", ![r].gone = ok]
    /\ UNCHANGED <<rows, files, songs, held, job>>

DeleteEntry(r) ==
    /\ At(r, "delete", "entry")
    /\ files' = [files EXCEPT ![req[r].entry] = None]
    /\ Goto(r, "rows")
    /\ UNCHANGED <<bucket, rows, songs, held, job>>

\* The instance, whose files lose it (ON DELETE SET NULL), and the object's row
DeleteRows(r) ==
    /\ At(r, "delete", "rows")
    /\ LET q == req[r]
           i == q.inst
           left == {j \in SongsOf(q.old) : j # i}
       IN  /\ songs' = IF i = None THEN songs ELSE [songs EXCEPT ![i] = None]
           /\ files' = [f \in Requests |-> IF i # None /\ files[f] # None /\ files[f].inst = i
                                      THEN [files[f] EXCEPT !.inst = None] ELSE files[f]]
           /\ rows' = IF q.gone /\ left \cup FilesOf(q.old) = {} THEN [rows EXCEPT ![q.old] = None] ELSE rows
    /\ Goto(r, "end")
    /\ UNCHANGED <<bucket, held, job>>

\* /files/copy, and /files/crossCopy without an instance: the path is looked up before
CopyStarts(r, p, to) ==
    /\ EntryAt(p) # None /\ EntryAt(to) = None
    /\ Begin(r, "copy", [Waiting EXCEPT !.at = "copy", !.path = to, !.old = files[EntryAt(p)].obj])
    /\ UNCHANGED <<bucket, rows, files, songs, held, job>>

CopyBytes(r) ==
    /\ At(r, "copy", "copy")
    /\ bucket' = [bucket EXCEPT ![r] = bucket[req[r].old]]
    /\ Goto(r, IF bucket[req[r].old] = None THEN "end" ELSE "register")
    /\ UNCHANGED <<rows, files, songs, held, job>>

CopyRegisters(r) ==
    /\ At(r, "copy", "register")
    /\ Register(r, r, FreshRow(bucket[r].form), req[r].path, None)
    /\ Goto(r, "end")
    /\ UNCHANGED <<bucket, songs, held, job>>

MoveStarts(r, p, to) ==
    /\ EntryAt(p) # None /\ EntryAt(to) = None
    /\ Begin(r, "move", [Waiting EXCEPT !.at = "move", !.path = to, !.entry = EntryAt(p)])
    /\ UNCHANGED <<bucket, rows, files, songs, held, job>>

MoveEnds(r) ==
    /\ At(r, "move", "move")
    /\ LET e == req[r].entry IN
       files' = IF EntryAt(req[r].path) # None \/ files[e] = None THEN files
                ELSE [files EXCEPT ![e].path = req[r].path]
    /\ Goto(r, "end")
    /\ UNCHANGED <<bucket, rows, songs, held, job>>

\* /files/crossCopy with an instance to register: the bytes are there, the
\* instance names an object whose row would come after it, so it is refused,
\* and the answer is a success all the same
MirrorStarts(r, i) ==
    /\ songs[i] # None /\ bucket[songs[i].key] # None
    /\ Begin(r, "mirror", [Waiting EXCEPT !.at = "instance", !.inst = i])
    /\ bucket' = [bucket EXCEPT ![r] = bucket[songs[i].key]]
    /\ UNCHANGED <<rows, files, songs, held, job>>

MirrorRegisters(r) ==
    /\ At(r, "mirror", "instance")
    /\ songs' = IF rows[r] = None THEN songs
                ELSE [songs EXCEPT ![r] = [key |-> r, obj |-> r, form |-> bucket[r].form]]
    /\ Goto(r, "end")
    /\ UNCHANGED <<bucket, rows, files, held, job>>

-----------------------------------------------------------------------------
(* Migration of the legacy key *)

MigrateStarts(r, p) ==
    /\ songs[Old] # None /\ songs[Old].obj = None /\ bucket[Legacy] # None
    /\ p \in IF FilesOfSong(Old) = {} THEN {Home} ELSE {files[f].path : f \in FilesOfSong(Old)}
    /\ Begin(r, "migrate", [Waiting EXCEPT !.at = "copy", !.seen = bucket[Legacy], !.form = songs[Old].form, !.path = p])
    /\ UNCHANGED <<bucket, rows, files, songs, held, job>>

\* An object of another size, here and in the copy, ends it
MigrateCopies(r) ==
    /\ At(r, "migrate", "copy")
    /\ LET source == IF bucket[Stable] = None THEN bucket[Legacy] ELSE bucket[Stable] IN
       IF source # req[r].seen
       THEN Goto(r, "end") /\ UNCHANGED bucket
       ELSE Goto(r, "register") /\ bucket' = [bucket EXCEPT ![Stable] = source]
    /\ UNCHANGED <<rows, files, songs, held, job>>

MigrateRegisters(r) ==
    /\ At(r, "migrate", "register")
    /\ \/ songs[Old] = None /\ Goto(r, "end") /\ UNCHANGED <<rows, files>>
       \/ /\ songs[Old] # None
          /\ Register(r, Stable, [etag |-> req[r].seen, legacy |-> TRUE, form |-> req[r].form], req[r].path, Old)
          /\ Goto(r, "link")
    /\ UNCHANGED <<bucket, songs, held, job>>

\* Without the object's row the foreign key refuses it
MigrateLinks(r) ==
    /\ At(r, "migrate", "link")
    /\ songs' = [i \in Ids |-> IF rows[Stable] # None /\ songs[i] # None /\ songs[i].key = Legacy
                               THEN [songs[i] EXCEPT !.key = Stable, !.obj = Stable] ELSE songs[i]]
    /\ Goto(r, "end")
    /\ UNCHANGED <<bucket, rows, files, held, job>>

\* The cleanup phase: the stable object is verified, the legacy one deleted
RetireStarts(r) ==
    /\ rows[Stable] # None /\ rows[Stable].legacy /\ bucket[Legacy] # None
    /\ bucket[Stable] = bucket[Legacy]
    /\ Begin(r, "retire", [Waiting EXCEPT !.at = "bytes"])
    /\ UNCHANGED <<bucket, rows, files, songs, held, job>>

RetireEnds(r) ==
    /\ At(r, "retire", "bytes")
    /\ bucket' = [bucket EXCEPT ![Legacy] = None]
    /\ rows' = [rows EXCEPT ![Stable] = IF @ = None THEN @ ELSE [@ EXCEPT !.legacy = FALSE]]
    /\ Goto(r, "end")
    /\ UNCHANGED <<files, songs, held, job>>

-----------------------------------------------------------------------------
(* Tags written into the file: a WAV only over the bytes they were read from *)

EditStarts(r, i) ==
    /\ songs[i] # None
    /\ Begin(r, "edit", [Waiting EXCEPT !.at = "read", !.key = songs[i].key, !.form = songs[i].form])
    /\ UNCHANGED <<bucket, rows, files, songs, held, job>>

EditReads(r) ==
    /\ At(r, "edit", "read")
    /\ req' = [req EXCEPT ![r].at = IF bucket[req[r].key] = None THEN "end" ELSE "write",
                          ![r].seen = bucket[req[r].key]]
    /\ UNCHANGED <<bucket, rows, files, songs, held, job>>

EditWrites(r) ==
    /\ At(r, "edit", "write")
    /\ LET q == req[r] IN
       bucket' = IF q.form = "wav" /\ bucket[q.key] # q.seen THEN bucket
                 ELSE [bucket EXCEPT ![q.key] = [q.seen EXCEPT !.edits = @ \cup {r}]]
    /\ Goto(r, "end")
    /\ UNCHANGED <<rows, files, songs, held, job>>

-----------------------------------------------------------------------------
(* The FLAC a worker made of a WAV *)

\* enqueueLosslessBatch, and the claim; claimed anew when a heartbeat is missed
JobStarts(i) ==
    /\ "switch" \in Ops /\ job = None /\ songs[i] # None /\ songs[i].obj # None
    /\ songs[i].form = "wav" /\ rows[songs[i].obj].form = "wav" /\ rows[songs[i].obj].etag # None
    /\ job' = [inst |-> i, obj |-> songs[i].obj, etag |-> rows[songs[i].obj].etag, try |-> 1, done |-> FALSE]
    /\ UNCHANGED <<bucket, rows, files, songs, held, req>>

JobAgain ==
    /\ job # None /\ ~job.done /\ job.try < 2
    /\ job' = [job EXCEPT !.try = 2]
    /\ UNCHANGED <<bucket, rows, files, songs, held, req>>

\* sourceSnapshotMatches
SourceNamed(m) ==
    /\ songs[m.inst] # None /\ songs[m.inst].key = m.obj /\ songs[m.inst].obj = m.obj
    /\ rows[m.obj] # None /\ rows[m.obj].etag = m.etag

SourceMatches(m) == SourceNamed(m) /\ bucket[m.obj] = m.etag

\* The upload of the FLAC, checked against the source: stored, with a row
SwitchStarts(r) ==
    /\ job # None /\ ~job.done /\ SourceMatches(job)
    /\ Begin(r, "switch", [Waiting EXCEPT !.at = "check", !.inst = job.inst, !.old = job.obj,
                           !.seen = job.etag, !.try = job.try])
    /\ LET flac == [job.etag EXCEPT !.form = "flac"] IN
       /\ bucket' = [bucket EXCEPT ![r] = flac]
       /\ rows' = [rows EXCEPT ![r] = [etag |-> flac, legacy |-> FALSE, form |-> "flac"]]
    /\ UNCHANGED <<files, songs, held, job>>

\* Mutant: what the bucket holds of the output is deleted with no look at the rows.
CleanupAnyway(r) == bucket' = [bucket EXCEPT ![r] = None] /\ rows' = rows

\* cleanupLosslessOutput
CleanupOutput(r) ==
    IF SongsOf(r) \cup FilesOf(r) = {}
    THEN bucket' = [bucket EXCEPT ![r] = None] /\ rows' = [rows EXCEPT ![r] = None]
    ELSE UNCHANGED <<bucket, rows>>

SwitchChecks(r) ==
    /\ At(r, "switch", "check")
    /\ \/ SourceMatches(job) /\ Goto(r, "batch") /\ UNCHANGED <<bucket, rows>>
       \/ ~SourceMatches(job) /\ CleanupOutput(r) /\ Goto(r, "end")
    /\ UNCHANGED <<files, songs, held, job>>

\* Mutant: the batch trusts the check before it.
MaySwitchOnce(r) == ~job.done /\ job.try = req[r].try /\ songs[req[r].inst] # None

\* The WHERE clauses of the batch: instance and rows as in the payload, the claim its own
MaySwitch(r) == SourceNamed(job) /\ ~job.done /\ job.try = req[r].try

\* Instance, file and job in one batch; its answer may be lost
SwitchCommits(r, answered) ==
    /\ At(r, "switch", "batch") /\ MaySwitch(r)
    /\ songs' = [songs EXCEPT ![job.inst] = [key |-> r, obj |-> r, form |-> "flac"]]
    /\ files' = [f \in Requests |-> IF files[f] # None /\ files[f].inst = job.inst /\ files[f].obj = job.obj
                               THEN [files[f] EXCEPT !.obj = r] ELSE files[f]]
    /\ job' = [job EXCEPT !.done = TRUE]
    /\ Goto(r, IF answered THEN "retire" ELSE "failed")
    /\ UNCHANGED <<bucket, rows, held>>

SwitchFails(r) ==
    /\ At(r, "switch", "failed") \/ (At(r, "switch", "batch") /\ ~MaySwitch(r))
    /\ CleanupOutput(r)
    /\ Goto(r, "end")
    /\ UNCHANGED <<files, songs, held, job>>

\* retireOldObject: the row when nothing names it, and then the bytes
SwitchRetires(r) ==
    /\ At(r, "switch", "retire")
    /\ IF FilesOf(req[r].old) \cup SongsOf(req[r].old) = {} /\ rows[req[r].old] # None
       THEN rows' = [rows EXCEPT ![req[r].old] = None] /\ Goto(r, "bytes")
       ELSE Goto(r, "end") /\ UNCHANGED rows
    /\ UNCHANGED <<bucket, files, songs, held, job>>

SwitchEnds(r) ==
    /\ At(r, "switch", "bytes")
    /\ bucket' = [bucket EXCEPT ![req[r].old] = None]
    /\ Goto(r, "end")
    /\ UNCHANGED <<rows, files, songs, held, job>>

-----------------------------------------------------------------------------
\* A request ends between two awaits: its lease expires
Dies(r) ==
    /\ req[r].at \notin {"new", "end", "dead"}
    /\ Goto(r, "dead") /\ held' = held \ Leases(r)
    /\ UNCHANGED <<bucket, rows, files, songs, job>>

Next ==
    \/ \E r \in Requests :
         \/ \E p \in Paths, form \in Forms : UploadStarts(r, p, form)
         \/ \E p \in Paths : DeleteStarts(r, p) \/ MigrateStarts(r, p)
         \/ \E p, to \in Paths : CopyStarts(r, p, to) \/ MoveStarts(r, p, to)
         \/ \E i \in Ids : MirrorStarts(r, i) \/ EditStarts(r, i)
         \/ RetireStarts(r) \/ SwitchStarts(r)
         \/ UploadLeases(r) \/ UploadRecords(r) \/ UploadRegisters(r) \/ UploadRetires(r) \/ UploadEnds(r)
         \/ DeleteCounts(r) \/ (\E ok \in BOOLEAN : DeleteBytes(r, ok)) \/ DeleteEntry(r) \/ DeleteRows(r)
         \/ CopyBytes(r) \/ CopyRegisters(r) \/ MoveEnds(r) \/ MirrorRegisters(r)
         \/ MigrateCopies(r) \/ MigrateRegisters(r) \/ MigrateLinks(r) \/ RetireEnds(r)
         \/ EditReads(r) \/ EditWrites(r)
         \/ SwitchChecks(r) \/ (\E ok \in BOOLEAN : SwitchCommits(r, ok)) \/ SwitchFails(r)
         \/ SwitchRetires(r) \/ SwitchEnds(r)
         \/ Dies(r)
    \/ \E i \in Ids : JobStarts(i)
    \/ JobAgain

Spec == Init /\ [][Next]_fileVars

TypeOK ==
    /\ \A k \in Keys :
         /\ bucket[k] \in Content \cup {None}
         /\ rows[k] # None => rows[k].etag \in Content \cup {None} /\ rows[k].form \in Forms
    /\ \A f \in Requests :
         files[f] # None => files[f].path \in Paths /\ files[f].obj \in Keys /\ files[f].inst \in Ids \cup {None}
    /\ \A f \in Ids :
         songs[f] # None => songs[f].key \in Keys /\ songs[f].obj \in Keys \cup {None}
    /\ held \subseteq Ids \cup Paths
    /\ \A r \in Requests : req[r].op \in Ops \cup {None}

(* Whatever is in progress, an instance that plays a stable object finds its row
   and its bytes, except those a deletion the user asked for has taken first: no
   overwrite, replacement, cleanup or migration takes away what an instance still
   plays.  A file of its own has no such promise: one moved away while its path is
   overwritten keeps the object whose bytes the overwrite deletes. *)
SongsHaveBytes ==
    \A k \in Keys :
        SongsOf(k) # {} =>
            /\ rows[k] # None
            /\ bucket[k] # None \/ \E r \in Requests : req[r].gone /\ req[r].old = k

SongAt(k) == IF bucket[k] = None THEN None ELSE bucket[k].song

(* Only an upload changes which song an instance plays: a FLAC made of a file
   that has been overwritten meanwhile, or a migration that was on its way,
   never brings the old song back. *)
KeepsItsSong(i) ==
    songs[i] # None /\ songs'[i] # None /\ songs'[i].key # songs[i].key =>
        \/ \E r \in Requests : At(r, "upload", "put") /\ songs'[i].key = r
        \/ SongAt(songs[i].key) = None
        \/ \E k \in Keys : songs'[i].key = k /\ SongAt(k)' \in {None, SongAt(songs[i].key)}
OnlyUploadsReplace == [][\A i \in Ids : KeepsItsSong(i)]_fileVars

=============================================================================
