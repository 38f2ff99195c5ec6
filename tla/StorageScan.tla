----------------------------- MODULE StorageScan -----------------------------
(***************************************************************************)
(* A scan brings the song rows of one storage source up to date with the   *)
(* files found there: it lists the source, takes one snapshot of the rows, *)
(* writes file by file what the two disagree about, marks the rows of      *)
(* files it has not seen, and queues a metadata task for every file whose  *)
(* tags are to be read.  Nothing locks a source: the scheduled scan and    *)
(* any number of requested ones overlap, while files change under them and *)
(* browsers read tags.                                                     *)
(*                                                                         *)
(* A file is its generation (0: absent), a fingerprint (etag, modification *)
(* time and size) the generation it was taken of.                          *)
(***************************************************************************)
EXTENDS Integers, FiniteSets

CONSTANTS
    Top,          \* files in the root of the source, or on a listing's first page
    Nested,       \* files in a directory below, or on the next page
    Scans,        \* scans, requested or scheduled
    Kinds,        \* the types of the source to consider
    MaxChanges,   \* BOUND: changes on the storage
    MayHide,      \* whether a directory's listing may fail
    None

VARIABLES
    kind,         \* storage_sources.type
    mode,         \* storage_sources.mode
    disk,
    changes,
    rows,         \* song_instances of the source
    entry,        \* its registered files (R2 only): without a song, or with one
    scan,
    tasks         \* wt-metadata-<instance>

scanVars == <<kind, mode, disk, changes, rows, entry, scan, tasks>>

Files == Top \cup Nested
Ended == {"new", "completed", "failed", "dead"}
Running(s) == scan[s].at \notin Ended
At(s, at) == scan[s].at = at

InitRow(g) == [print |-> g, scanned |-> FALSE, tags |-> None, missing |-> FALSE]
Idle == [at |-> "new", force |-> FALSE, pool |-> FALSE, found |-> [f \in Files |-> 0], complete |-> TRUE,
         prior |-> [f \in Files |-> None], todo |-> {}, targets |-> {},
         gone |-> {}, hidden |-> {}, calm |-> TRUE]

\* Earlier scans have left rows, some of them hidden, for some of the files.
Init ==
    /\ kind \in Kinds /\ mode \in {"library", "sync_only"}
    /\ disk \in [Files -> {0, 1}] /\ changes = 0
    /\ entry \in [Files -> {None, "file", "song"}]
    /\ kind # "r2" => \A f \in Files : entry[f] = None
    /\ \E known \in SUBSET Files : \E away \in SUBSET known :
         rows = [f \in Files |->
                   IF kind = "r2" THEN IF entry[f] = "song" THEN [InitRow(None) EXCEPT !.missing = f \in away] ELSE None
                   ELSE IF f \in known THEN [InitRow(1) EXCEPT !.missing = f \in away] ELSE None]
    /\ scan = [s \in Scans |-> Idle]
    /\ tasks = [f \in Files |-> None]

\* A scan that is over keeps nothing but its job's status.
Over(s, status) == scan' = [scan EXCEPT ![s] = [Idle EXCEPT !.at = status]]

Listed(s) == {f \in Files : scan[s].found[f] > 0}
Rest == <<kind, mode, disk, changes, entry>>

-----------------------------------------------------------------------------
\* The storage and the browsers.

\* What every running scan has seen happen to the source
Witness(f, gone) ==
    scan' = [s \in Scans |-> IF Running(s)
                             THEN [scan[s] EXCEPT !.calm = FALSE, !.gone = IF gone THEN @ \cup {f} ELSE @]
                             ELSE scan[s]]

\* External: a file is written or rewritten by whoever owns the storage.
FileChanges(f) ==
    /\ kind # "r2" /\ changes < MaxChanges /\ changes' = changes + 1
    /\ disk' = [disk EXCEPT ![f] = changes + 2]
    /\ Witness(f, FALSE)
    /\ UNCHANGED <<kind, mode, rows, entry, tasks>>

\* Objects of the bucket are new ones, and the upload writes their rows.
FileUploads(f) ==
    /\ kind = "r2" /\ disk[f] = 0 /\ rows[f] = None /\ changes < MaxChanges /\ changes' = changes + 1
    /\ disk' = [disk EXCEPT ![f] = changes + 2]
    /\ rows' = [rows EXCEPT ![f] = InitRow(None)] /\ entry' = [entry EXCEPT ![f] = "song"]
    /\ Witness(f, FALSE)
    /\ UNCHANGED <<kind, mode, tasks>>

FileGoes(f) ==
    /\ changes < MaxChanges /\ disk[f] > 0 /\ changes' = changes + 1
    /\ disk' = [disk EXCEPT ![f] = 0]
    /\ Witness(f, TRUE)
    /\ UNCHANGED <<kind, mode, rows, entry, tasks>>

\* A browser claims the task and reads the file as it is now.
BrowserReads(f) ==
    /\ tasks[f] # None /\ tasks[f].status = "queued"
    /\ tasks' = [tasks EXCEPT ![f] = IF disk[f] > 0 THEN [status |-> "claimed", read |-> disk[f]]
                                                    ELSE [status |-> "failed", read |-> 0]]
    /\ UNCHANGED <<Rest, rows, scan>>

\* POST /work/submit, applyMetadataResult: no fingerprint goes with the tags
BrowserSubmits(f) ==
    /\ tasks[f] # None /\ tasks[f].status = "claimed" /\ rows[f] # None
    /\ tasks' = [tasks EXCEPT ![f].status = "completed"]
    /\ rows' = [rows EXCEPT ![f] = [@ EXCEPT !.scanned = TRUE, !.tags = tasks[f].read]]
    /\ UNCHANGED <<Rest, scan>>

\* POST /work/backfillCompleted: saved results are applied to unread instances
Backfills(f) ==
    /\ tasks[f] # None /\ tasks[f].status = "completed" /\ rows[f] # None /\ ~rows[f].scanned
    /\ rows' = [rows EXCEPT ![f] = [@ EXCEPT !.scanned = TRUE, !.tags = tasks[f].read]]
    /\ UNCHANGED <<Rest, scan, tasks>>

-----------------------------------------------------------------------------
\* The scan.

\* insertScanJob comes first: the scan shows as running before it runs.
Begin(s, force, pool) ==
    /\ At(s, "new")
    /\ LET alone == \A o \in Scans : ~Running(o)
       IN scan' = [o \in Scans |->
            IF o = s THEN [Idle EXCEPT !.at = "list", !.force = force, !.pool = pool, !.calm = alone,
                                       !.gone = {f \in Files : disk[f] = 0}]
            ELSE IF Running(o) THEN [scan[o] EXCEPT !.calm = FALSE] ELSE scan[o]]
    /\ UNCHANGED <<Rest, rows, tasks>>

\* GET /rest/startScan: tasks are queued while the worker pool is enabled, and
\* every file counts as changed on request or with scan_etag_check off
startScanHandler(s) == \E force, pool \in BOOLEAN : Begin(s, force, pool)

\* The hourly job queues no tasks.
maybeRunScheduledScan(s) == \E force \in BOOLEAN : Begin(s, force, FALSE)

Finds(s, part) == [f \in Files |-> IF f \in part THEN disk[f] ELSE scan[s].found[f]]

\* listWebdav: one PROPFIND of any depth, where the server permits it
ListsDeep(s) ==
    /\ At(s, "list") /\ kind = "webdav"
    /\ scan' = [scan EXCEPT ![s] = [@ EXCEPT !.at = "rows", !.found = Finds(s, Files)]]
    /\ UNCHANGED <<Rest, rows, tasks>>

\* listWebdav otherwise: directory by directory; the root's failure fails the scan
ListsRoot(s) ==
    /\ At(s, "list") /\ kind = "webdav"
    /\ \/ scan' = [scan EXCEPT ![s] = [@ EXCEPT !.at = "below", !.found = Finds(s, Top)]]
       \/ Over(s, "failed")
    /\ UNCHANGED <<Rest, rows, tasks>>

\* A directory that cannot be listed is passed over; only the request budget
\* makes the listing incomplete.
ListsBelow(s) ==
    /\ At(s, "below") /\ kind = "webdav"
    /\ \/ scan' = [scan EXCEPT ![s] = [@ EXCEPT !.at = "rows", !.found = Finds(s, Nested)]]
       \/ /\ MayHide
          /\ scan' = [scan EXCEPT ![s] = [@ EXCEPT !.at = "rows", !.hidden = Nested, !.calm = FALSE]]
       \/ scan' = [scan EXCEPT ![s] = [@ EXCEPT !.at = "rows", !.complete = FALSE]]
    /\ UNCHANGED <<Rest, rows, tasks>>

\* listS3Objects and MUSIC_BUCKET.list: pages, of which the last may be out of
\* the budget; an error on any of them fails the scan.
ListsPage(s) ==
    /\ kind # "webdav"
    /\ \/ /\ At(s, "list")
          /\ scan' = [scan EXCEPT ![s] = [@ EXCEPT !.at = "below", !.found = Finds(s, Top)]]
       \/ /\ At(s, "below")
          /\ \/ scan' = [scan EXCEPT ![s] = [@ EXCEPT !.at = "rows", !.found = Finds(s, Nested)]]
             \/ scan' = [scan EXCEPT ![s] = [@ EXCEPT !.at = "rows", !.complete = FALSE]]
       \/ /\ At(s, "list") \/ At(s, "below")
          /\ Over(s, "failed")
    /\ UNCHANGED <<Rest, rows, tasks>>

\* existingMap: the rows as they are after the listing
ReadsRows(s) ==
    /\ At(s, "rows")
    /\ scan' = [scan EXCEPT ![s] = [@ EXCEPT !.at = "write", !.prior = rows, !.todo = Listed(s)]]
    /\ UNCHANGED <<Rest, rows, tasks>>

\* Mutant: a file that is back is skipped like one that never went.
SameHidden(s, f) ==
    LET prior == scan[s].prior[f]
    IN ~scan[s].force /\ prior.print = scan[s].found[f]

\* Path 1: nothing has changed since the row was written
Same(s, f) ==
    LET prior == scan[s].prior[f]
    IN ~scan[s].force /\ ~prior.missing /\ prior.print = scan[s].found[f]

\* The loop over the listing, in its order
Turn(s, f) == At(s, "write") /\ f \in scan[s].todo /\ (f \in Nested => scan[s].todo \cap Top = {})

Passes(s, f, queue) ==
    scan' = [scan EXCEPT ![s] = [scan[s] EXCEPT !.todo = scan[s].todo \ {f},
                                                !.targets = IF queue /\ scan[s].pool THEN @ \cup {f} ELSE @]]

FileSkipped(s, f) ==
    /\ Turn(s, f)
    /\ scan[s].prior[f] # None /\ Same(s, f)
    /\ Passes(s, f, ~scan[s].prior[f].scanned)
    /\ UNCHANGED <<Rest, rows, tasks>>

\* fingerprintBackfillOnly: a row that an upload wrote has no fingerprint yet
FirstPrint(s, f) ==
    LET prior == scan[s].prior[f]
    IN kind = "r2" /\ ~scan[s].force /\ ~prior.missing /\ prior.print = None

\* Path 2: the row takes the fingerprint found, and its tags are read again
FileUpdated(s, f) ==
    LET kept == FirstPrint(s, f) /\ scan[s].prior[f].scanned
    IN /\ Turn(s, f) /\ scan[s].prior[f] # None /\ ~Same(s, f)
       /\ rows' = [rows EXCEPT ![f] = [@ EXCEPT !.print = scan[s].found[f], !.missing = FALSE, !.scanned = kept]]
       /\ Passes(s, f, ~kept)
       /\ UNCHANGED <<Rest, tasks>>

\* Of the bucket only the objects of registered files without a song are new.
Insertable(f) == mode = "library" /\ (kind = "r2" => entry[f] = "file")

\* Path 3: INSERT OR IGNORE under an id made of the storage URI
FileInserted(s, f) ==
    /\ Turn(s, f) /\ scan[s].prior[f] = None
    /\ rows' = IF Insertable(f) /\ rows[f] = None THEN [rows EXCEPT ![f] = InitRow(scan[s].found[f])] ELSE rows
    /\ Passes(s, f, Insertable(f))
    /\ UNCHANGED <<Rest, tasks>>

\* Mutant: an incomplete listing is believed as well.
MayMarkAny(s) == Listed(s) # {} \/ \A f \in Files : scan[s].prior[f] = None

\* complete && (audio.length > 0 || existingMap.size === 0)
MayMark(s) == scan[s].complete /\ (Listed(s) # {} \/ \A f \in Files : scan[s].prior[f] = None)

\* newObjectRegistrations
Made(s) == {f \in Listed(s) : mode = "library" /\ scan[s].prior[f] = None /\ entry[f] = "file"}

Unseen(s) == {f \in Files \ Listed(s) : scan[s].prior[f] # None /\ ~scan[s].prior[f].missing}

markMissing(s) ==
    /\ At(s, "write") /\ scan[s].todo = {}
    /\ rows' = [f \in Files |-> IF MayMark(s) /\ f \in Unseen(s) THEN [rows[f] EXCEPT !.missing = TRUE] ELSE rows[f]]
    /\ entry' = [f \in Files |-> IF f \in Made(s) THEN "song" ELSE entry[f]]
    /\ scan' = [scan EXCEPT ![s].at = "queue"]
    /\ UNCHANGED <<kind, mode, disk, changes, tasks>>

\* dispatchWorkBatch: a row of the same id stops an INSERT OR IGNORE whatever
\* its status; a forced scan upserts those that have ended.
dispatchWorkBatch(s) ==
    /\ At(s, "queue")
    /\ tasks' = [f \in Files |->
         IF f \in scan[s].targets
            /\ \/ tasks[f] = None
               \/ scan[s].force /\ tasks[f].status \in {"completed", "failed"}
         THEN [status |-> "queued", read |-> 0] ELSE tasks[f]]
    /\ scan' = [scan EXCEPT ![s].at = "end"]
    /\ UNCHANGED <<Rest, rows>>

ScanEnds(s) ==
    /\ At(s, "end")
    /\ Over(s, IF scan[s].complete THEN "completed" ELSE "failed")
    /\ UNCHANGED <<Rest, rows, tasks>>

\* External: the request's time runs out; its job stays "running" for good.
ScanDies(s) ==
    /\ Running(s) /\ Over(s, "dead")
    /\ UNCHANGED <<Rest, rows, tasks>>

Next ==
    \/ \E f \in Files : FileChanges(f) \/ FileUploads(f) \/ FileGoes(f) \/ BrowserReads(f) \/ BrowserSubmits(f) \/ Backfills(f)
    \/ \E s \in Scans :
        \/ startScanHandler(s) \/ maybeRunScheduledScan(s)
        \/ ListsDeep(s) \/ ListsRoot(s) \/ ListsBelow(s) \/ ListsPage(s) \/ ReadsRows(s)
        \/ \E f \in Files : FileSkipped(s, f) \/ FileUpdated(s, f) \/ FileInserted(s, f)
        \/ markMissing(s) \/ dispatchWorkBatch(s) \/ ScanEnds(s) \/ ScanDies(s)

Spec == Init /\ [][Next]_scanVars

-----------------------------------------------------------------------------
\* Type invariant.
Statuses == Ended \cup {"list", "below", "rows", "write", "queue", "end"}
Generations == 0 .. MaxChanges + 1
RowStates == [print : Generations \cup {None}, scanned : BOOLEAN, tags : Generations \cup {None}, missing : BOOLEAN]
TaskStates == [status : {"queued", "claimed", "completed", "failed"}, read : Generations]
ScanStates == [at : Statuses, force : BOOLEAN, pool : BOOLEAN, found : [Files -> Generations], complete : BOOLEAN,
               prior : [Files -> RowStates \cup {None}], todo : SUBSET Files, targets : SUBSET Files,
               gone : SUBSET Files, hidden : {{}, Nested}, calm : BOOLEAN]

TypeOK ==
    /\ kind \in Kinds /\ mode \in {"library", "sync_only"}
    /\ changes \in 0 .. MaxChanges /\ disk \in [Files -> Generations]
    /\ rows \in [Files -> RowStates \cup {None}] /\ entry \in [Files -> {None, "file", "song"}]
    /\ tasks \in [Files -> TaskStates \cup {None}] /\ scan \in [Scans -> ScanStates]

\* A song is hidden as missing only when its file really was away at some
\* moment since the scan began: a listing cut short by the budget, overlapping
\* scans and uploads arriving between the listing and the snapshot of the rows
\* hide nothing that was there.  (A directory that could not be listed is the
\* exception, stated below.)
HidesTheMissing ==
    \A f \in Files : rows'[f] # None /\ rows'[f].missing /\ ~rows[f].missing =>
        \E s \in Scans : At(s, "write") /\ f \in scan[s].gone \cup scan[s].hidden
MissingWasGone == [][HidesTheMissing]_scanVars

\* The same without the exception (markMissing: "no longer appears in a
\* *complete* listing", so that no "auth hiccup, flaky mount" hides a source).
MissingMeansGone ==
    [][\A f \in Files : rows'[f] # None /\ rows'[f].missing /\ ~rows[f].missing =>
          \E s \in Scans : At(s, "write") /\ f \in scan[s].gone]_scanVars

\* A completed scan that nothing disturbed leaves the truth: every file has its
\* row, visible and with the fingerprint of what is there, also when earlier
\* scans overlapped, died half-way or hid it, and no row of a file that is away
\* is visible.  (A library source, with anything in it at all.)
LeavesTheTruth ==
    \A s \in Scans :
        /\ At(s, "end") /\ scan'[s].at = "completed" /\ scan[s].calm
        /\ mode = "library" /\ \E f \in Files : disk[f] > 0
        => \A f \in Files :
             IF disk[f] = 0 THEN rows[f] # None => rows[f].missing
             ELSE IF kind = "r2" /\ entry[f] = None THEN TRUE
             ELSE rows[f] # None /\ ~rows[f].missing /\ rows[f].print = disk[f]
CalmScanIsTrue == [][LeavesTheTruth]_scanVars

\* Whatever a scan that queues tasks has found unread waits for a browser when
\* the scan ends (scan.ts: the task's row is "cleared once the task reaches a
\* terminal status").
UnreadIsQueued ==
    [][\A s \in Scans :
          At(s, "end") /\ scan'[s].at = "completed" /\ scan[s].calm =>
          \A f \in scan[s].targets : ~rows[f].scanned => tasks[f].status \in {"queued", "claimed"}]_scanVars

\* Tags marked as read are those of the bytes the fingerprint was taken of, so
\* that a later scan may skip the file ("Reset tag_scanned=0 so BROWSER READ /
\* Worker tag parser re-reads it").
ReadTagsMatchPrint ==
    \A f \in Files : rows[f] # None /\ rows[f].scanned /\ rows[f].print # None => rows[f].tags >= rows[f].print

-----------------------------------------------------------------------------
\* What these hold by.

\* Only a bucket has registered files, and one with a song has its row.
SongsHaveRows == \A f \in Files : /\ kind # "r2" => entry[f] = None
                                  /\ entry[f] = "song" => rows[f] # None

\* A running scan knows of each file that is away: it was when the scan began, or went since.
GoneIsKnown == \A s \in Scans, f \in Files : Running(s) /\ disk[f] = 0 => f \in scan[s].gone

\* The files that a listing has covered so far: one that was cut short covers none for good.
Covered(s) == IF ~Running(s) \/ ~scan[s].complete \/ At(s, "list") THEN {} ELSE IF At(s, "below") THEN Top ELSE Files

\* What a listing has covered and not found was away then.
UnfoundWasGone == \A s \in Scans : \A f \in Covered(s) : scan[s].found[f] = 0 => f \in scan[s].gone \cup scan[s].hidden

\* A calm scan is alone, and what it has found is still what is there.
Calm(s) == Running(s) /\ scan[s].calm
CalmIsAlone == \A s \in Scans : Calm(s) => /\ \A o \in Scans : Running(o) => o = s
                                           /\ \A f \in Covered(s) : scan[s].found[f] = disk[f]

\* What the loop has still to deal with is what the listing has found.
TodoIsListed == \A s \in Scans : At(s, "write") => scan[s].todo \subseteq Listed(s)

\* Rows do not go away: those that the scan has read, or written, are there.
Passed(s) == IF At(s, "write") THEN Listed(s) \ scan[s].todo ELSE Listed(s)
Writing(s) == scan[s].at \in {"write", "queue", "end"}
RowsStay ==
    \A s \in Scans : Writing(s) =>
        \A f \in Files : scan[s].prior[f] # None \/ (f \in Passed(s) /\ Insertable(f)) => rows[f] # None

\* But for its tags a row is as the scan has read it.
AsRead(s, f) ==
    /\ rows[f] = None <=> scan[s].prior[f] = None
    /\ rows[f] # None => rows[f].print = scan[s].prior[f].print /\ rows[f].missing = scan[s].prior[f].missing
Fresh(s, f) == rows[f] # None /\ ~rows[f].missing /\ rows[f].print = scan[s].found[f]

\* The files that are to have a row.
Owed(f) == mode = "library" /\ (kind = "r2" => entry[f] # None)

\* A calm scan finds the rows as it has read them until it writes them, and then as it wrote them.
CalmRowsStand ==
    \A s \in Scans : Calm(s) /\ Writing(s) =>
        /\ \A f \in Passed(s) : scan[s].prior[f] # None \/ Owed(f) => Fresh(s, f)
        /\ At(s, "write") => \A f \in Files \ Passed(s) : AsRead(s, f)
        /\ ~At(s, "write") /\ MayMark(s) => \A f \in Files \ Listed(s) : rows[f] # None => rows[f].missing

IInv == /\ TypeOK /\ SongsHaveRows /\ GoneIsKnown /\ UnfoundWasGone
        /\ CalmIsAlone /\ TodoIsListed /\ RowsStay /\ CalmRowsStand
=============================================================================
