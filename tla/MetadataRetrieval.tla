-------------------------- MODULE MetadataRetrieval --------------------------
(***************************************************************************)
(* A song with missing tags is looked up by a browser worker among online  *)
(* providers.  The result is stored in the task's row and then applied to  *)
(* the catalogue, by the request that brought it, by an administrator who  *)
(* chose one of several candidates, or by the cron job that recovers what  *)
(* either left behind.  error_message of the completed row says how far    *)
(* the apply has come: each prefix of it must be resumable.                *)
(*                                                                         *)
(* An edit gives the song a number of its own; the song as it was when the *)
(* task was queued, or refreshed, is the snapshot in the task's payload.   *)
(***************************************************************************)
EXTENDS Integers, FiniteSets

CONSTANTS
    Requests,     \* requests that may apply a result
    MaxEdits,     \* BOUND: edits of the song
    MaxTries,     \* BOUND: claims of the task
    MaxFaults,    \* BOUND: requests that die and applies whose lease runs out
    None

VARIABLES
    song,         \* its tags (by the edit they are of), source and album cover
    object,       \* the picture under this task's own key, in R2
    task,         \* wt-scrape-retrieve:<master>
    apply,        \* a request applying a result
    faults,
    mixed         \* history: a request has applied a result that was not, or no longer, the row's

retrievalVars == <<song, object, task, apply, faults, mixed>>

\* error_message
Free == {"null", "review", "kept"}
Note(kind, by, stage) == [kind |-> kind, by |-> by, stage |-> stage]
Plain(kind) == Note(kind, None, None)

Snapshot == [tags |-> song.tags, source |-> song.source, cover |-> song.cover]
Nothing == [kind |-> None, try |-> 0, cover |-> FALSE, choice |-> FALSE]
Off == [at |-> "new", result |-> Nothing, payload |-> None, stage |-> None, fresh |-> TRUE, retry |-> FALSE, refreshed |-> None]

Init ==
    /\ song = [tags |-> 0, source |-> 0, cover |-> None, edits |-> 0, found |-> FALSE]
    /\ object = FALSE
    /\ task = [status |-> None, payload |-> None, try |-> 0, result |-> Nothing, note |-> Plain("null")]
    /\ apply = [r \in Requests |-> Off] /\ faults = 0 /\ mixed = FALSE

At(r, at) == apply[r].at = at
Goto(r, at) == apply' = [apply EXCEPT ![r].at = at]
Completed == task.status = "completed"

-----------------------------------------------------------------------------
\* The song, the queue and the administrators.

\* Tag editors, scans, uploads: the song or its source changes.
Edits ==
    /\ song.edits < MaxEdits
    /\ \/ song' = [song EXCEPT !.edits = @ + 1, !.tags = song.edits + 1, !.found = FALSE]
       \/ song' = [song EXCEPT !.edits = @ + 1, !.source = song.edits + 1]
       \/ song.cover = None /\ song' = [song EXCEPT !.edits = @ + 1, !.cover = "own"]
    /\ UNCHANGED <<object, task, apply, faults>>

\* restartRetrievalTask: what waits for an apply or a review is left alone
MayRestart == (Completed \/ task.status = "failed") /\ task.note.kind \in {"null", "kept"}

dispatchRetrievalBatch ==
    /\ task.status = None \/ MayRestart
    /\ task' = [task EXCEPT !.status = "queued", !.payload = Snapshot, !.result = Nothing, !.note = Plain("null")]
    /\ UNCHANGED <<song, object, apply, faults>>

\* A claim (WorkQueue), of which the attempt is what matters here
Claims ==
    /\ task.status = "queued" /\ task.try < MaxTries
    /\ task' = [task EXCEPT !.status = "claimed", !.try = @ + 1]
    /\ UNCHANGED <<song, object, apply, faults>>

Fails ==
    /\ task.status = "claimed"
    /\ \E status \in {"queued", "failed"} : task' = [task EXCEPT !.status = status]
    /\ UNCHANGED <<song, object, apply, faults>>

Takes(r, result, payload, at) ==
    apply' = [apply EXCEPT ![r] = [Off EXCEPT !.at = at, !.result = result, !.payload = payload]]

\* POST /work/submit: a match is to be applied, candidates are to be reviewed
Submits(r) ==
    /\ At(r, "new") /\ task.status = "claimed"
    /\ \/ \E cover \in BOOLEAN :
          LET match == [Nothing EXCEPT !.kind = "match", !.try = task.try, !.cover = cover]
          IN /\ task' = [task EXCEPT !.status = "completed", !.result = match, !.note = Plain("pending")]
             /\ Takes(r, match, task.payload, "start")
       \/ /\ task' = [task EXCEPT !.status = "completed", !.note = Plain("review"),
                                  !.result = [Nothing EXCEPT !.kind = "candidates", !.try = task.try]]
          /\ UNCHANGED apply
    /\ UNCHANGED <<song, object, faults>>

\* POST /work/scrape/review reads the row ...
ReviewReads(r) ==
    /\ At(r, "new") /\ Completed /\ task.note = Plain("review")
    /\ Takes(r, task.result, task.payload, "review")
    /\ UNCHANGED <<song, object, task, faults>>

\* ... and decides if it is still the attempt that was read and still pending.
StillReviewed(r) == Completed /\ task.note = Plain("review") /\ task.try = apply[r].result.try

ReviewKeeps(r) ==
    /\ At(r, "review") /\ StillReviewed(r)
    /\ task' = [task EXCEPT !.note = Plain("kept")] /\ Goto(r, "end")
    /\ UNCHANGED <<song, object, faults>>

\* refreshRetrievalPayload: the snapshot is taken anew
ReviewRetries(r) ==
    /\ At(r, "review") /\ StillReviewed(r)
    /\ task' = [task EXCEPT !.status = "queued", !.payload = Snapshot, !.result = Nothing, !.note = Plain("null")]
    /\ Goto(r, "end")
    /\ UNCHANGED <<song, object, faults>>

ReviewApplies(r) ==
    /\ At(r, "review") /\ StillReviewed(r)
    /\ \E cover \in BOOLEAN :
         LET chosen == [apply[r].result EXCEPT !.kind = "match", !.cover = cover, !.choice = TRUE]
         IN /\ task' = [task EXCEPT !.result = chosen, !.note = Plain("pending")]
            /\ Takes(r, chosen, apply[r].payload, "start")
    /\ UNCHANGED <<song, object, faults>>

ReviewGone(r) ==
    /\ At(r, "review") /\ ~StillReviewed(r) /\ Goto(r, "end")
    /\ UNCHANGED <<song, object, task, faults>>

\* Mutant: the marker of an apply that was taken up again is not recognised.
MarkedFresh == task.note.kind = "applying" /\ task.note.stage = None

\* GLOB 'retrieval_apply:applying:*'
Marked == task.note.kind = "applying"

\* recoverPendingRetrievalApplies: first the marker of an apply whose lease has
\* run out, dead or only slow, goes back to where that apply began ...
LeaseEnds ==
    /\ Marked
    /\ IF At(task.note.by, "dead") THEN UNCHANGED faults ELSE faults < MaxFaults /\ faults' = faults + 1
    /\ task' = [task EXCEPT !.note = IF @.stage = None THEN Plain("pending") ELSE Note("catalog", None, @.stage)]
    /\ UNCHANGED <<song, object, apply>>

\* ... then every result waiting is read, and applied in turn.
RecoverReads(r) ==
    /\ At(r, "new") \/ At(r, "end")
    /\ Completed /\ task.note.kind \in {"pending", "catalog"}
    /\ Takes(r, task.result, task.payload, "start")
    /\ UNCHANGED <<song, object, task, faults>>

-----------------------------------------------------------------------------
\* applyCompletedRetrieval.

\* The marker is taken by compare and set, from the stage it is at.
Acquires(r) ==
    /\ At(r, "start")
    /\ IF Completed /\ task.note.kind \in {"pending", "catalog"}
       THEN /\ task' = [task EXCEPT !.note = Note("applying", r, task.note.stage)]
            /\ LET fresh == task.note.kind = "pending"
               IN apply' = [apply EXCEPT ![r].at = IF fresh THEN "look" ELSE "cover",
                                         ![r].fresh = fresh, ![r].stage = task.note.stage]
       ELSE Goto(r, "end") /\ UNCHANGED task
    /\ UNCHANGED <<song, object, faults>>

\* fieldsCurrent, the source and its path, against the payload
Current(r) == Snapshot = apply[r].payload

\* A stale result is dropped; if it was an administrator's choice, the review
\* begins again about the song as it is.  One that is not credible is dropped.
Looks(r) ==
    /\ At(r, "look")
    /\ \/ Current(r) /\ Goto(r, "batch")
       \/ Current(r) /\ Goto(r, "settle")
       \/ ~Current(r) /\ apply' = [apply EXCEPT ![r] =
            IF @.result.choice THEN [@ EXCEPT !.at = "settle", !.retry = TRUE, !.refreshed = Snapshot]
            ELSE [@ EXCEPT !.at = "settle"]]
    /\ UNCHANGED <<song, object, task, faults>>

Mine(r) == Completed /\ task.note = Note("applying", r, apply[r].stage)

\* Mutant: the rows are not compared again in the batch.
BatchHitsUnchecked(r) == Mine(r)

\* The WHERE of the batch's UPDATE song_masters
BatchHits(r) == Mine(r) /\ Current(r)

\* coverQueued
Receipt(r) == Note("catalog", None, IF song.cover = None /\ apply[r].result.cover THEN "cover" ELSE "done")

\* One D1 batch: the catalogue and the receipt, or neither
Batches(r) ==
    /\ At(r, "batch")
    /\ IF BatchHits(r)
       THEN /\ song' = [song EXCEPT !.found = TRUE, !.tags = -apply[r].result.try]
            /\ task' = [task EXCEPT !.note = Receipt(r)]
            /\ apply' = [apply EXCEPT ![r].at = "cover", ![r].stage = Receipt(r).stage]
       ELSE /\ apply' = [apply EXCEPT ![r] = [@ EXCEPT !.at = "settle", !.retry = TRUE,
                           !.refreshed = IF apply[r].result.choice THEN Snapshot ELSE None]]
            /\ UNCHANGED <<song, task>>
    /\ UNCHANGED <<object, faults>>

\* writeRetrievalCover: nothing is written over a cover, nor for another source
CoverLooks(r) ==
    /\ At(r, "cover")
    /\ Goto(r, IF apply[r].result.cover /\ song.cover = None /\ song.source = apply[r].payload.source THEN "put" ELSE "receipt")
    /\ UNCHANGED <<song, object, task, faults>>

CoverPuts(r) ==
    /\ At(r, "put") /\ object' = TRUE /\ Goto(r, "link")
    /\ UNCHANGED <<song, task, faults>>

\* Mutant: who does not link the picture always deletes it.
LinkedAlreadyNever == FALSE

\* currentAlbum.cover_r2_key === key: another apply of this task has linked it
LinkedAlready == song.cover = "found"

CoverLinks(r) ==
    /\ At(r, "link")
    /\ IF song.cover = None /\ song.source = apply[r].payload.source
       THEN song' = [song EXCEPT !.cover = "found"] /\ Goto(r, "receipt")
       ELSE Goto(r, IF LinkedAlready THEN "receipt" ELSE "unput") /\ UNCHANGED song
    /\ UNCHANGED <<object, task, faults>>

CoverDeletes(r) ==
    /\ At(r, "unput") /\ object' = FALSE /\ Goto(r, "receipt")
    /\ UNCHANGED <<song, task, faults>>

\* finishRetrievalCatalogReceipt: the receipt is closed by whoever holds it,
\* under its marker if it was taken up again, else under the receipt itself
Held(r) == IF apply[r].fresh THEN Completed /\ task.note = Note("catalog", None, apply[r].stage) ELSE Mine(r)

Receipts(r) ==
    /\ At(r, "receipt")
    /\ task' = IF Held(r) THEN [task EXCEPT !.note = Note("catalog", None, "done")] ELSE task
    /\ apply' = [apply EXCEPT ![r].at = "settle", ![r].stage = "done"]
    /\ UNCHANGED <<song, object, faults>>

\* Mutant: a choice that could not be applied leaves its result in the row.
SettledResultKept(r) == task.result

\* A choice that goes back to the review leaves the candidates it was made from.
SettledResult(r) == IF apply[r].retry /\ apply[r].result.choice
                    THEN [apply[r].result EXCEPT !.kind = "candidates", !.choice = FALSE, !.cover = FALSE]
                    ELSE task.result

\* The last UPDATE, of the marker of this request or of the receipt it has closed
Settles(r) ==
    /\ At(r, "settle")
    /\ task' = IF Mine(r) \/ (Completed /\ apply[r].stage = "done" /\ task.note = Note("catalog", None, "done"))
               THEN [task EXCEPT
                       !.note = Plain(IF ~apply[r].retry THEN "null" ELSE IF apply[r].result.choice THEN "review" ELSE "pending"),
                       !.result = SettledResult(r),
                       !.payload = IF apply[r].refreshed = None THEN @ ELSE apply[r].refreshed]
               ELSE task
    /\ Goto(r, "end")
    /\ UNCHANGED <<song, object, faults>>

\* The picture cannot be written: the receipt stays, for the next recovery.
CoverFails(r) ==
    /\ At(r, "put") /\ faults < MaxFaults /\ faults' = faults + 1
    /\ task' = IF Mine(r) THEN [task EXCEPT !.note = Note("catalog", None, apply[r].stage)] ELSE task
    /\ Goto(r, "end")
    /\ UNCHANGED <<song, object>>

\* External: the Workers runtime ends a request between two statements.
Dies(r) ==
    /\ apply[r].at \notin {"new", "end", "dead"} /\ faults < MaxFaults
    /\ faults' = faults + 1 /\ Goto(r, "dead")
    /\ UNCHANGED <<song, object, task>>

Reviews(r) == ReviewKeeps(r) \/ ReviewRetries(r) \/ ReviewApplies(r) \/ ReviewGone(r)

Applies(r) == Acquires(r) \/ Looks(r) \/ Batches(r) \/ CoverLooks(r) \/ CoverPuts(r) \/ CoverLinks(r)
              \/ CoverDeletes(r) \/ Receipts(r) \/ Settles(r)

Acquired == {"look", "batch", "cover", "put", "link", "unput", "receipt", "settle"}
OfTheRow(r) == apply[r].result = task.result /\ apply[r].payload = task.payload

Mixes == mixed' = (mixed \/ \E r \in Requests : apply'[r].at \in Acquired /\ ~OfTheRow(r)')

Next ==
    /\ \/ Edits \/ dispatchRetrievalBatch \/ Claims \/ Fails \/ LeaseEnds
       \/ \E r \in Requests :
            \/ Submits(r) \/ ReviewReads(r) \/ Reviews(r) \/ RecoverReads(r) \/ Applies(r) \/ CoverFails(r) \/ Dies(r)
    /\ Mixes

Spec == Init /\ [][Next]_retrievalVars

\* A request runs on until it ends or dies; cron recovers every few minutes, and
\* an apply that died loses its lease.  Two recoveries do not overtake each other
\* before the last statement for ever.
LiveSpec ==
    /\ Spec
    /\ \A r \in Requests : WF_retrievalVars(Applies(r) /\ Mixes) /\ WF_retrievalVars(Reviews(r) /\ Mixes)
    /\ \A r \in Requests : SF_retrievalVars(RecoverReads(r) /\ Mixes) /\ SF_retrievalVars(Settles(r) /\ Mixes /\ task' # task)
    /\ WF_retrievalVars(LeaseEnds /\ Mixes)

-----------------------------------------------------------------------------
\* Type invariant.
Tags == -MaxTries..MaxEdits
Picture == {None, "own", "found"}
Stage == {None, "cover", "done"}
Payload == [tags : Tags, source : 0..MaxEdits, cover : Picture]
Result == [kind : {None, "match", "candidates"}, try : 0..MaxTries, cover : BOOLEAN, choice : BOOLEAN]
Message == [kind : Free \cup {"pending", "applying", "catalog"}, by : Requests \cup {None}, stage : Stage]
Status == {None, "queued", "claimed", "completed", "failed"}
Place == Acquired \cup {"new", "review", "start", "end", "dead"}
Song == [tags : Tags, source : 0..MaxEdits, cover : Picture, edits : 0..MaxEdits, found : BOOLEAN]
Row == [status : Status, payload : Payload \cup {None}, try : 0..MaxTries, result : Result, note : Message]
Apply == [at : Place, result : Result, payload : Payload \cup {None}, stage : Stage, fresh : BOOLEAN,
          retry : BOOLEAN, refreshed : Payload \cup {None}]

TypeOK ==
    /\ song \in Song /\ task \in Row /\ apply \in [Requests -> Apply]
    /\ object \in BOOLEAN /\ faults \in 0..MaxFaults /\ mixed \in BOOLEAN

\* What someone edited after the song was looked up is never written over, be it
\* between the comparison and the batch, and however late the apply.
KeepsEdits ==
    song'.tags # song.tags /\ song'.edits = song.edits =>
        \E r \in Requests : At(r, "batch") /\ apply[r].payload = Snapshot
EditsStay == [][KeepsEdits]_retrievalVars

\* A task waiting for a review offers candidates, also when the choice of an
\* administrator could not be applied, or the request died applying it.
ReviewHasCandidates ==
    Completed /\ task.note = Plain("review") => task.result.kind = "candidates"

\* An apply is over, wherever it was interrupted and resumed, only when the
\* picture that came with the match is there too: unless the song has another
\* by now, its tags were edited, or its source is no longer the task's.  And a
\* picture that is shown has not been deleted by another request's clean-up.
\* README names what becomes of both where requests apply different results.
CoverFollows ==
    ~mixed =>
      /\ /\ Completed /\ task.note = Plain("null") /\ task.result.cover /\ song.found /\ song.tags = -task.result.try
         /\ task.payload.source = song.source
         => song.cover # None
      /\ song.cover = "found" => object

-----------------------------------------------------------------------------
(* What these hold by, in every step.                                       *)

\* A source that has been replaced never comes back.
SourcesInOrder ==
    /\ song.source <= song.edits
    /\ task.payload # None => task.payload.source <= song.edits
    /\ \A r \in Requests : /\ apply[r].payload # None => apply[r].payload.source <= song.edits
                           /\ apply[r].refreshed # None => apply[r].refreshed.source <= song.edits

\* The attempts the tags and the results are of: the song's are older than one
\* that is still out.
TriesInOrder ==
    /\ song.found => song.tags \in -task.try..-1 /\ (task.status = "claimed" => -song.tags # task.try)
    /\ task.status = "claimed" => task.try > 0
    /\ Completed => task.result.try \in 1..task.try /\ task.payload # None
    /\ task.status # None => task.payload # None
    /\ \A r \in Requests : apply[r].at \in Acquired \cup {"start", "review"} =>
                            apply[r].result.try \in 1..task.try /\ apply[r].payload # None

\* Where in an apply its record says what.
ApplyInOrder ==
    /\ task.note.kind = "applying" => task.note.by \in Requests
    /\ task.note.kind \notin {"applying", "catalog"} => task.note.stage = None
    /\ task.note.kind = "catalog" => task.note.stage # None
    /\ \A r \in Requests :
         /\ apply[r].at \in {"look", "batch"} => apply[r].stage = None
         /\ apply[r].at \in {"cover", "put", "link", "unput", "receipt"} => apply[r].stage # None
         /\ apply[r].at = "settle" => apply[r].stage \in {None, "done"}
         /\ apply[r].retry => apply[r].stage = None /\ apply[r].at \in {"settle", "end", "dead"}
         /\ ~apply[r].retry => apply[r].refreshed = None

\* The picture, while the requests at work are of one result.
PicturesInOrder ==
    ~mixed =>
      /\ \A r \in Requests : apply[r].at \in Acquired => OfTheRow(r)
      /\ \A r \in Requests :
           /\ At(r, "unput") => song.cover = "own" \/ (song.cover = None /\ task.payload.source # song.source)
           /\ At(r, "link") => object \/ song.cover = "own" \/ task.payload.source # song.source
           /\ At(r, "receipt") /\ task.result.cover /\ task.payload.source = song.source => song.cover # None
      /\ song.cover = "found" => object

\* The row's note, once its result is in the catalogue.
InTheCatalogue == Completed /\ song.found /\ song.tags = -task.result.try
ReceiptsAreTrue ==
    ~mixed =>
      /\ Completed => task.result.try = task.try
      /\ InTheCatalogue =>
           /\ task.note.kind \in {"catalog", "null"} \/ task.note.stage # None
           /\ /\ task.note.kind = "null" \/ task.note.stage = "done"
              /\ task.result.cover /\ task.payload.source = song.source
              => song.cover # None

IInv ==
    /\ TypeOK /\ SourcesInOrder /\ TriesInOrder /\ ApplyInOrder /\ PicturesInOrder /\ ReceiptsAreTrue
    /\ ReviewHasCandidates

\* A stored result does not wait for ever: it is applied, refused, or put
\* before an administrator, whatever died on the way.
ResultsSettle ==
    Completed /\ task.note.kind \notin Free ~> task.note.kind \in Free

=============================================================================
