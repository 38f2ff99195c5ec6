---------------------------- MODULE UploadMetadata -----------------------------
(***************************************************************************)
(* The tags of one uploaded audio file.  The file is uploaded and then     *)
(* overwritten; its tags come from the uploading browser (direct), or from *)
(* a task of the work queue whose saved result the Worker applies. A row   *)
(* of work_queue of its own, the marker, is both the lease that whoever    *)
(* writes bytes or tags must hold, and the record of which generation of   *)
(* the file still waits for its tags.  A scheduled job sweeps leases of    *)
(* holders that died and queues what was left behind.                      *)
(*                                                                         *)
(* Every step is one D1 or R2 statement of a handler, so handlers change   *)
(* places, and may die, between any two.  A generation is the number of    *)
(* its upload and stands for the upload nonce and for the content.         *)
(*                                                                         *)
(* Abstracted: what tags and covers say; the claim protocol of the task,   *)
(* which is WorkQueue; and ages.  The job looks at markers and files that  *)
(* are ten minutes old, longer than any request lasts that writes no file: *)
(* those under way when the marker was created (older) have ended.  A      *)
(* lease is swept only when its holder is dead, as it beats every 15 of    *)
(* its 120 seconds, and an apply is taken over only when its request is.   *)
(***************************************************************************)
EXTENDS Integers, FiniteSets

CONSTANTS
    MaxUploads,  \* bound: the upload that creates the file and those that overwrite it
    Kinds,       \* metadata=direct ("direct") or not ("queued")
    Storages,    \* TRUE: WebDAV keeps the URI of an overwritten file; FALSE: R2 does not
    MaxFaults,   \* bound: deaths, failing statements and failing tasks
    None

ASSUME BoundsAssumption == MaxUploads \in Nat \ {0} /\ MaxFaults \in Nat
ASSUME KindsAssumption == Kinds \subseteq {"direct", "queued"} /\ Storages \subseteq BOOLEAN
ASSUME NoneAssumption == None \notin {"direct", "queued"} \cup Int

VARIABLES
    inPlace,  \* the storage of the file, one of Storages
    bytes,    \* the generation of the content, where it is overwritten in place
    inst,     \* the row of song_instances, or None
    covered,  \* its album has a cover
    marker,   \* wm-upload-pending-<id>, or None
    task,     \* wt-metadata-<id>, or None
    up,       \* the handler of each upload
    direct,   \* the submissions of the browser that made it
    apply,    \* the request applying the task's result, or None
    enq,      \* enqueueUploadMetadata, of an upload, a fallback (-1) or the job (0)
    job,      \* the scheduled job, at a marker
    older,    \* the handlers that were under way when the marker was created
    faults    \* faults so far

vars == <<inPlace, bytes, inst, covered, marker, task, up, direct, apply, enq, job, older, faults>>

Gens == 1..MaxUploads
Fallback == -1
Job == 0
Lease == -1

Uri(n) == IF inPlace THEN 1 ELSE n
Content(uri) == IF inPlace THEN bytes ELSE uri

Instance == [uri : Gens, scanned : BOOLEAN, tags : Gens \cup {None}]

\* The nonce of a marker: an upload's, or that of the lease of an apply without
\* one (Lease; there is one apply at a time).
Marker == [status : {"claimed", "canceled", "completed"}, uri : Gens, nonce : Int]

\* attempt: automaticRecoveryAttempt; read: the content the browser has parsed;
\* note: error_message of a completed row.
Task == [status : {"queued", "claimed", "completed", "failed", "canceled"},
         uri : Gens, nonce : 0..MaxUploads, attempt : 0..1, read : 0..MaxUploads,
         note : {"null", "pending", "applying"}]

Holding == {"reset", "write", "register", "release", "pended"}

Upload == [kind : Kinds \cup {None}, seen : Gens \cup {0},
           phase : {"idle", "create", "mark", "pend", "finish", "over"} \cup Holding]

Direct == [phase : {"none", "granted", "checked", "held", "sure", "applied", "covered"},
           failed : BOOLEAN]

Apply == [phase : {"read", "acquire", "held", "applied", "covered", "end"}, uri : Gens,
          nonce : 0..MaxUploads, gen : Gens, scanned : BOOLEAN, failed : BOOLEAN, retry : BOOLEAN]

Enqueue == [phase : {"read", "refresh", "reread", "dispatch"}, uri : Gens, nonce : 0..MaxUploads,
            auto : BOOLEAN, attempt : 0..1]

AtMarker == [phase : {"look", "move", "delete", "enqueue"}, uri : Gens, nonce : Int, to : Gens \cup {0},
             drop : BOOLEAN]

InFlight == ({"up"} \X {n \in Gens : up[n].phase \notin {"idle", "over"}})
            \cup ({"direct"} \X {n \in Gens : direct[n].phase \notin {"none", "granted"}})
            \cup ({"enq"} \X {k \in -1..MaxUploads : enq[k] # None})
            \cup (IF apply = None THEN {} ELSE {<<"apply", 1>>})

TypeOK == /\ inPlace \in Storages
          /\ bytes \in 0..MaxUploads
          /\ inst \in Instance \cup {None}
          /\ covered \in BOOLEAN
          /\ marker \in Marker \cup {None}
          /\ task \in Task \cup {None}
          /\ up \in [Gens -> Upload]
          /\ direct \in [Gens -> Direct]
          /\ apply \in Apply \cup {None}
          /\ enq \in [-1..MaxUploads -> Enqueue \cup {None}]
          /\ job \in AtMarker \cup {None}
          /\ older \subseteq InFlight
          /\ faults \in 0..MaxFaults
          /\ inst # None => (inst.scanned => inst.tags # None)
          /\ task # None => (task.note # "null" => task.status = "completed")
          /\ apply # None => task # None /\ task.note = "applying"

Init == /\ inPlace \in Storages
        /\ bytes = 0 /\ inst = None /\ covered = FALSE
        /\ marker = None /\ task = None
        /\ up = [n \in Gens |-> [kind |-> None, seen |-> 0, phase |-> "idle"]]
        /\ direct = [n \in Gens |-> [phase |-> "none", failed |-> FALSE]]
        /\ apply = None /\ enq = [k \in -1..MaxUploads |-> None]
        /\ job = None /\ older = {} /\ faults = 0

Fault == faults < MaxFaults /\ faults' = faults + 1

-----------------------------------------------------------------------------
(* The lease.                                                              *)

IsMarker(status, uri, nonce) == marker = [status |-> status, uri |-> uri, nonce |-> nonce]

\* Mutant: the WHERE of the upsert is forgotten.
MarkableAlways == TRUE

\* markUploadMetadataPending: WHERE work_queue.status != 'claimed'.
Markable == marker = None \/ marker.status # "claimed"

\* acquireUploadMetadataLease: the marker of this generation is free, or, without
\* a nonce, there is none.  Its UPDATE asks again for all that it has read.
Acquirable(uri, nonce) ==
    IF nonce = 0 THEN marker = None
    ELSE marker # None /\ marker.status # "claimed" /\ marker.uri = uri /\ marker.nonce = nonce

Acquire(uri, nonce) ==
    marker' = [status |-> "claimed", uri |-> uri, nonce |-> IF nonce = 0 THEN Lease ELSE nonce]

\* Mutant: whoever lets go of the lease is taken to have done its work.
ReleaseCompleted(uri, nonce, status) ==
    marker' = IF IsMarker("claimed", uri, nonce) THEN [marker EXCEPT !.status = "completed"] ELSE marker

\* releaseUploadMetadataLease: WHERE status = 'claimed' AND payload = ?.
Release(uri, nonce, status) ==
    marker' = IF IsMarker("claimed", uri, nonce) THEN [marker EXCEPT !.status = status] ELSE marker

\* The nonce an apply holds the lease with.
LeaseNonce == IF apply.nonce = 0 THEN Lease ELSE apply.nonce

HeldBySomebody ==
    \/ \E n \in Gens : up[n].phase \in Holding /\ IsMarker("claimed", Uri(n), n)
    \/ \E n \in Gens : direct[n].phase \in {"held", "sure", "applied", "covered"}
                       /\ IsMarker("claimed", Uri(n), n)
    \/ /\ apply # None /\ apply.phase \in {"held", "applied", "covered"}
       /\ IsMarker("claimed", apply.uri, LeaseNonce)

\* recoverStaleUploadMetadataLeases.
SweepLease ==
    /\ marker # None /\ marker.status = "claimed" /\ ~HeldBySomebody
    /\ marker' = [marker EXCEPT !.status = "canceled"]
    /\ UNCHANGED <<bytes, inst, covered, task, up, direct, apply, enq, job, faults>>

-----------------------------------------------------------------------------
(* POST /files/upload.                                                     *)

Goes(n, phase) == up' = [up EXCEPT ![n].phase = phase]

\* The handler has looked the file up: it creates it or overwrites it.
Start(n, kind) ==
    /\ up[n].phase = "idle" /\ (n > 1 => up[n - 1].phase # "idle" /\ inst # None)
    /\ up' = [up EXCEPT ![n] = IF inst = None THEN [kind |-> kind, seen |-> 0, phase |-> "create"]
                               ELSE [kind |-> kind, seen |-> inst.uri, phase |-> "mark"]]
    /\ UNCHANGED <<bytes, inst, covered, marker, task, direct, apply, enq, job, faults>>

\* A new file: its bytes, its rows, and then finishAudioUpload.
Create(n) ==
    /\ up[n].phase = "create"
    /\ bytes' = n
    /\ inst' = [uri |-> Uri(n), scanned |-> FALSE, tags |-> None]
    /\ Goes(n, IF up[n].kind = "direct" THEN "pend" ELSE "finish")
    /\ UNCHANGED <<covered, marker, task, direct, apply, enq, job, faults>>

\* finishAudioUpload writes the marker of a new direct upload and frees it at once.
Pend(n) ==
    /\ up[n].phase = "pend"
    /\ IF Markable THEN Acquire(Uri(n), n) /\ Goes(n, "pended")
                   ELSE marker' = marker /\ Goes(n, "finish")
    /\ UNCHANGED <<bytes, inst, covered, task, direct, apply, enq, job, faults>>

Grant(n) == direct' = [direct EXCEPT ![n].phase = "granted"]

Pended(n) ==
    /\ up[n].phase = "pended"
    /\ Release(Uri(n), n, "canceled")
    /\ IF marker' # marker THEN Goes(n, "over") /\ Grant(n)
                           ELSE Goes(n, "finish") /\ direct' = direct
    /\ UNCHANGED <<bytes, inst, covered, task, apply, enq, job, faults>>

\* An overwrite takes the lease, or is refused.
Mark(n) ==
    /\ up[n].phase = "mark"
    /\ IF Markable THEN Acquire(Uri(n), n) /\ Goes(n, "reset")
                   ELSE marker' = marker /\ Goes(n, "over")
    /\ UNCHANGED <<bytes, inst, covered, task, direct, apply, enq, job, faults>>

\* The old tags are no longer the file's; unless it has moved meanwhile.
Reset(n) ==
    /\ up[n].phase = "reset"
    /\ IF inst.uri = up[n].seen
       THEN inst' = [inst EXCEPT !.scanned = FALSE] /\ marker' = marker /\ Goes(n, "write")
       ELSE inst' = inst /\ Release(Uri(n), n, "canceled") /\ Goes(n, "over")
    /\ UNCHANGED <<bytes, covered, task, direct, apply, enq, job, faults>>

Write(n) ==
    /\ up[n].phase = "write"
    /\ bytes' = n
    /\ Goes(n, "register")
    /\ UNCHANGED <<inst, covered, marker, task, direct, apply, enq, job, faults>>

\* The bytes did not arrive, or did and cannot be verified.
WriteFails(n) ==
    /\ up[n].phase = "write" /\ Fault
    /\ bytes' \in {bytes, n}
    /\ Release(Uri(n), n, "canceled")
    /\ Goes(n, "over")
    /\ UNCHANGED <<inst, covered, task, direct, apply, enq, job>>

Register(n) ==
    /\ up[n].phase = "register"
    /\ inst' = [inst EXCEPT !.uri = Uri(n), !.scanned = FALSE]
    /\ Goes(n, "release")
    /\ UNCHANGED <<bytes, covered, marker, task, direct, apply, enq, job, faults>>

\* The marker stays, for the tags of this generation; a direct upload is given
\* the capability to submit them.
FreeLease(n) ==
    /\ up[n].phase = "release"
    /\ Release(Uri(n), n, "canceled")
    /\ IF marker' = marker THEN Goes(n, "over") /\ direct' = direct
       ELSE IF up[n].kind = "direct" THEN Goes(n, "over") /\ Grant(n)
       ELSE Goes(n, "finish") /\ direct' = direct
    /\ UNCHANGED <<bytes, inst, covered, task, apply, enq, job, faults>>

Queue(k, uri, nonce, auto) ==
    enq' = [enq EXCEPT ![k] = [phase |-> "read", uri |-> uri, nonce |-> nonce, auto |-> auto, attempt |-> 0]]

\* Without a capability the tags are left to the queue, with the nonce if the
\* marker has been written.
Finish(n) ==
    /\ up[n].phase = "finish"
    /\ Queue(n, Uri(n), IF up[n].seen = 0 THEN 0 ELSE n, FALSE)
    /\ Goes(n, "over")
    /\ UNCHANGED <<bytes, inst, covered, marker, task, direct, apply, job, faults>>

-----------------------------------------------------------------------------
(* enqueueUploadMetadata.                                                  *)

Terminal(t) == t # None /\ t.status \in {"completed", "failed", "canceled"}

Payload(uri, nonce, attempt) == <<uri, nonce, attempt>>

PayloadOf(t) == Payload(t.uri, t.nonce, t.attempt)

FreshTask(e) == [status |-> "queued", uri |-> e.uri, nonce |-> e.nonce, attempt |-> e.attempt,
                 read |-> 0, note |-> "null"]

\* What is there decides: one automatic attempt, nothing while the row is claimed.
EnqueueRead(k) ==
    /\ enq[k] # None /\ enq[k].phase = "read"
    /\ LET again == enq[k].auto /\ Terminal(task)
           e == [enq[k] EXCEPT !.attempt = IF again THEN 1 ELSE 0]
       IN enq' = [enq EXCEPT ![k] =
            IF \/ again /\ task.attempt = 1
               \/ task # None /\ task.status = "claimed"
               \/ task # None /\ task.status = "queued" /\ PayloadOf(task) = Payload(e.uri, e.nonce, e.attempt)
            THEN None
            ELSE IF task # None /\ task.status = "queued" THEN [e EXCEPT !.phase = "refresh"]
            ELSE [e EXCEPT !.phase = "dispatch"]]
    /\ UNCHANGED <<bytes, inst, covered, marker, task, up, direct, apply, job, faults>>

\* UPDATE ... SET payload = ? WHERE status = 'queued'.
EnqueueRefresh(k) ==
    /\ enq[k] # None /\ enq[k].phase = "refresh"
    /\ task' = IF task.status # "queued" THEN task
               ELSE [task EXCEPT !.uri = enq[k].uri, !.nonce = enq[k].nonce, !.attempt = enq[k].attempt]
    /\ enq' = [enq EXCEPT ![k].phase = "reread"]
    /\ UNCHANGED <<bytes, inst, covered, marker, up, direct, apply, job, faults>>

EnqueueReread(k) ==
    /\ enq[k] # None /\ enq[k].phase = "reread"
    /\ enq' = [enq EXCEPT ![k] =
         IF PayloadOf(task) = Payload(@.uri, @.nonce, @.attempt) \/ task.status = "claimed"
         THEN None ELSE [@ EXCEPT !.phase = "dispatch"]]
    /\ UNCHANGED <<bytes, inst, covered, marker, task, up, direct, apply, job, faults>>

\* Mutant: a result that is being applied does not protect its row.
DispatchOverApply(k) ==
    /\ enq[k] # None /\ enq[k].phase = "dispatch"
    /\ task' = IF task = None \/ Terminal(task) THEN FreshTask(enq[k]) ELSE task
    /\ enq' = [enq EXCEPT ![k] = None]
    /\ UNCHANGED <<bytes, inst, covered, marker, up, direct, apply, job, faults>>

\* dispatchWork with upsert: REDISPATCH_CONFLICT_CLAUSE.
EnqueueDispatch(k) ==
    /\ enq[k] # None /\ enq[k].phase = "dispatch"
    /\ task' = IF task = None \/ (Terminal(task) /\ (task.status = "completed" => task.note = "null"))
               THEN FreshTask(enq[k]) ELSE task
    /\ enq' = [enq EXCEPT ![k] = None]
    /\ UNCHANGED <<bytes, inst, covered, marker, up, direct, apply, job, faults>>

-----------------------------------------------------------------------------
(* The task, as WorkQueue has it.                                          *)

TaskClaimed ==
    /\ task # None /\ task.status = "queued"
    /\ task' = [task EXCEPT !.status = "claimed"]
    /\ UNCHANGED <<bytes, inst, covered, marker, up, direct, apply, enq, job, faults>>

\* The browser streams the file by its id, wherever it is by now.
TaskReads ==
    /\ task # None /\ task.status = "claimed" /\ task.read = 0
    /\ task' = [task EXCEPT !.read = Content(inst.uri)]
    /\ UNCHANGED <<bytes, inst, covered, marker, up, direct, apply, enq, job, faults>>

TaskSubmitted ==
    /\ task # None /\ task.status = "claimed" /\ task.read # 0
    /\ task' = [task EXCEPT !.status = "completed", !.note = "pending"]
    /\ UNCHANGED <<bytes, inst, covered, marker, up, direct, apply, enq, job, faults>>

\* It is retried by the queue, or has failed for good, or is canceled.
TaskFails ==
    /\ task # None /\ task.status \in {"queued", "claimed"} /\ Fault
    /\ task' \in {[task EXCEPT !.status = s, !.read = 0] : s \in {"queued", "failed", "canceled"}}
    /\ UNCHANGED <<bytes, inst, covered, marker, up, direct, apply, enq, job>>

-----------------------------------------------------------------------------
(* applyCompletedMetadata: the result of the task is applied.              *)

Applying(phase) == apply # None /\ apply.phase = phase

Ends(retry) == apply' = [apply EXCEPT !.phase = "end", !.retry = retry]

\* At once when the result is submitted, and by the job while it is pending.
ApplyStart ==
    /\ task # None /\ task.status = "completed" /\ task.note = "pending"
    /\ task' = [task EXCEPT !.note = "applying"]
    /\ apply' = [phase |-> "read", uri |-> task.uri, nonce |-> task.nonce, gen |-> task.read,
                 scanned |-> FALSE, failed |-> FALSE, retry |-> FALSE]
    /\ UNCHANGED <<bytes, inst, covered, marker, up, direct, enq, job, faults>>

ApplyRead ==
    /\ Applying("read")
    /\ IF inst.uri # apply.uri THEN Ends(FALSE)
       ELSE apply' = [apply EXCEPT !.phase = "acquire", !.scanned = inst.scanned]
    /\ UNCHANGED <<bytes, inst, covered, marker, task, up, direct, enq, job, faults>>

\* A marker of another generation ends it; one that somebody holds is for later.
ApplyAcquire ==
    /\ Applying("acquire")
    /\ IF marker # None /\ (marker.uri # apply.uri \/ marker.nonce # apply.nonce)
       THEN Ends(FALSE) /\ marker' = marker
       ELSE IF Acquirable(apply.uri, apply.nonce)
       THEN Acquire(apply.uri, apply.nonce) /\ apply' = [apply EXCEPT !.phase = "held"]
       ELSE Ends(TRUE) /\ marker' = marker
    /\ UNCHANGED <<bytes, inst, covered, task, up, direct, enq, job, faults>>

\* Tags that were parsed directly when it looked are left alone.  The tags tell
\* the album, which may have a cover.
ApplyTags(cover) ==
    /\ Applying("held")
    /\ IF apply.scanned THEN inst' = inst /\ covered' = covered
       ELSE /\ inst' = [inst EXCEPT !.scanned = TRUE, !.tags = apply.gen]
            /\ covered' = cover
    /\ apply' = [apply EXCEPT !.phase = "applied"]
    /\ UNCHANGED <<bytes, marker, task, up, direct, enq, job, faults>>

ApplyThrows ==
    /\ Applying("held") /\ ~apply.scanned /\ Fault
    /\ Release(apply.uri, LeaseNonce, "canceled")
    /\ Ends(TRUE)
    /\ UNCHANGED <<bytes, inst, covered, task, up, direct, enq, job>>

\* writeEmbeddedCover, guarded by the lease: there is none, it is saved, or invalid.
ApplyCover(saved, bad) ==
    /\ Applying("applied") /\ (bad => ~saved)
    /\ covered' = (covered \/ (saved /\ IsMarker("claimed", apply.uri, LeaseNonce)))
    /\ apply' = [apply EXCEPT !.phase = "covered", !.failed = bad]
    /\ UNCHANGED <<bytes, inst, marker, task, up, direct, enq, job, faults>>

ApplyCoverThrows ==
    /\ Applying("applied") /\ Fault
    /\ apply' = [apply EXCEPT !.phase = "covered", !.failed = TRUE, !.retry = TRUE]
    /\ UNCHANGED <<bytes, inst, covered, marker, task, up, direct, enq, job>>

ApplyRelease ==
    /\ Applying("covered")
    /\ Release(apply.uri, LeaseNonce, IF apply.failed THEN "canceled" ELSE "completed")
    /\ Ends(apply.retry)
    /\ UNCHANGED <<bytes, inst, covered, task, up, direct, enq, job, faults>>

\* The note of its own apply is cleared, or becomes pending again.
ApplyEnd ==
    /\ Applying("end")
    /\ task' = [task EXCEPT !.note = IF apply.retry THEN "pending" ELSE "null"]
    /\ apply' = None
    /\ UNCHANGED <<bytes, inst, covered, marker, up, direct, enq, job, faults>>

\* recoverPendingMetadataApplies, of an apply that died.
Reapply ==
    /\ task # None /\ task.note = "applying" /\ apply = None
    /\ task' = [task EXCEPT !.note = "pending"]
    /\ UNCHANGED <<bytes, inst, covered, marker, up, direct, apply, enq, job, faults>>

-----------------------------------------------------------------------------
(* POST /tag/submit-upload, with the capability of generation n.           *)

Submits(n, phase) == direct' = [direct EXCEPT ![n].phase = phase]

\* What it reads here is read again, of the marker by the next step and of the
\* file by the one after.
DirectCheck(n) ==
    /\ direct[n].phase = "granted"
    /\ inst.uri = Uri(n) /\ ~inst.scanned
    /\ marker # None /\ marker.uri = inst.uri /\ marker.nonce = n
    /\ direct' = [direct EXCEPT ![n] = [phase |-> "checked", failed |-> FALSE]]
    /\ UNCHANGED <<bytes, inst, covered, marker, task, up, apply, enq, job, faults>>

DirectAcquire(n) ==
    /\ direct[n].phase = "checked"
    /\ IF Acquirable(Uri(n), n)
       THEN Acquire(Uri(n), n) /\ Submits(n, "held")
       ELSE marker' = marker /\ Submits(n, "granted")
    /\ UNCHANGED <<bytes, inst, covered, task, up, apply, enq, job, faults>>

\* It looks again now that it holds the lease.
DirectRecheck(n) ==
    /\ direct[n].phase = "held"
    /\ IF inst.uri = Uri(n) /\ ~inst.scanned
       THEN marker' = marker /\ Submits(n, "sure")
       ELSE Release(Uri(n), n, "canceled") /\ Submits(n, "granted")
    /\ UNCHANGED <<bytes, inst, covered, task, up, apply, enq, job, faults>>

DirectTags(n, cover) ==
    /\ direct[n].phase = "sure"
    /\ inst' = [inst EXCEPT !.scanned = TRUE, !.tags = n]
    /\ covered' = cover
    /\ Submits(n, "applied")
    /\ UNCHANGED <<bytes, marker, task, up, apply, enq, job, faults>>

DirectThrows(n) ==
    /\ direct[n].phase = "sure" /\ Fault
    /\ Release(Uri(n), n, "canceled")
    /\ Submits(n, "granted")
    /\ UNCHANGED <<bytes, inst, covered, task, up, apply, enq, job>>

DirectCover(n, saved) ==
    /\ direct[n].phase = "applied"
    /\ covered' = (covered \/ (saved /\ IsMarker("claimed", Uri(n), n)))
    /\ Submits(n, "covered")
    /\ UNCHANGED <<bytes, inst, marker, task, up, apply, enq, job, faults>>

DirectCoverThrows(n) ==
    /\ direct[n].phase = "applied" /\ Fault
    /\ direct' = [direct EXCEPT ![n].phase = "covered", ![n].failed = TRUE]
    /\ UNCHANGED <<bytes, inst, covered, marker, task, up, apply, enq, job>>

DirectRelease(n) ==
    /\ direct[n].phase = "covered"
    /\ Release(Uri(n), n, IF direct[n].failed THEN "canceled" ELSE "completed")
    /\ Submits(n, "granted")
    /\ UNCHANGED <<bytes, inst, covered, task, up, apply, enq, job, faults>>

\* POST /files/upload-metadata-fallback: the browser leaves it to the queue.
DirectFallback(n) ==
    /\ direct[n].phase = "granted" /\ enq[Fallback] = None
    /\ IsMarker("canceled", inst.uri, n)
    /\ inst.scanned => ~covered
    /\ Queue(Fallback, inst.uri, n, FALSE)
    /\ UNCHANGED <<bytes, inst, covered, marker, task, up, direct, apply, job, faults>>

-----------------------------------------------------------------------------
(* recoverPendingUploadMetadata.                                           *)

JobLook ==
    /\ job = None /\ enq[Job] = None
    /\ marker # None /\ marker.status = "canceled" /\ older = {}
    /\ job' = [phase |-> "look", uri |-> marker.uri, nonce |-> marker.nonce, to |-> 0, drop |-> FALSE]
    /\ UNCHANGED <<bytes, inst, covered, marker, task, up, direct, apply, enq, faults>>

\* The marker has no upload's nonce, or no file, or names an old place, or its
\* file has tags and a cover, or waits for them.
JobDecide ==
    /\ job # None /\ job.phase = "look"
    /\ LET drop == job.nonce < 0 \/ (inst.scanned /\ covered)
       IN job' = [job EXCEPT !.to = inst.uri, !.drop = drop,
                             !.phase = IF job.nonce > 0 /\ job.uri # inst.uri THEN "move"
                                       ELSE IF drop THEN "delete" ELSE "enqueue"]
    /\ UNCHANGED <<bytes, inst, covered, marker, task, up, direct, apply, enq, faults>>

JobMove ==
    /\ job # None /\ job.phase = "move"
    /\ IF IsMarker("canceled", job.uri, job.nonce)
       THEN /\ marker' = [marker EXCEPT !.uri = job.to]
            /\ job' = [job EXCEPT !.uri = job.to, !.phase = IF job.drop THEN "delete" ELSE "enqueue"]
       ELSE marker' = marker /\ job' = None
    /\ UNCHANGED <<bytes, inst, covered, task, up, direct, apply, enq, faults>>

\* Mutant: whatever the marker has become is deleted.
JobDeleteAnyway ==
    /\ job # None /\ job.phase = "delete"
    /\ marker' = None
    /\ job' = None
    /\ UNCHANGED <<bytes, inst, covered, task, up, direct, apply, enq, faults>>

JobDelete ==
    /\ job # None /\ job.phase = "delete"
    /\ marker' = IF IsMarker("canceled", job.uri, job.nonce) THEN None ELSE marker
    /\ job' = None
    /\ UNCHANGED <<bytes, inst, covered, task, up, direct, apply, enq, faults>>

JobEnqueue ==
    /\ job # None /\ job.phase = "enqueue"
    /\ Queue(Job, job.to, job.nonce, TRUE)
    /\ job' = None
    /\ UNCHANGED <<bytes, inst, covered, marker, task, up, direct, apply, faults>>

\* A file without a marker, that never had a task or whose task has failed; it
\* was created more than ten minutes ago.
JobCandidate ==
    /\ job = None /\ enq[Job] = None
    /\ up[1].phase = "over" /\ enq[1] = None
    /\ inst # None /\ ~inst.scanned /\ marker = None
    /\ task # None => task.status \in {"failed", "canceled"} /\ task.attempt = 0
    /\ Queue(Job, inst.uri, 0, TRUE)
    /\ UNCHANGED <<bytes, inst, covered, marker, task, up, direct, apply, job, faults>>

-----------------------------------------------------------------------------
\* A handler dies between two of its statements.
Dies ==
    /\ Fault
    /\ \/ /\ \E n \in Gens : up[n].phase \notin {"idle", "over"} /\ Goes(n, "over")
          /\ UNCHANGED <<direct, apply, enq, job>>
       \/ /\ \E n \in Gens : direct[n].phase \notin {"none", "granted"} /\ Submits(n, "granted")
          /\ UNCHANGED <<up, apply, enq, job>>
       \/ /\ apply # None /\ apply' = None
          /\ UNCHANGED <<up, direct, enq, job>>
       \/ /\ \E k \in -1..MaxUploads : enq[k] # None /\ enq' = [enq EXCEPT ![k] = None]
          /\ UNCHANGED <<up, direct, apply, job>>
       \/ /\ job # None /\ job' = None
          /\ UNCHANGED <<up, direct, apply, enq>>
    /\ UNCHANGED <<bytes, inst, covered, marker, task>>

UploadStep(n) == \/ Create(n) \/ Pend(n) \/ Pended(n) \/ Mark(n) \/ Reset(n)
                 \/ Write(n) \/ Register(n) \/ FreeLease(n) \/ Finish(n)

EnqueueStep(k) == EnqueueRead(k) \/ EnqueueRefresh(k) \/ EnqueueReread(k) \/ EnqueueDispatch(k)

DirectStep(n) == \/ DirectAcquire(n) \/ DirectRecheck(n) \/ DirectRelease(n)
                 \/ \E cover \in BOOLEAN : DirectTags(n, cover)
                 \/ \E saved \in BOOLEAN : DirectCover(n, saved)

TaskSteps == TaskClaimed \/ TaskReads \/ TaskSubmitted

ApplySteps == \/ ApplyStart \/ ApplyRead \/ ApplyAcquire
              \/ \E cover \in BOOLEAN : ApplyTags(cover)
              \/ \E saved, bad \in BOOLEAN : ApplyCover(saved, bad)
              \/ ApplyRelease \/ ApplyEnd \/ Reapply

JobSteps == JobLook \/ JobDecide \/ JobMove \/ JobDelete \/ JobEnqueue \/ JobCandidate

Faults == \/ \E n \in Gens : WriteFails(n) \/ DirectThrows(n) \/ DirectCoverThrows(n)
          \/ ApplyThrows \/ ApplyCoverThrows \/ TaskFails \/ Dies

\* Nonces are fresh, so a marker with another one has been created by this step;
\* an apply that has ended is not older than anything.
Aging == /\ UNCHANGED inPlace
         /\ older' = (IF marker' # None /\ (marker = None \/ marker'.nonce # marker.nonce)
                      THEN InFlight ELSE older) \cap InFlight'

Next == /\ \/ \E n \in Gens, kind \in Kinds : Start(n, kind)
           \/ \E n \in Gens : DirectCheck(n) \/ DirectFallback(n) \/ UploadStep(n) \/ DirectStep(n)
           \/ \E k \in -1..MaxUploads : EnqueueStep(k)
           \/ TaskSteps \/ ApplySteps \/ JobSteps \/ SweepLease \/ Faults
        /\ Aging

Spec == Init /\ [][Next]_vars

\* Handlers go on, the pool has a browser, and the job comes again and again;
\* nobody has to upload, to submit, or to ask for the queue.
LiveSpec == /\ Spec
            /\ \A n \in Gens : WF_vars(UploadStep(n) /\ Aging) /\ WF_vars(DirectStep(n) /\ Aging)
            /\ \A k \in -1..MaxUploads : WF_vars(EnqueueStep(k) /\ Aging)
            /\ WF_vars(TaskSteps /\ Aging) /\ WF_vars(ApplySteps /\ Aging)
            /\ WF_vars(JobSteps /\ Aging) /\ WF_vars(SweepLease /\ Aging)

-----------------------------------------------------------------------------
\* Tags that count as parsed are those of the bytes the library serves, however
\* overwrites, submissions and late results of the queue interleave (the marker's
\* nonce and the lease, uploadMetadataQueue.ts 36-108).
TagsOfBytes == inst # None /\ inst.scanned => inst.tags = Content(inst.uri)

\* Nobody deletes or moves a marker while the file it stands for still waits for
\* its tags, unless no upload wrote it: it is what the job finds the file by.
KeepsMarker ==
    marker # None /\ marker.nonce > 0 /\ marker.status = "canceled" /\ ~inst.scanned => marker' # None
MarkerStays == [][KeepsMarker]_vars

\* A file that was uploaded gets its tags, whatever dies on the way.
EveryUploadIsParsed == (inst # None) ~> (inst # None /\ inst.scanned)

-----------------------------------------------------------------------------
(* What these hold by, in every step.                                       *)

Past == {"finish", "over"}

DirectHolds(n) == direct[n].phase \in {"held", "sure", "applied", "covered"}
ApplyHolds == apply # None /\ apply.phase \in {"held", "applied", "covered"}

\* Nothing is about a file that is not there.
NothingBefore ==
    inst = None =>
        /\ marker = None /\ task = None /\ job = None
        /\ \A k \in -1..MaxUploads : enq[k] = None
        /\ \A n \in Gens : up[n].phase \in {"idle", "create", "over"} /\ direct[n].phase = "none"

\* A marker's nonce is that of an upload that has had the lease, or no upload's; and
\* a file that no upload's marker stands for has tags or has never been overwritten.
MarkerInOrder ==
    /\ marker # None => \/ marker.nonce = Lease
                        \/ /\ marker.nonce \in Gens
                           /\ up[marker.nonce].phase \in Holding \cup Past
    /\ (marker = None \/ marker.nonce = Lease) /\ inst # None => inst.scanned \/ Content(inst.uri) = 1
    /\ inst # None => bytes # 0

\* The first upload creates the file, the others overwrite it, with the lease.
UploadInOrder(n) ==
    /\ n = 1 /\ up[n].phase \in {"idle", "create"} => inst = None
    /\ up[n].phase \in {"create", "pend", "pended"} => n = 1
    /\ up[n].phase \in {"mark", "reset", "write", "register", "release"} => n # 1
    /\ up[n].phase \in {"pend", "pended"} => up[n].kind = "direct"
    /\ up[n].phase \in Holding => IsMarker("claimed", Uri(n), n)
    /\ up[n].phase \in {"write", "register", "release"} => ~inst.scanned

DirectInOrder(n) ==
    /\ direct[n].phase # "none" => up[n].phase = "over" /\ up[n].kind = "direct"
    /\ DirectHolds(n) => IsMarker("claimed", Uri(n), n) /\ ~ApplyHolds
    /\ direct[n].phase = "sure" => inst.uri = Uri(n)

\* What is queued, or applied, is about an upload that has let go of the lease, and what
\* was read is the content as long as its marker is there.
TaskInOrder ==
    task # None =>
        /\ task.nonce # 0 => up[task.nonce].phase \in Past
        /\ task.status = "queued" => task.read = 0
        /\ task.note # "null" => task.read # 0
        /\ task.read # 0 /\ Content(inst.uri) = 1 => task.read = 1
        /\ task.read # 0 /\ task.nonce # 0 /\ marker # None /\ marker.nonce = task.nonce =>
               task.read = Content(inst.uri)

ApplyInOrder ==
    apply # None =>
        /\ apply.nonce = task.nonce /\ apply.gen = task.read
        /\ ApplyHolds => IsMarker("claimed", apply.uri, LeaseNonce)

EnqueueInOrder(k) ==
    enq[k] # None =>
        /\ enq[k].nonce # 0 => up[enq[k].nonce].phase \in Past
        /\ enq[k].phase \in {"refresh", "reread"} => task # None

\* The job drops a marker of an upload only when the file has tags.
JobInOrder ==
    job # None =>
        /\ job.nonce = Lease \/ (job.nonce \in Gens /\ up[job.nonce].phase \in Past)
        /\ job.phase # "look" => job.to \in Gens
        /\ job.phase = "delete" => job.drop
        /\ job.phase \in {"move", "enqueue"} => job.nonce \in Gens
        /\ job.drop /\ job.nonce \in Gens /\ marker # None /\ marker.nonce = job.nonce => inst.scanned

IInv ==
    /\ TypeOK /\ NothingBefore /\ MarkerInOrder /\ TaskInOrder /\ ApplyInOrder /\ JobInOrder
    /\ \A n \in Gens : UploadInOrder(n) /\ DirectInOrder(n)
    /\ \A k \in -1..MaxUploads : EnqueueInOrder(k)

\* No submission writes its tags between what an apply without a nonce has read of the
\* file and its lease; and the first marker of a new file, whose row is already there, is
\* not so late that an overwrite has come and gone.
NobodyOvertakes ==
    /\ apply # None /\ apply.nonce = 0 /\ apply.phase = "acquire" /\ ~apply.scanned =>
           \A n \in Gens : direct[n].phase # "sure"
    /\ inPlace /\ up[1].phase = "pend" => bytes = 1

\* Then an apply without a nonce has read a file that is without tags since, and that has
\* not been overwritten when it gets the lease ...
TagsInOrder ==
    /\ TagsOfBytes
    /\ apply # None /\ apply.nonce = 0 /\ ~apply.scanned =>
           /\ apply.phase = "acquire" => ~inst.scanned
           /\ apply.phase = "held" => Content(inst.uri) = 1

\* ... and what a submission is about is the content as long as its marker is there.
GrantsInOrder ==
    inPlace => \A n \in Gens :
        /\ up[n].phase \in {"pended", "register", "release"} => bytes = n
        /\ direct[n].phase # "none" /\ marker # None /\ marker.nonce = n => bytes = n
=============================================================================
