------------------------------- MODULE WorkRows -------------------------------
(***************************************************************************)
(* One row of the D1 table work_queue and the SQL statements that change   *)
(* it.  Every UPDATE in the source is one atomic, guarded statement; here  *)
(* each is a pair of operators on a row: the WHERE clause (a predicate)    *)
(* and the SET clause (the new row).  The modules that extend this one say *)
(* which process issues which statement, and what it read beforehand.      *)
(*                                                                         *)
(* Kept of a row: status, claimed_by, claimed_at, heartbeat_at, attempts,  *)
(* and error_message as a note, because a completed metadata row keeps its *)
(* apply state there.  Times are unix SECONDS, as unixepoch() returns.     *)
(***************************************************************************)
EXTENDS Integers

CONSTANTS
    Users,         \* usernames an agent socket may authenticate as
    None,          \* SQL NULL
    MaxAttempts    \* max_attempts of a row (dispatchWork clamps it to 1..10)

ASSUME NoneAssumption == None \notin Users /\ None \notin Int
ASSUME MaxAttemptsAssumption == MaxAttempts \in 1..10

Statuses == {"absent", "queued", "claimed", "completed", "failed", "canceled"}
TerminalStatuses == {"completed", "failed", "canceled"}

\* error_message: NULL, a text for an administrator, a marker that the saved
\* result still has to be applied or reviewed (APPLY_PENDING and the two
\* RETRIEVAL_ ones), or the marker of the request applying it now.
Notes == {"null", "text", "pending", "applying"}

Row == [status      : Statuses,
        claimedBy   : Users \cup {None},
        claimedAt   : Nat \cup {None},
        heartbeatAt : Nat \cup {None},
        attempts    : Nat,
        note        : Notes]

AbsentRow == [status |-> "absent", claimedBy |-> None, claimedAt |-> None,
              heartbeatAt |-> None, attempts |-> 0, note |-> "null"]

\* INSERT (dispatchWork, dispatchWorkBatch): a fresh queued row.
QueuedRow == [AbsentRow EXCEPT !.status = "queued"]

\* Mutant: the owner is blanked instead of set to NULL.
UnclaimedBlankOwner(r) == [r EXCEPT !.claimedBy = "", !.claimedAt = None, !.heartbeatAt = None]

\* SET claimed_by = NULL, claimed_at = NULL, heartbeat_at = NULL.
Unclaimed(r) == [r EXCEPT !.claimedBy = None, !.claimedAt = None, !.heartbeatAt = None]

\* COALESCE(error_message, ...).
CoalesceNote(r) == IF r.note = "null" THEN "text" ELSE r.note

-----------------------------------------------------------------------------
\* Mutant: a completed row is redispatched whatever its note says.
CanRedispatchUnapplied(r) == r.status \in TerminalStatuses

\* REDISPATCH_CONFLICT_CLAUSE: the WHERE of the upsert.
CanRedispatch(r) == /\ r.status \in TerminalStatuses
                    /\ r.status = "completed" => r.note = "null"

\* Its SET: everything about the previous run is forgotten, attempts included.
Redispatched(r) == QueuedRow

\* The coordinator's claim: WHERE status = 'queued'.
CanClaim(r) == r.status = "queued"

Claimed(r, u, t) == [status |-> "claimed", claimedBy |-> u, claimedAt |-> t,
                     heartbeatAt |-> t, attempts |-> r.attempts + 1, note |-> r.note]

\* Mutant: the guard checks the owner only, as /work/upload does.
HeldByUser(r, c) == r.status = "claimed" /\ r.claimedBy = c.user

\* WHERE status = 'claimed' AND claimed_by = ? AND attempts = ? AND claimed_at = ?
\* guards heartbeat, release, submit and the lossless switch: c is the claim
\* identity the browser was handed.
HeldBy(r, c) == /\ r.status = "claimed"
                /\ r.claimedBy = c.user
                /\ r.attempts = c.attempts
                /\ r.claimedAt = c.claimedAt

HeartbeatRow(r, t) == [r EXCEPT !.heartbeatAt = t]

\* "release" over the socket: the attempt that was counted is not given back.
Released(r) == [Unclaimed(r) EXCEPT !.status = "queued"]

\* Mutant: one attempt too few.
WillRetryEarlyStop(r) == r.attempts + 1 < MaxAttempts

\* willRetry of POST /work/submit.
WillRetry(r) == r.attempts < MaxAttempts

\* POST /work/submit with an error: retry is decided on the row that was read.
ErrorRow(r, retry) == [Unclaimed(r) EXCEPT !.status = IF retry THEN "queued" ELSE "failed",
                                           !.note = "text"]

\* POST /work/submit with a result: the claim columns stay as they are.
CompletedRow(r, note, t) == [r EXCEPT !.status = "completed", !.note = note, !.heartbeatAt = t]

\* reclaimStaleWork: the SELECT, and the WHERE of the UPDATEs it leads to.
IsStale(r, cutoff) == /\ r.status = "claimed"
                      /\ r.heartbeatAt # None
                      /\ r.heartbeatAt < cutoff

ReclaimedRow(r, exhausted) == [Unclaimed(r) EXCEPT !.status = IF exhausted THEN "failed" ELSE "queued",
                                                   !.note = CoalesceNote(r)]

\* POST /work/cancel: the claim columns stay as they are.
CanCancel(r) == r.status \notin {"absent", "completed", "canceled"}

CanceledRow(r) == [r EXCEPT !.status = "canceled", !.note = CoalesceNote(r)]

\* retireSourceInstance and the historical dedupe cancel the metadata rows of an
\* instance they remove; here the claim columns are cleared.
CanRetire(r) == r.status \in {"queued", "claimed"}

RetiredRow(r) == [Unclaimed(r) EXCEPT !.status = "canceled", !.note = "text"]

\* DELETE FROM users: claimed_by REFERENCES users ON DELETE SET NULL.
UserDeletedRow(r, u) == IF r.claimedBy = u THEN [r EXCEPT !.claimedBy = None] ELSE r
=============================================================================
