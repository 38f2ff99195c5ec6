------------------------------ MODULE WorkQueue -------------------------------
(***************************************************************************)
(* The life of work_queue rows under every process that writes them:       *)
(* the coordinator that claims, the browsers that heartbeat and submit,    *)
(* the reclaim sweeps (coordinator alarm, cron and the maintenance         *)
(* button), administrators that cancel or reset, enqueuers that insert or  *)
(* upsert, catalog merges, and account deletion.                           *)
(*                                                                         *)
(* A handler that reads a row, awaits, and then issues a guarded UPDATE is *)
(* two actions: anything may happen in between, and a Worker may die       *)
(* there.  The clock is one counter of seconds that all of them read.      *)
(***************************************************************************)
EXTENDS WorkRows, FiniteSets

CONSTANTS
    Tasks,      \* row ids
    Kind,       \* task_type of each row
    Upserted,   \* rows whose enqueuer passes upsert: true
    Sweepers,   \* processes running reclaimStaleWork: the alarm and the cron
    Ttl,        \* worker_claim_ttl_seconds
    MaxNow,     \* bound: last second of the clock
    MaxClaims   \* bound: claims ever made on one row

Kinds == {"metadata", "transcode", "scrape", "lossless"}

ASSUME KindAssumption == Kind \in [Tasks -> Kinds]
ASSUME UpsertedAssumption == Upserted \subseteq Tasks
ASSUME TtlAssumption == Ttl \in Nat \ {0}
ASSUME BoundsAssumption == MaxNow \in Nat /\ MaxClaims \in Nat

VARIABLES
    row,        \* the table
    accounts,   \* usernames with an account
    now,        \* unixepoch()
    running,    \* claims a browser was handed and has not given up
    submits,    \* submit handlers between reading the row and updating it
    sweep,      \* what each sweep read, and how far it is
    claims,     \* history: number of claims ever made on each row
    finisher    \* history: which of them recorded the row's current result

vars == <<row, accounts, now, running, submits, sweep, claims, finisher>>

\* What {type: "task"} carries; serial is history and no code sees it.
Lease == [task : Tasks, user : Users, attempts : Nat, claimedAt : Nat, serial : Nat]

\* A submit past its reads.  retry is willRetry, from the row that was read.
Submit == [lease : Lease, kind : {"result", "error"}, retry : BOOLEAN]

Snapshot == [task : Tasks, attempts : Nat]

Sweep == [phase : {"idle", "requeue", "fail"}, cutoff : Int, stale : SUBSET Snapshot]

IdleSweep == [phase |-> "idle", cutoff |-> 0, stale |-> {}]

TypeOK == /\ row \in [Tasks -> Row]
          /\ accounts \subseteq Users
          /\ now \in Nat
          /\ running \subseteq Lease
          /\ submits \subseteq Submit
          /\ sweep \in [Sweepers -> Sweep]
          /\ claims \in [Tasks -> Nat]
          /\ finisher \in [Tasks -> Nat]

Init == /\ row = [t \in Tasks |-> AbsentRow]
        /\ accounts = Users
        /\ now = 0
        /\ running = {}
        /\ submits = {}
        /\ sweep = [w \in Sweepers |-> IdleSweep]
        /\ claims = [t \in Tasks |-> 0]
        /\ finisher = [t \in Tasks |-> 0]

-----------------------------------------------------------------------------
\* dispatchWork: INSERT OR IGNORE on an id that is new.
Enqueue(t) ==
    /\ row[t].status = "absent"
    /\ row' = [row EXCEPT ![t] = QueuedRow]
    /\ UNCHANGED <<accounts, now, running, submits, sweep, claims, finisher>>

\* dispatchWork with upsert on an id whose run is over; the lossless enqueue
\* restarts failed and canceled rows only.
Redispatch(t) ==
    /\ t \in Upserted
    /\ CanRedispatch(row[t])
    /\ Kind[t] = "lossless" => row[t].status # "completed"
    /\ row' = [row EXCEPT ![t] = Redispatched(@)]
    /\ finisher' = [finisher EXCEPT ![t] = 0]
    /\ UNCHANGED <<accounts, now, running, submits, sweep, claims>>

NewLease(t, u) == [task |-> t, user |-> u, attempts |-> row[t].attempts + 1,
                   claimedAt |-> now, serial |-> claims[t] + 1]

\* The coordinator claims for u and sends the task: it arrives, or the socket
\* is already gone and the row waits for its TTL.  claimed_by is a foreign key.
Claim(t, u) ==
    /\ claims[t] < MaxClaims
    /\ CanClaim(row[t])
    /\ u \in accounts
    /\ row' = [row EXCEPT ![t] = Claimed(@, u, now)]
    /\ claims' = [claims EXCEPT ![t] = @ + 1]
    /\ running' \in {running, running \cup {NewLease(t, u)}}
    /\ UNCHANGED <<accounts, now, submits, sweep, finisher>>

\* POST /work/heartbeat, while the task runs and while its submit is under way.
Heartbeat(l) ==
    /\ l.user \in accounts
    /\ HeldBy(row[l.task], l)
    /\ row' = [row EXCEPT ![l.task] = HeartbeatRow(@, now)]
    /\ UNCHANGED <<accounts, now, running, submits, sweep, claims, finisher>>

\* POST /work/submit up to its UPDATE: every early return passed.  A lossless
\* result is refused here: FinishLossless records it.
BeginSubmit(l, kind) ==
    /\ l.user \in accounts
    /\ HeldBy(row[l.task], l)
    /\ kind = "result" => Kind[l.task] # "lossless"
    /\ running' = running \ {l}
    /\ submits' = submits \cup
         {[lease |-> l, kind |-> kind, retry |-> WillRetry(row[l.task])]}
    /\ UNCHANGED <<row, accounts, now, sweep, claims, finisher>>

\* What error_message becomes with a result of this kind of task.
ResultNotes(kind) == CASE kind = "metadata" -> {"pending"}
                       [] kind = "scrape"   -> {"null", "pending"}
                       [] OTHER             -> {"null"}

\* The UPDATE with the result; the identity is checked again.
EndResult(s) ==
    /\ s.kind = "result"
    /\ HeldBy(row[s.lease.task], s.lease)
    /\ \E note \in ResultNotes(Kind[s.lease.task]) :
         row' = [row EXCEPT ![s.lease.task] = CompletedRow(@, note, now)]
    /\ finisher' = [finisher EXCEPT ![s.lease.task] = s.lease.serial]
    /\ submits' = submits \ {s}
    /\ UNCHANGED <<accounts, now, running, sweep, claims>>

\* The UPDATE with the error; the identity is checked again.
EndError(s) ==
    /\ s.kind = "error"
    /\ HeldBy(row[s.lease.task], s.lease)
    /\ row' = [row EXCEPT ![s.lease.task] = ErrorRow(@, s.retry)]
    /\ submits' = submits \ {s}
    /\ UNCHANGED <<accounts, now, running, sweep, claims, finisher>>

\* The handler answers 409 because its UPDATE changed nothing, or dies.
SubmitLost(s) ==
    /\ submits' = submits \ {s}
    /\ UNCHANGED <<row, accounts, now, running, sweep, claims, finisher>>

\* POST /work/lossless/upload: the last statement of switchCatalogToFlac.
FinishLossless(l) ==
    /\ Kind[l.task] = "lossless"
    /\ l.user \in accounts
    /\ HeldBy(row[l.task], l)
    /\ row' = [row EXCEPT ![l.task] = CompletedRow(@, "null", now)]
    /\ finisher' = [finisher EXCEPT ![l.task] = l.serial]
    /\ running' = running \ {l}
    /\ UNCHANGED <<accounts, now, submits, sweep, claims>>

\* A browser that cannot take the task sends "release" and the coordinator
\* puts the row back; the UPDATE does nothing if the claim is no longer held.
Release(l) ==
    /\ running' = running \ {l}
    /\ row' = IF HeldBy(row[l.task], l)
              THEN [row EXCEPT ![l.task] = Released(@)]
              ELSE row
    /\ UNCHANGED <<accounts, now, submits, sweep, claims, finisher>>

\* The tab closes, the task is aborted, or a submit is refused at its read.
Abandon(l) ==
    /\ running' = running \ {l}
    /\ UNCHANGED <<row, accounts, now, submits, sweep, claims, finisher>>

\* reclaimStaleWork: the cutoff and the SELECT.
SweepRead(w) ==
    /\ sweep[w].phase = "idle"
    /\ LET cutoff == now - Ttl
           stale  == {t \in Tasks : IsStale(row[t], cutoff)}
       IN /\ stale # {}
          /\ sweep' = [sweep EXCEPT ![w] =
                [phase  |-> "requeue",
                 cutoff |-> cutoff,
                 stale  |-> {[task |-> t, attempts |-> row[t].attempts] : t \in stale}]]
    /\ UNCHANGED <<row, accounts, now, running, submits, claims, finisher>>

Exhausted(x) == x.attempts >= MaxAttempts

\* Mutant: the UPDATE trusts the SELECT and does not check the heartbeat again.
ReclaimableAsRead(w, exhausted) ==
    {t \in Tasks : \E x \in sweep[w].stale :
        /\ x.task = t
        /\ Exhausted(x) = exhausted
        /\ row[t].status = "claimed"
        /\ row[t].attempts = x.attempts}

\* The rows one batch of sweep w still finds as it read them.
Reclaimable(w, exhausted) ==
    {t \in Tasks : \E x \in sweep[w].stale :
        /\ x.task = t
        /\ Exhausted(x) = exhausted
        /\ IsStale(row[t], sweep[w].cutoff)
        /\ row[t].attempts = x.attempts}

Reclaimed(w, exhausted) ==
    [t \in Tasks |-> IF t \in Reclaimable(w, exhausted)
                     THEN ReclaimedRow(row[t], exhausted)
                     ELSE row[t]]

\* The batch that requeues; the rows over budget are still to come.
SweepRequeue(w) ==
    /\ sweep[w].phase = "requeue"
    /\ row' = Reclaimed(w, FALSE)
    /\ sweep' = [sweep EXCEPT ![w].phase = "fail"]
    /\ UNCHANGED <<accounts, now, running, submits, claims, finisher>>

\* The batch that fails the rows over budget.
SweepFail(w) ==
    /\ sweep[w].phase = "fail"
    /\ row' = Reclaimed(w, TRUE)
    /\ sweep' = [sweep EXCEPT ![w] = IdleSweep]
    /\ UNCHANGED <<accounts, now, running, submits, claims, finisher>>

\* The sweep dies between two of its statements.
SweepLost(w) ==
    /\ sweep[w].phase # "idle"
    /\ sweep' = [sweep EXCEPT ![w] = IdleSweep]
    /\ UNCHANGED <<row, accounts, now, running, submits, claims, finisher>>

\* POST /maintenance/reclaimStaleWork: the same sweep as one UPDATE.
ReclaimNow ==
    /\ row' = [t \in Tasks |-> IF IsStale(row[t], now - Ttl)
                               THEN ReclaimedRow(row[t], row[t].attempts >= MaxAttempts)
                               ELSE row[t]]
    /\ UNCHANGED <<accounts, now, running, submits, sweep, claims, finisher>>

\* POST /maintenance/resetFailedWork, for one task type or (as a sequence of
\* these) for all: a clean budget for every failed row.
ResetFailed(kind) ==
    /\ row' = [t \in Tasks |-> IF Kind[t] = kind /\ row[t].status = "failed"
                               THEN Redispatched(row[t])
                               ELSE row[t]]
    /\ UNCHANGED <<accounts, now, running, submits, sweep, claims, finisher>>

\* The instance a metadata row is about is merged away.
Retire(t) ==
    /\ Kind[t] = "metadata"
    /\ CanRetire(row[t])
    /\ row' = [row EXCEPT ![t] = RetiredRow(@)]
    /\ UNCHANGED <<accounts, now, running, submits, sweep, claims, finisher>>

\* POST /work/cancel.
Cancel(t) ==
    /\ CanCancel(row[t])
    /\ row' = [row EXCEPT ![t] = CanceledRow(@)]
    /\ UNCHANGED <<accounts, now, running, submits, sweep, claims, finisher>>

\* DELETE FROM users, with its ON DELETE SET NULL on every row.
DeleteUser(u) ==
    /\ u \in accounts
    /\ accounts' = accounts \ {u}
    /\ row' = [t \in Tasks |-> UserDeletedRow(row[t], u)]
    /\ UNCHANGED <<now, running, submits, sweep, claims, finisher>>

Tick ==
    /\ now < MaxNow
    /\ now' = now + 1
    /\ UNCHANGED <<row, accounts, running, submits, sweep, claims, finisher>>

SweepStep(w) == SweepRead(w) \/ SweepRequeue(w) \/ SweepFail(w) \/ SweepLost(w)

Next == \/ \E t \in Tasks : Enqueue(t) \/ Redispatch(t) \/ Cancel(t) \/ Retire(t)
        \/ \E t \in Tasks, u \in Users : Claim(t, u)
        \/ \E l \in running : \/ Heartbeat(l)
                              \/ \E kind \in {"result", "error"} : BeginSubmit(l, kind)
                              \/ FinishLossless(l)
                              \/ Release(l)
                              \/ Abandon(l)
        \/ \E s \in submits : \/ Heartbeat(s.lease)
                              \/ EndResult(s)
                              \/ EndError(s)
                              \/ SubmitLost(s)
        \/ \E w \in Sweepers : SweepStep(w)
        \/ ReclaimNow
        \/ \E kind \in Kinds : ResetFailed(kind)
        \/ \E u \in Users : DeleteUser(u)
        \/ Tick

Spec == Init /\ [][Next]_vars

-----------------------------------------------------------------------------
Leases == running \cup {s.lease : s \in submits}

Plain == Tasks \ Upserted

\* A recorded result comes from the last claim made on the row: a browser whose
\* claim was requeued, reclaimed or canceled in the meantime never gets its
\* result in, however its submit interleaves with the sweeps (work.ts 293-394).
\* For rows that are never redispatched.
ResultFromLastClaim ==
    \A t \in Plain : row[t].status = "completed" => finisher[t] = claims[t]

\* At any moment at most one of the claims browsers still work on is accepted by
\* the guard of submit, heartbeat and release, although the identity is only
\* (user, attempts, second) and the clock may not move between two claims.
OneHolder ==
    \A t \in Plain : \A k, l \in {m \in Leases : m.task = t} :
        HeldBy(row[t], k) /\ HeldBy(row[t], l) => k = l

\* A row fails for good only with its budget spent, whoever fails it: a submit
\* that decided on an earlier read, or either sweep (work.ts 358, workReclaim.ts 63).
FailsOnlyWhenSpent ==
    \A t \in Tasks : row[t].status = "failed" => row[t].attempts >= MaxAttempts

\* A claimed row never has a heartbeat from before its claim or the future; a
\* row waiting in the queue carries no trace of an owner.
ClaimColumns ==
    \A t \in Tasks :
        /\ row[t].status = "claimed" => /\ row[t].claimedAt \in 0..now
                                        /\ row[t].heartbeatAt \in row[t].claimedAt..now
        /\ row[t].status \in {"absent", "queued", "failed"} =>
              row[t].claimedBy = None /\ row[t].heartbeatAt = None

\* A sweep never takes a row from a browser heard from within the TTL, also when
\* the heartbeat or a new claim lands between its SELECT and its UPDATE.
SweepSparesLive ==
    [][\A t \in Tasks :
         (/\ \/ \E w \in Sweepers : SweepRequeue(w) \/ SweepFail(w)
             \/ ReclaimNow
          /\ row[t].status = "claimed"
          /\ row[t].heartbeatAt >= now - Ttl)
         => row'[t] = row[t]]_vars

\* What a submit recorded stays: no late sweep, release, error or cancel
\* touches a completed row; only a redispatch starts it over.  (Retrieval rows,
\* a kind of scrape with review decisions of their own, are left out.)
ResultsAreFinal ==
    [][\A t \in Tasks :
         row[t].status = "completed" =>
            \/ row'[t].status = "completed" /\ finisher'[t] = finisher[t]
            \/ /\ t \in Upserted /\ Kind[t] # "lossless"
               /\ row[t].note = "null" /\ row'[t] = QueuedRow]_vars

\* The rows that are never redispatched keep what WorkLease promises of a task: every
\* statement of every process is one of its moves, on one row or, in a sweep or a
\* reset, on several, or it is none of its business.
Task(t) == [state |-> row[t].status, tries |-> row[t].attempts, takes |-> claims[t], result |-> finisher[t]]

Promise == INSTANCE WorkLease WITH Tasks <- Plain, MaxTries <- MaxAttempts, task <- [t \in Plain |-> Task(t)]

KeepsThePromise == Promise!Spec

-----------------------------------------------------------------------------
(* The inductive invariant behind the theorems.                            *)

\* A claim is worked on in one place: its browser, or one submit.
HeldOnce == /\ \A s \in submits : s.lease \notin running
            /\ \A r, s \in submits : r.lease = s.lease => r = s

SerialsUsed == \A l \in Leases : l.serial \in 1..claims[l.task] /\ l.claimedAt <= now

SerialsDistinct == \A k, l \in Leases : k.task = l.task /\ k.serial = l.serial => k = l

\* Whoever lost a row held it in an EARLIER second than its present holder, or,
\* while it waits, than the present: attempts go back to 0 in a reset, so it is
\* the clock that keeps the identities of one row's claims apart.
LosersAreBehind ==
    \A l \in Leases : l.task \in Plain =>
        LET r == row[l.task] IN
        /\ r.status # "absent"
        /\ r.status \in {"queued", "failed"} => l.claimedAt < now
        /\ r.status = "claimed" => IF l.serial = claims[l.task]
                                   THEN l.claimedAt = r.claimedAt
                                   ELSE l.claimedAt < r.claimedAt

CutoffsInThePast == \A w \in Sweepers : sweep[w].phase # "idle" => sweep[w].cutoff <= now - Ttl

RetriesDecided ==
    \A s \in submits : s.kind = "error" /\ ~s.retry => s.lease.attempts >= MaxAttempts

IInv == /\ TypeOK
        /\ ClaimColumns
        /\ HeldOnce
        /\ SerialsUsed
        /\ SerialsDistinct
        /\ LosersAreBehind
        /\ CutoffsInThePast
        /\ RetriesDecided
        /\ FailsOnlyWhenSpent
        /\ ResultFromLastClaim

-----------------------------------------------------------------------------
=============================================================================
