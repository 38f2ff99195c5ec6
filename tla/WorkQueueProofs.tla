--------------------------- MODULE WorkQueueProofs ----------------------------
(***************************************************************************)
(* Theorems about WorkQueue, for every set of rows, users and sweepers,    *)
(* every retry budget and every TTL: the types; the inductive invariant    *)
(* IInv and what follows from it (who may record a result, that a row has  *)
(* one holder, that a budget is spent before a row fails, that a sweep     *)
(* spares the live); and that WorkQueue implements WorkLease: for rows     *)
(* that are never redispatched every step of any process is a move of the  *)
(* abstract task, or none.                                                 *)
(***************************************************************************)
EXTENDS WorkQueue, TLAPS

\* Every SET clause maps rows to rows (WorkRows, the statements of work.ts,
\* workCoordinator.ts and workReclaim.ts).
LEMMA StatementsKeepRows ==
    ASSUME NEW r \in Row
    PROVE  /\ QueuedRow \in Row
           /\ \A u \in Users, t \in Nat : Claimed(r, u, t) \in Row
           /\ \A t \in Nat : HeartbeatRow(r, t) \in Row
           /\ Released(r) \in Row
           /\ \A b \in BOOLEAN : ErrorRow(r, b) \in Row
           /\ \A n \in Notes, t \in Nat : CompletedRow(r, n, t) \in Row
           /\ \A b \in BOOLEAN : ReclaimedRow(r, b) \in Row
           /\ CanceledRow(r) \in Row
           /\ RetiredRow(r) \in Row
           /\ \A u \in Users : UserDeletedRow(r, u) \in Row
<1>1. QueuedRow \in Row
  BY DEF AbsentRow, QueuedRow, Row, Statuses, Notes
<1>2. ASSUME NEW u \in Users, NEW t \in Nat PROVE Claimed(r, u, t) \in Row
  BY DEF Claimed, Row, Statuses
<1>3. ASSUME NEW t \in Nat PROVE HeartbeatRow(r, t) \in Row
  BY DEF HeartbeatRow, Row
<1>4. ASSUME NEW n \in Notes, NEW t \in Nat PROVE CompletedRow(r, n, t) \in Row
  BY DEF CompletedRow, Row, Statuses
<1>5. CoalesceNote(r) \in Notes
  BY DEF CoalesceNote, Row, Notes
<1>6. Unclaimed(r) \in Row
  BY DEF Unclaimed, Row
<1>7. Released(r) \in Row
  BY <1>6 DEF Released, Row, Statuses
<1>8. ASSUME NEW b \in BOOLEAN PROVE ErrorRow(r, b) \in Row
  BY <1>6 DEF ErrorRow, Row, Statuses, Notes
<1>9. ASSUME NEW b \in BOOLEAN PROVE ReclaimedRow(r, b) \in Row
  BY <1>5, <1>6 DEF ReclaimedRow, Row, Statuses
<1>10. CanceledRow(r) \in Row
  BY <1>5 DEF CanceledRow, Row, Statuses
<1>11. ASSUME NEW u \in Users PROVE UserDeletedRow(r, u) \in Row
  BY DEF UserDeletedRow, Row
<1>12. RetiredRow(r) \in Row
  BY <1>6 DEF RetiredRow, Row, Statuses, Notes
<1>13. QED
  BY <1>1, <1>2, <1>3, <1>4, <1>7, <1>8, <1>9, <1>10, <1>11, <1>12

-----------------------------------------------------------------------------
(* Types.                                                                  *)

\* The reclaim batches change rows to rows.
LEMMA ReclaimedKeepsRows ==
    ASSUME TypeOK, NEW w \in Sweepers, NEW b \in BOOLEAN
    PROVE  Reclaimed(w, b) \in [Tasks -> Row]
<1>1. ASSUME NEW t \in Tasks
      PROVE  ReclaimedRow(row[t], b) \in Row
  BY StatementsKeepRows DEF TypeOK
<1>2. QED
  BY <1>1 DEF Reclaimed, TypeOK

\* Init and every step of every process keep the variables in their types.
THEOREM TypeCorrect == Spec => []TypeOK
<1>1. Init => TypeOK
  BY DEF Init, TypeOK, AbsentRow, Row, Statuses, Notes, IdleSweep, Sweep
<1>2. TypeOK /\ [Next]_vars => TypeOK'
  <2> SUFFICES ASSUME TypeOK, [Next]_vars PROVE TypeOK'
    OBVIOUS
  <2>a. /\ now \in Nat
        /\ \A t \in Tasks : row[t] \in Row
        /\ \A l \in running : l \in Lease /\ l.task \in Tasks /\ l.serial \in Nat
        /\ \A s \in submits : s \in Submit /\ s.lease \in Lease /\ s.lease.task \in Tasks
                              /\ s.lease.serial \in Nat /\ s.retry \in BOOLEAN
    BY DEF TypeOK, Submit, Lease
  <2>b. \A t \in Tasks, r \in Row : [row EXCEPT ![t] = r] \in [Tasks -> Row]
    BY DEF TypeOK
  <2>1. ASSUME NEW t \in Tasks, Enqueue(t) PROVE TypeOK'
    <3>1. QueuedRow \in Row
      BY <2>a, StatementsKeepRows
    <3>2. QED
      BY <2>1, <2>b, <3>1 DEF Enqueue, TypeOK
  <2>2. ASSUME NEW t \in Tasks, Redispatch(t) PROVE TypeOK'
    <3>1. Redispatched(row[t]) \in Row
      BY <2>a, StatementsKeepRows DEF Redispatched
    <3>2. QED
      BY <2>2, <2>b, <3>1 DEF Redispatch, TypeOK
  <2>3. ASSUME NEW t \in Tasks, NEW u \in Users, Claim(t, u) PROVE TypeOK'
    <3>1. NewLease(t, u) \in Lease
      BY <2>a DEF NewLease, Lease, Row, TypeOK
    <3>2. Claimed(row[t], u, now) \in Row
      BY <2>a, StatementsKeepRows
    <3>3. row' \in [Tasks -> Row] /\ running' \subseteq Lease
      BY <2>3, <2>b, <3>1, <3>2 DEF Claim, TypeOK
    <3>4. claims' \in [Tasks -> Nat]
      BY <2>3 DEF Claim, TypeOK
    <3>5. QED
      BY <2>3, <3>3, <3>4 DEF Claim, TypeOK
  <2>4. ASSUME NEW l \in Lease, Heartbeat(l) PROVE TypeOK'
    <3>1. l.task \in Tasks
      BY DEF Lease
    <3>2. HeartbeatRow(row[l.task], now) \in Row
      BY <2>a, <3>1, StatementsKeepRows
    <3>3. QED
      BY <2>4, <2>b, <3>1, <3>2 DEF Heartbeat, TypeOK
  <2>5. ASSUME NEW l \in running, NEW k \in {"result", "error"}, BeginSubmit(l, k) PROVE TypeOK'
    <3>1. [lease |-> l, kind |-> k, retry |-> WillRetry(row[l.task])] \in Submit
      BY <2>a DEF Submit, WillRetry
    <3>2. QED
      BY <2>5, <3>1 DEF BeginSubmit, TypeOK
  <2>6. ASSUME NEW s \in submits, EndResult(s) PROVE TypeOK'
    <3>1. \A n \in ResultNotes(Kind[s.lease.task]) : n \in Notes
      BY DEF ResultNotes, Notes
    <3>2. \A n \in Notes : CompletedRow(row[s.lease.task], n, now) \in Row
      BY <2>a, StatementsKeepRows
    <3>3. row' \in [Tasks -> Row]
      BY <2>6, <2>a, <2>b, <3>1, <3>2 DEF EndResult
    <3>4. finisher' \in [Tasks -> Nat]
      BY <2>6, <2>a DEF EndResult, TypeOK
    <3>5. QED
      BY <2>6, <3>3, <3>4 DEF EndResult, TypeOK
  <2>7. ASSUME NEW s \in submits, EndError(s) PROVE TypeOK'
    <3>1. ErrorRow(row[s.lease.task], s.retry) \in Row
      BY <2>a, StatementsKeepRows
    <3>2. QED
      BY <2>7, <2>a, <2>b, <3>1 DEF EndError, TypeOK
  <2>8. ASSUME NEW s \in submits, SubmitLost(s) PROVE TypeOK'
    BY <2>8 DEF SubmitLost, TypeOK
  <2>9. ASSUME NEW l \in running, FinishLossless(l) PROVE TypeOK'
    <3>1. CompletedRow(row[l.task], "null", now) \in Row
      BY <2>a, StatementsKeepRows DEF Notes
    <3>2. finisher' \in [Tasks -> Nat]
      BY <2>9, <2>a DEF FinishLossless, TypeOK
    <3>3. QED
      BY <2>9, <2>a, <2>b, <3>1, <3>2 DEF FinishLossless, TypeOK
  <2>10. ASSUME NEW l \in running, Release(l) PROVE TypeOK'
    <3>1. Released(row[l.task]) \in Row
      BY <2>a, StatementsKeepRows
    <3>2. QED
      BY <2>10, <2>a, <2>b, <3>1 DEF Release, TypeOK
  <2>11. ASSUME NEW l \in running, Abandon(l) PROVE TypeOK'
    BY <2>11 DEF Abandon, TypeOK
  <2>12. ASSUME NEW w \in Sweepers, SweepStep(w) PROVE TypeOK'
    <3>1. CASE SweepRead(w)
      <4> DEFINE stale == {t \in Tasks : IsStale(row[t], now - Ttl)}
                 snaps == {[task |-> t, attempts |-> row[t].attempts] : t \in stale}
      <4>1. snaps \subseteq Snapshot
        BY <2>a DEF Snapshot, Row
      <4>2. now - Ttl \in Int
        BY <2>a, TtlAssumption
      <4>3. [phase |-> "requeue", cutoff |-> now - Ttl, stale |-> snaps] \in Sweep
        BY <4>1, <4>2 DEF Sweep
      <4>4. sweep' \in [Sweepers -> Sweep]
        BY <3>1, <4>3 DEF SweepRead, TypeOK
      <4>5. QED
        BY <3>1, <4>4 DEF SweepRead, TypeOK
    <3>2. CASE SweepRequeue(w)
      <4>1. row' \in [Tasks -> Row]
        BY <3>2, ReclaimedKeepsRows DEF SweepRequeue
      <4>2. sweep' \in [Sweepers -> Sweep]
        BY <3>2 DEF SweepRequeue, Sweep, TypeOK
      <4>3. QED
        BY <3>2, <4>1, <4>2 DEF SweepRequeue, TypeOK
    <3>3. CASE SweepFail(w)
      <4>1. row' \in [Tasks -> Row]
        BY <3>3, ReclaimedKeepsRows DEF SweepFail
      <4>2. sweep' \in [Sweepers -> Sweep]
        BY <3>3 DEF SweepFail, IdleSweep, Sweep, TypeOK
      <4>3. QED
        BY <3>3, <4>1, <4>2 DEF SweepFail, TypeOK
    <3>4. CASE SweepLost(w)
      BY <3>4 DEF SweepLost, IdleSweep, Sweep, TypeOK
    <3>5. QED
      BY <2>12, <3>1, <3>2, <3>3, <3>4 DEF SweepStep
  <2>13. ASSUME NEW t \in Tasks, Cancel(t) PROVE TypeOK'
    <3>1. CanceledRow(row[t]) \in Row
      BY <2>a, StatementsKeepRows
    <3>2. QED
      BY <2>13, <2>b, <3>1 DEF Cancel, TypeOK
  <2>14. ASSUME NEW u \in Users, DeleteUser(u) PROVE TypeOK'
    <3>1. \A t \in Tasks : UserDeletedRow(row[t], u) \in Row
      BY <2>a, StatementsKeepRows
    <3>2. QED
      BY <2>14, <3>1 DEF DeleteUser, TypeOK
  <2>18. CASE ReclaimNow
    <3>1. ASSUME NEW t \in Tasks
          PROVE  ReclaimedRow(row[t], row[t].attempts >= MaxAttempts) \in Row
      <4>1. CASE row[t].attempts >= MaxAttempts
        <5>1. ReclaimedRow(row[t], TRUE) \in Row
          BY <2>a, StatementsKeepRows
        <5>2. QED
          BY <4>1, <5>1 DEF ReclaimedRow
      <4>2. CASE ~(row[t].attempts >= MaxAttempts)
        <5>1. ReclaimedRow(row[t], FALSE) \in Row
          BY <2>a, StatementsKeepRows
        <5>2. QED
          BY <4>2, <5>1 DEF ReclaimedRow
      <4>3. QED
        BY <4>1, <4>2
    <3>2. QED
      BY <2>18, <2>a, <3>1 DEF ReclaimNow, TypeOK
  <2>19. ASSUME NEW kind \in Kinds, ResetFailed(kind) PROVE TypeOK'
    <3>1. \A t \in Tasks : Redispatched(row[t]) \in Row
      BY <2>a, StatementsKeepRows DEF Redispatched
    <3>2. QED
      BY <2>19, <2>a, <3>1 DEF ResetFailed, TypeOK
  <2>20. ASSUME NEW t \in Tasks, Retire(t) PROVE TypeOK'
    <3>1. RetiredRow(row[t]) \in Row
      BY <2>a, StatementsKeepRows
    <3>2. QED
      BY <2>20, <2>b, <3>1 DEF Retire, TypeOK
  <2>15. CASE Tick
    BY <2>15 DEF Tick, TypeOK
  <2>16. CASE UNCHANGED vars
    BY <2>16 DEF vars, TypeOK
  <2>17. QED
    BY <2>a, <2>1, <2>2, <2>3, <2>4, <2>5, <2>6, <2>7, <2>8, <2>9, <2>10, <2>11, <2>12,
       <2>13, <2>14, <2>15, <2>16, <2>18, <2>19, <2>20 DEF Next
<1>3. QED
  BY <1>1, <1>2, PTL DEF Spec

-----------------------------------------------------------------------------
(* Claims.                                                                 *)

\* What an UPDATE of row t may do without any of the invariants noticing: keep
\* a claim, or end it when everybody that ever held the row is in the past.
Kept(t) == row'[t] = row[t] /\ finisher'[t] = finisher[t]

Changed(t) ==
    /\ row'[t].status # "absent"
    /\ row'[t].status = "claimed" => /\ row[t].status = "claimed"
                                     /\ row'[t].claimedAt = row[t].claimedAt
                                     /\ row'[t].heartbeatAt \in row[t].claimedAt..now
    /\ row'[t].status \in {"queued", "failed"} =>
          /\ row'[t].claimedBy = None /\ row'[t].heartbeatAt = None
          /\ t \in Plain => \A l \in Leases' : l.task = t => l.claimedAt < now
    /\ row'[t].status = "failed" => row'[t].attempts >= MaxAttempts
    /\ row'[t].status = "completed" /\ t \in Plain => finisher'[t] = claims[t]

\* Every action but Claim and Tick changes rows this way and hands out no claim.
LEMMA RowsMayChange ==
    ASSUME IInv, TypeOK',
           claims' = claims, now' = now, Leases' \subseteq Leases,
           HeldOnce', CutoffsInThePast', RetriesDecided',
           \A t \in Tasks : Kept(t) \/ Changed(t)
    PROVE  IInv'
<1> USE DEF IInv
<1>0. \A l \in Leases : l \in Lease /\ l.task \in Tasks
  BY DEF TypeOK, Leases, Lease, Submit
<1>1. ClaimColumns'
  BY DEF ClaimColumns, Kept, Changed
<1>2. SerialsUsed' /\ SerialsDistinct'
  BY DEF SerialsUsed, SerialsDistinct
<1>3. LosersAreBehind'
  <2> SUFFICES ASSUME NEW l \in Leases', l.task \in Plain
               PROVE  LET r == row'[l.task] IN
                      /\ r.status # "absent"
                      /\ r.status \in {"queued", "failed"} => l.claimedAt < now
                      /\ r.status = "claimed" => IF l.serial = claims[l.task]
                                                 THEN l.claimedAt = r.claimedAt
                                                 ELSE l.claimedAt < r.claimedAt
    BY DEF LosersAreBehind
  <2>1. l \in Leases /\ l.task \in Tasks
    BY <1>0
  <2>2. CASE Kept(l.task)
    BY <2>1, <2>2 DEF Kept, LosersAreBehind
  <2>3. CASE Changed(l.task)
    BY <2>1, <2>3 DEF Changed, LosersAreBehind
  <2>4. QED
    BY <2>1, <2>2, <2>3
<1>4. FailsOnlyWhenSpent'
  BY DEF FailsOnlyWhenSpent, Kept, Changed
<1>5. ResultFromLastClaim'
  BY DEF ResultFromLastClaim, Kept, Changed, Plain
<1>6. QED
  BY <1>1, <1>2, <1>3, <1>4, <1>5

\* The claim the guard of an UPDATE accepts is the last one made on the row, and
\* every other browser that worked on the row lost it in an earlier second.
LEMMA HolderIsLast ==
    ASSUME IInv, NEW l \in Leases, l.task \in Plain, HeldBy(row[l.task], l)
    PROVE  /\ l.serial = claims[l.task]
           /\ \A k \in Leases : k.task = l.task /\ k # l => k.claimedAt < now
<1>1. l.task \in Tasks /\ row[l.task].claimedAt \in 0..now
  BY DEF Plain, IInv, ClaimColumns, HeldBy
<1>2. l.claimedAt = row[l.task].claimedAt /\ row[l.task].status = "claimed"
  BY DEF HeldBy
<1>3. \A k \in Leases : k \in Lease /\ k.claimedAt \in Nat
  BY DEF IInv, TypeOK, Leases, Lease, Submit
<1>4. now \in Nat
  BY DEF IInv, TypeOK
<1>5. l.serial = claims[l.task]
  BY <1>1, <1>2, <1>3 DEF IInv, LosersAreBehind
<1>6. ASSUME NEW k \in Leases, k.task = l.task, k # l
      PROVE  k.claimedAt < now
  <2>1. k.serial # claims[l.task]
    BY <1>5, <1>6 DEF IInv, SerialsDistinct
  <2>2. k.claimedAt < row[l.task].claimedAt
    BY <1>2, <1>6, <2>1 DEF IInv, LosersAreBehind
  <2>3. QED
    BY <1>1, <1>3, <1>4, <2>2
<1>7. QED
  BY <1>5, <1>6

\* A stale row's claim, and every earlier one, was made before this second.
LEMMA StaleIsPast ==
    ASSUME IInv, NEW t \in Tasks, NEW c \in Int, c <= now - Ttl, IsStale(row[t], c),
           NEW l \in Leases, l.task = t, t \in Plain
    PROVE  l.claimedAt < now
<1>1. now \in Nat /\ l.claimedAt \in Nat /\ row[t] \in Row
  BY DEF IInv, TypeOK, Leases, Lease, Submit
<1>2. row[t].claimedAt \in 0..now /\ row[t].heartbeatAt \in row[t].claimedAt..now
  BY DEF IInv, ClaimColumns, IsStale
<1>3. row[t].heartbeatAt < c
  BY DEF IsStale
<1>4. l.claimedAt <= row[t].claimedAt
  BY <1>1, <1>2 DEF IInv, LosersAreBehind, IsStale
<1>5. QED
  BY <1>1, <1>2, <1>3, <1>4, TtlAssumption

\* A statement that requeues or fails a row when all its claims are in the past.
LEMMA RowMayEnd ==
    ASSUME NEW t \in Tasks,
           row'[t].status \in {"queued", "failed"},
           row'[t].claimedBy = None, row'[t].heartbeatAt = None,
           row'[t].status = "failed" => row'[t].attempts >= MaxAttempts,
           t \in Plain => \A l \in Leases' : l.task = t => l.claimedAt < now
    PROVE  Changed(t)
<1>1. row'[t].status # "absent" /\ row'[t].status # "claimed" /\ row'[t].status # "completed"
  OBVIOUS
<1>2. QED
  BY <1>1 DEF Changed

\* A reclaim ends the claim of a stale row.
LEMMA ReclaimMayEnd ==
    ASSUME NEW t \in Tasks, row[t] \in Row, NEW b \in BOOLEAN,
           row'[t] = ReclaimedRow(row[t], b),
           b => row[t].attempts >= MaxAttempts,
           t \in Plain => \A l \in Leases' : l.task = t => l.claimedAt < now
    PROVE  Changed(t)
<1>1. /\ row'[t].status = IF b THEN "failed" ELSE "queued"
      /\ row'[t].claimedBy = None /\ row'[t].heartbeatAt = None
      /\ row'[t].attempts = row[t].attempts
  BY DEF ReclaimedRow, Unclaimed, Row
<1>2. QED
  BY <1>1, RowMayEnd

\* The holder's release ends its claim.
LEMMA ReleaseMayEnd ==
    ASSUME IInv, NEW l \in Leases, NEW t \in Tasks, l.task = t, HeldBy(row[t], l),
           Leases' \subseteq Leases \ {l}, row'[t] = Released(row[t])
    PROVE  Changed(t)
<1>1. row[t] \in Row
  BY DEF IInv, TypeOK
<1>2. row'[t].status = "queued" /\ row'[t].claimedBy = None /\ row'[t].heartbeatAt = None
  BY <1>1 DEF Released, Unclaimed, Row
<1>3. t \in Plain => \A k \in Leases' : k.task = t => k.claimedAt < now
  BY HolderIsLast
<1>4. QED
  BY <1>2, <1>3, RowMayEnd

\* The holder's error ends its claim.
LEMMA ErrorMayEnd ==
    ASSUME IInv, NEW l \in Leases, NEW t \in Tasks, l.task = t, HeldBy(row[t], l),
           Leases' \subseteq Leases \ {l}, NEW retry \in BOOLEAN,
           row'[t] = ErrorRow(row[t], retry), ~retry => l.attempts >= MaxAttempts
    PROVE  Changed(t)
<1>1. row[t] \in Row /\ row[t].attempts = l.attempts
  BY DEF IInv, TypeOK, HeldBy
<1>2. /\ row'[t].status = IF retry THEN "queued" ELSE "failed"
      /\ row'[t].claimedBy = None /\ row'[t].heartbeatAt = None
      /\ row'[t].attempts = row[t].attempts
  BY <1>1 DEF ErrorRow, Unclaimed, Row
<1>3. t \in Plain => \A k \in Leases' : k.task = t => k.claimedAt < now
  BY HolderIsLast
<1>4. QED
  BY <1>1, <1>2, <1>3, RowMayEnd

\* The holder's result is the work of the last claim.
LEMMA ResultMayEnd ==
    ASSUME IInv, NEW l \in Leases, NEW t \in Tasks, l.task = t, HeldBy(row[t], l),
           NEW note \in Notes,
           row'[t] = CompletedRow(row[t], note, now), finisher'[t] = l.serial
    PROVE  Changed(t)
<1>1. row[t] \in Row
  BY DEF IInv, TypeOK
<1>2. row'[t].status = "completed"
  BY <1>1 DEF CompletedRow, Row
<1>3. t \in Plain => l.serial = claims[t]
  BY HolderIsLast
<1>4. QED
  BY <1>2, <1>3 DEF Changed

\* IInv holds initially and every step of every process preserves it.
THEOREM Inductive == Spec => []IInv
<1>1. Init => IInv
  <2> SUFFICES ASSUME Init PROVE IInv
    OBVIOUS
  <2>1. TypeOK
    BY DEF Init, TypeOK, AbsentRow, Row, Statuses, Notes, IdleSweep, Sweep
  <2>2. Leases = {} /\ \A t \in Tasks : row[t].status = "absent"
    BY DEF Init, Leases, AbsentRow
  <2>4. /\ ClaimColumns /\ FailsOnlyWhenSpent /\ ResultFromLastClaim
    BY <2>2 DEF Init, ClaimColumns, FailsOnlyWhenSpent, ResultFromLastClaim, AbsentRow,
       Plain
  <2>3. QED
    BY <2>1, <2>2, <2>4 DEF Init, IInv, ClaimColumns, HeldOnce, SerialsUsed,
       SerialsDistinct,
       LosersAreBehind, CutoffsInThePast, RetriesDecided, IdleSweep
<1>2. IInv /\ TypeOK' /\ [Next]_vars => IInv'
  <2> SUFFICES ASSUME IInv, TypeOK', [Next]_vars PROVE IInv'
    OBVIOUS
  <2>a. /\ row \in [Tasks -> Row] /\ finisher \in [Tasks -> Nat] /\ claims \in [Tasks -> Nat]
        /\ now \in Nat
        /\ \A l \in Leases : l \in Lease /\ l.task \in Tasks
        /\ \A s \in submits : s \in Submit /\ s.lease \in Leases
        /\ running \subseteq Leases
    BY DEF IInv, TypeOK, Leases, Lease, Submit
  <2>b. \A t \in Tasks : row[t] \in Row /\ Row = Row
    BY <2>a
  \* The parts the actions that leave submits, sweeps and the clock alone keep.
  <2>c. ASSUME submits' \subseteq submits, running' \subseteq running,
               sweep' = sweep, now' = now, claims' = claims,
               \A t \in Tasks : Kept(t) \/ Changed(t)
        PROVE  IInv'
    <3>1. Leases' \subseteq Leases
      BY <2>c DEF Leases
    <3>2. HeldOnce' /\ CutoffsInThePast' /\ RetriesDecided'
      BY <2>c DEF IInv, HeldOnce, CutoffsInThePast, RetriesDecided
    <3>3. QED
      BY <2>c, <3>1, <3>2, RowsMayChange
  <2>1. ASSUME NEW t \in Tasks, Enqueue(t) PROVE IInv'
    <3>1. \A l \in Leases : l.task = t => t \notin Plain
      BY <2>1 DEF Enqueue, IInv, LosersAreBehind
    <3>2. Leases' = Leases
      BY <2>1 DEF Enqueue, Leases
    <3>3. \A s \in Tasks : Kept(s) \/ Changed(s)
      BY <2>1, <2>a, <3>1, <3>2 DEF Enqueue, Kept, Changed, QueuedRow, AbsentRow
    <3>4. QED
      BY <2>1, <2>c, <3>3 DEF Enqueue
  <2>2. ASSUME NEW t \in Tasks, Redispatch(t) PROVE IInv'
    <3>1. \A s \in Tasks : Kept(s) \/ Changed(s)
      BY <2>2, <2>a DEF Redispatch, Kept, Changed, Redispatched, QueuedRow, AbsentRow, Plain
    <3>2. QED
      BY <2>2, <2>c, <3>1 DEF Redispatch
  <2>3. ASSUME NEW t \in Tasks, NEW u \in Users, Claim(t, u) PROVE IInv'
    <3> DEFINE new == NewLease(t, u)
    <3>1. /\ new.task = t /\ new.serial = claims[t] + 1 /\ new.claimedAt = now
          /\ claims[t] \in Nat
      BY <2>a DEF NewLease
    <3>2. /\ row' = [row EXCEPT ![t] = Claimed(@, u, now)]
          /\ claims' = [claims EXCEPT ![t] = @ + 1]
          /\ running' \subseteq running \cup {new}
          /\ now' = now /\ submits' = submits /\ sweep' = sweep /\ finisher' = finisher
      BY <2>3 DEF Claim
    <3>3. Leases' \subseteq Leases \cup {new}
      BY <3>2 DEF Leases
    <3>4. \A l \in Leases : l.serial \in 1..claims[l.task] /\ l.claimedAt \in Nat /\ l.claimedAt <= now
      BY <2>a DEF IInv, SerialsUsed, Lease
    <3>5. new \notin Leases
      BY <3>1, <3>4
    <3>6. /\ row'[t].status = "claimed" /\ row'[t].claimedAt = now /\ row'[t].heartbeatAt = now
          /\ \A s \in Tasks \ {t} : row'[s] = row[s] /\ claims'[s] = claims[s]
          /\ claims'[t] = claims[t] + 1
      BY <2>a, <3>2 DEF Claimed
    <3>7. ClaimColumns'
      BY <2>a, <3>2, <3>6 DEF IInv, ClaimColumns
    <3>8. HeldOnce' /\ CutoffsInThePast' /\ RetriesDecided'
      BY <2>a, <3>2, <3>5 DEF IInv, HeldOnce, CutoffsInThePast, RetriesDecided
    <3>9. SerialsUsed'
      BY <2>a, <3>1, <3>2, <3>3, <3>4, <3>6 DEF SerialsUsed
    <3>10. SerialsDistinct'
      <4> SUFFICES ASSUME NEW k \in Leases', NEW l \in Leases', k.task = l.task, k.serial = l.serial
                   PROVE  k = l
        BY DEF SerialsDistinct
      <4>1. CASE k \in Leases /\ l \in Leases
        BY <4>1 DEF IInv, SerialsDistinct
      <4>2. CASE k = new /\ l \in Leases
        BY <3>1, <3>4, <4>2
      <4>3. CASE k \in Leases /\ l = new
        BY <3>1, <3>4, <4>3
      <4>4. QED
        BY <3>3, <4>1, <4>2, <4>3
    <3>11. LosersAreBehind'
      <4> SUFFICES ASSUME NEW l \in Leases', l.task \in Plain
                   PROVE  LET r == row'[l.task] IN
                          /\ r.status # "absent"
                          /\ r.status \in {"queued", "failed"} => l.claimedAt < now
                          /\ r.status = "claimed" => IF l.serial = claims'[l.task]
                                                     THEN l.claimedAt = r.claimedAt
                                                     ELSE l.claimedAt < r.claimedAt
        BY <3>2 DEF LosersAreBehind, Plain
      <4>1. CASE l = new
        BY <3>1, <3>6, <4>1
      <4>2. CASE l \in Leases /\ l.task # t
        BY <2>a, <3>6, <4>2 DEF IInv, LosersAreBehind
      <4>3. CASE l \in Leases /\ l.task = t
        <5>1. l.claimedAt < now
          BY <2>3, <4>3 DEF IInv, LosersAreBehind, Claim, CanClaim
        <5>2. l.serial # claims'[t]
          BY <3>1, <3>4, <3>6, <4>3
        <5>3. QED
          BY <3>6, <4>3, <5>1, <5>2
      <4>4. QED
        BY <3>3, <4>1, <4>2, <4>3
    <3>12. FailsOnlyWhenSpent' /\ ResultFromLastClaim'
      BY <2>a, <3>2, <3>6 DEF IInv, FailsOnlyWhenSpent, ResultFromLastClaim, Plain
    <3>13. QED
      BY <3>7, <3>8, <3>9, <3>10, <3>11, <3>12 DEF IInv
  <2>4. ASSUME NEW l \in Leases, Heartbeat(l) PROVE IInv'
    <3>1. row[l.task].claimedAt \in 0..now
      BY <2>4, <2>a DEF IInv, ClaimColumns, Heartbeat, HeldBy
    <3>2. Changed(l.task)
      BY <2>4, <2>a, <3>1 DEF Heartbeat, HeartbeatRow, Changed, HeldBy, Row
    <3>3. \A s \in Tasks : s # l.task => Kept(s)
      BY <2>4, <2>a DEF Heartbeat, Kept
    <3>4. QED
      BY <2>4, <2>c, <3>2, <3>3 DEF Heartbeat
  <2>5. ASSUME NEW l \in running, NEW k \in {"result", "error"}, BeginSubmit(l, k) PROVE IInv'
    <3> DEFINE new == [lease |-> l, kind |-> k, retry |-> WillRetry(row[l.task])]
    <3>1. /\ running' = running \ {l} /\ submits' = submits \cup {new} /\ HeldBy(row[l.task], l)
          /\ row' = row /\ now' = now /\ claims' = claims /\ sweep' = sweep /\ finisher' = finisher
      BY <2>5 DEF BeginSubmit
    <3>2. Leases' \subseteq Leases
      BY <3>1 DEF Leases
    <3>3. HeldOnce'
      BY <3>1 DEF IInv, HeldOnce
    <3>4. ~WillRetry(row[l.task]) => l.attempts >= MaxAttempts
      <4>1. row[l.task].attempts = l.attempts /\ l.attempts \in Nat
        BY <2>a, <3>1 DEF HeldBy, Lease
      <4>2. QED
        BY <4>1, MaxAttemptsAssumption DEF WillRetry
    <3>5. RetriesDecided' /\ CutoffsInThePast'
      BY <2>a, <3>1, <3>4 DEF IInv, RetriesDecided, CutoffsInThePast
    <3>6. \A t \in Tasks : Kept(t)
      BY <3>1 DEF Kept
    <3>7. QED
      BY <3>1, <3>2, <3>3, <3>5, <3>6, RowsMayChange
  <2>6. ASSUME NEW s \in submits, EndResult(s) PROVE IInv'
    <3>1. \A n \in ResultNotes(Kind[s.lease.task]) : n \in Notes
      BY DEF ResultNotes, Notes
    <3>2. Leases' \subseteq Leases \ {s.lease}
      BY <2>6 DEF EndResult, Leases, IInv, HeldOnce
    <3>3. \A t \in Tasks : Kept(t) \/ Changed(t)
      <4> DEFINE u == s.lease.task
      <4>1. u \in Tasks /\ s.lease \in Leases /\ HeldBy(row[u], s.lease)
        BY <2>6, <2>a DEF EndResult
      <4>2. PICK note \in Notes : row' = [row EXCEPT ![u] = CompletedRow(@, note, now)]
        BY <2>6, <3>1 DEF EndResult
      <4>3. finisher' = [finisher EXCEPT ![u] = s.lease.serial]
        BY <2>6 DEF EndResult
      <4>4. Changed(u)
        BY <2>a, <4>1, <4>2, <4>3, ResultMayEnd
      <4>5. \A t \in Tasks \ {u} : Kept(t)
        BY <2>a, <4>2, <4>3 DEF Kept
      <4>6. QED
        BY <4>4, <4>5
    <3>4. QED
      BY <2>6, <2>c, <3>3 DEF EndResult
  <2>7. ASSUME NEW s \in submits, EndError(s) PROVE IInv'
    <3>1. Leases' \subseteq Leases \ {s.lease}
      BY <2>7 DEF EndError, Leases, IInv, HeldOnce
    <3>2. s.retry \in BOOLEAN /\ (~s.retry => s.lease.attempts >= MaxAttempts)
      BY <2>7, <2>a DEF EndError, IInv, RetriesDecided, Submit
    <3>3. \A t \in Tasks : Kept(t) \/ Changed(t)
      <4> DEFINE u == s.lease.task
      <4>1. /\ u \in Tasks /\ s.lease \in Leases /\ HeldBy(row[u], s.lease)
            /\ row' = [row EXCEPT ![u] = ErrorRow(@, s.retry)] /\ finisher' = finisher
        BY <2>7, <2>a DEF EndError
      <4>2. row'[u] = ErrorRow(row[u], s.retry) /\ \A t \in Tasks \ {u} : Kept(t)
        BY <2>a, <4>1 DEF Kept
      <4>3. Changed(u)
        BY <3>1, <3>2, <4>1, <4>2, ErrorMayEnd
      <4>4. QED
        BY <4>2, <4>3
    <3>4. QED
      BY <2>7, <2>c, <3>3 DEF EndError
  <2>8. ASSUME NEW s \in submits, SubmitLost(s) PROVE IInv'
    BY <2>8, <2>c DEF SubmitLost, Kept
  <2>9. ASSUME NEW l \in running, FinishLossless(l) PROVE IInv'
    <3>1. Leases' \subseteq Leases \ {l}
      BY <2>9 DEF FinishLossless, Leases, IInv, HeldOnce
    <3>2. "null" \in Notes
      BY DEF Notes
    <3>3. \A t \in Tasks : Kept(t) \/ Changed(t)
      <4> DEFINE u == l.task
      <4>1. /\ u \in Tasks /\ l \in Leases /\ HeldBy(row[u], l)
            /\ row' = [row EXCEPT ![u] = CompletedRow(@, "null", now)]
            /\ finisher' = [finisher EXCEPT ![u] = l.serial]
        BY <2>9, <2>a DEF FinishLossless
      <4>2. /\ row'[u] = CompletedRow(row[u], "null", now) /\ finisher'[u] = l.serial
            /\ \A t \in Tasks \ {u} : Kept(t)
        BY <2>a, <4>1 DEF Kept
      <4>3. Changed(u)
        BY <3>2, <4>1, <4>2, ResultMayEnd
      <4>4. QED
        BY <4>2, <4>3
    <3>4. QED
      BY <2>9, <2>c, <3>3 DEF FinishLossless
  <2>10. ASSUME NEW l \in running, Release(l) PROVE IInv'
    <3>1. Leases' \subseteq Leases \ {l}
      BY <2>10 DEF Release, Leases, IInv, HeldOnce
    <3>2. \A t \in Tasks : Kept(t) \/ Changed(t)
      <4>1. CASE HeldBy(row[l.task], l)
        <5> DEFINE u == l.task
        <5>1. /\ u \in Tasks /\ l \in Leases /\ finisher' = finisher
              /\ row' = [row EXCEPT ![u] = Released(@)]
          BY <2>10, <2>a, <4>1 DEF Release
        <5>2. row'[u] = Released(row[u]) /\ \A t \in Tasks \ {u} : Kept(t)
          BY <2>a, <5>1 DEF Kept
        <5>3. Changed(u)
          BY <3>1, <4>1, <5>1, <5>2, ReleaseMayEnd
        <5>4. QED
          BY <5>2, <5>3
      <4>2. CASE ~HeldBy(row[l.task], l)
        BY <2>10, <4>2 DEF Release, Kept
      <4>3. QED
        BY <4>1, <4>2
    <3>3. QED
      BY <2>10, <2>c, <3>2 DEF Release
  <2>11. ASSUME NEW l \in running, Abandon(l) PROVE IInv'
    BY <2>11, <2>c DEF Abandon, Kept
  <2>12. ASSUME NEW w \in Sweepers, SweepStep(w) PROVE IInv'
    <3>0. /\ Leases' = Leases /\ now' = now /\ claims' = claims /\ finisher' = finisher
          /\ HeldOnce' /\ RetriesDecided'
      BY <2>12 DEF SweepStep, SweepRead, SweepRequeue, SweepFail, SweepLost, IInv, HeldOnce,
         RetriesDecided, Leases
    <3>1. CutoffsInThePast'
      <4>1. sweep \in [Sweepers -> Sweep] /\ now - Ttl \in Int
        BY <2>a, TtlAssumption DEF IInv, TypeOK
      <4>2. \A v \in Sweepers \ {w} : sweep'[v] = sweep[v]
        BY <2>12, <4>1 DEF SweepStep, SweepRead, SweepRequeue, SweepFail, SweepLost
      <4>3. \/ sweep'[w].phase = "idle"
            \/ sweep'[w].cutoff = now - Ttl
            \/ sweep'[w].cutoff = sweep[w].cutoff /\ sweep[w].phase # "idle"
        <5>1. CASE SweepRead(w)
          BY <4>1, <5>1 DEF SweepRead
        <5>2. CASE SweepRequeue(w)
          BY <4>1, <5>2 DEF SweepRequeue, Sweep
        <5>3. CASE SweepFail(w) \/ SweepLost(w)
          <6>1. sweep' = [sweep EXCEPT ![w] = IdleSweep]
            BY <5>3 DEF SweepFail, SweepLost
          <6>2. sweep'[w] = IdleSweep
            BY <4>1, <6>1
          <6>3. QED
            BY <6>2 DEF IdleSweep
        <5>4. QED
          BY <2>12, <5>1, <5>2, <5>3 DEF SweepStep
      <4>4. QED
        BY <3>0, <4>1, <4>2, <4>3 DEF IInv, CutoffsInThePast
    <3>2. ASSUME NEW b \in BOOLEAN, row' = Reclaimed(w, b), sweep[w].phase # "idle"
          PROVE  \A t \in Tasks : Kept(t) \/ Changed(t)
      <4> SUFFICES ASSUME NEW t \in Tasks PROVE Kept(t) \/ Changed(t)
        OBVIOUS
      <4>1. CASE t \notin Reclaimable(w, b)
        BY <3>0, <3>2, <4>1 DEF Reclaimed, Kept
      <4>2. CASE t \in Reclaimable(w, b)
        <5>1. PICK x \in sweep[w].stale : /\ Exhausted(x) = b
                                          /\ IsStale(row[t], sweep[w].cutoff)
                                          /\ row[t].attempts = x.attempts
          BY <4>2 DEF Reclaimable
        <5>2. sweep[w].cutoff \in Int /\ sweep[w].cutoff <= now - Ttl
          BY <3>2 DEF IInv, TypeOK, CutoffsInThePast, Sweep
        <5>3. \A l \in Leases' : l.task = t /\ t \in Plain => l.claimedAt < now
          BY <3>0, <5>1, <5>2, StaleIsPast
        <5>4. row'[t] = ReclaimedRow(row[t], b)
          BY <3>2, <4>2 DEF Reclaimed
        <5>5. b => row[t].attempts >= MaxAttempts
          BY <5>1 DEF Exhausted
        <5>6. QED
          BY <2>b, <5>3, <5>4, <5>5, ReclaimMayEnd
      <4>3. QED
        BY <4>1, <4>2
    <3>3. \A t \in Tasks : Kept(t) \/ Changed(t)
      BY <2>12, <3>0, <3>2 DEF SweepStep, SweepRead, SweepRequeue, SweepFail, SweepLost,
         Kept
    <3>4. QED
      BY <3>0, <3>1, <3>3, RowsMayChange
  <2>13. ASSUME NEW t \in Tasks, Cancel(t) PROVE IInv'
    <3>1. \A s \in Tasks : Kept(s) \/ Changed(s)
      BY <2>13, <2>a DEF Cancel, CanceledRow, Kept, Changed, Row
    <3>2. QED
      BY <2>13, <2>c, <3>1 DEF Cancel
  <2>14. ASSUME NEW t \in Tasks, Retire(t) PROVE IInv'
    <3>1. \A s \in Tasks : Kept(s) \/ Changed(s)
      BY <2>14, <2>a DEF Retire, RetiredRow, Unclaimed, Kept, Changed, Row
    <3>2. QED
      BY <2>14, <2>c, <3>1 DEF Retire
  <2>15. CASE ReclaimNow
    <3>0. Leases' = Leases
      BY <2>15 DEF ReclaimNow, Leases
    <3>1. ASSUME NEW t \in Tasks PROVE Kept(t) \/ Changed(t)
      <4>1. CASE ~IsStale(row[t], now - Ttl)
        BY <2>15, <4>1 DEF ReclaimNow, Kept
      <4>2. CASE IsStale(row[t], now - Ttl)
        <5>1. now - Ttl \in Int /\ now - Ttl <= now - Ttl
          BY <2>a, TtlAssumption
        <5>2. \A l \in Leases' : l.task = t /\ t \in Plain => l.claimedAt < now
          BY <3>0, <4>2, <5>1, StaleIsPast
        <5>3. CASE row[t].attempts >= MaxAttempts
          <6>1. row'[t] = ReclaimedRow(row[t], TRUE)
            BY <2>15, <4>2, <5>3 DEF ReclaimNow, ReclaimedRow
          <6>2. QED
            BY <2>b, <5>2, <5>3, <6>1, ReclaimMayEnd
        <5>4. CASE ~(row[t].attempts >= MaxAttempts)
          <6>1. row'[t] = ReclaimedRow(row[t], FALSE)
            BY <2>15, <4>2, <5>4 DEF ReclaimNow, ReclaimedRow
          <6>2. QED
            BY <2>b, <5>2, <6>1, ReclaimMayEnd
        <5>5. QED
          BY <5>3, <5>4
      <4>3. QED
        BY <4>1, <4>2
    <3>2. QED
      BY <2>15, <2>c, <3>1 DEF ReclaimNow
  <2>16. ASSUME NEW kind \in Kinds, ResetFailed(kind) PROVE IInv'
    <3>0. Leases' = Leases
      BY <2>16 DEF ResetFailed, Leases
    <3>1. ASSUME NEW t \in Tasks PROVE Kept(t) \/ Changed(t)
      <4>1. CASE row'[t] = row[t]
        BY <2>16, <4>1 DEF ResetFailed, Kept
      <4>2. CASE row[t].status = "failed" /\ row'[t] = QueuedRow
        <5>1. \A l \in Leases' : l.task = t /\ t \in Plain => l.claimedAt < now
          BY <3>0, <4>2 DEF IInv, LosersAreBehind
        <5>2. QED
          BY <4>2, <5>1 DEF Changed, QueuedRow, AbsentRow
      <4>3. QED
        BY <2>16, <4>1, <4>2 DEF ResetFailed, Redispatched
    <3>2. QED
      BY <2>16, <2>c, <3>1 DEF ResetFailed
  <2>17. ASSUME NEW u \in Users, DeleteUser(u) PROVE IInv'
    <3>0. Leases' = Leases
      BY <2>17 DEF DeleteUser, Leases
    <3>1. ASSUME NEW t \in Tasks PROVE Kept(t) \/ Changed(t)
      <4>1. CASE row'[t] = row[t]
        BY <2>17, <4>1 DEF DeleteUser, Kept
      <4>2. CASE row'[t] = [row[t] EXCEPT !.claimedBy = None]
        <5>1. /\ row'[t].claimedBy = None /\ row'[t].status = row[t].status
              /\ row'[t].claimedAt = row[t].claimedAt /\ row'[t].heartbeatAt = row[t].heartbeatAt
              /\ row'[t].attempts = row[t].attempts /\ finisher'[t] = finisher[t]
          BY <2>17, <2>b, <4>2 DEF DeleteUser, Row
        <5>2. CASE row[t].status = "absent"
          <6>1. row[t].claimedBy = None
            BY <5>2 DEF IInv, ClaimColumns
          <6>2. row'[t] = row[t]
            BY <2>17, <6>1, NoneAssumption DEF DeleteUser, UserDeletedRow
          <6>3. QED
            BY <4>1, <6>2
        <5>3. CASE row[t].status # "absent"
          BY <3>0, <5>1, <5>3 DEF Changed, IInv, ClaimColumns, LosersAreBehind,
             FailsOnlyWhenSpent, ResultFromLastClaim
        <5>4. QED
          BY <5>2, <5>3
      <4>3. QED
        BY <2>17, <4>1, <4>2 DEF DeleteUser, UserDeletedRow
    <3>2. QED
      BY <2>17, <2>c, <3>1 DEF DeleteUser
  <2>18. CASE Tick
    <3>1. /\ now' = now + 1 /\ Leases' = Leases /\ row' = row /\ claims' = claims
          /\ submits' = submits /\ running' = running /\ sweep' = sweep /\ finisher' = finisher
      BY <2>18 DEF Tick, Leases
    <3>2. \A l \in Leases : l.claimedAt \in Nat
      BY <2>a DEF Lease
    <3>3. ClaimColumns' /\ SerialsUsed'
      BY <2>a, <3>1, <3>2 DEF IInv, ClaimColumns, SerialsUsed
    <3>4. LosersAreBehind'
      BY <2>a, <3>1, <3>2 DEF IInv, LosersAreBehind
    <3>5. CutoffsInThePast'
      BY <2>a, <3>1, TtlAssumption DEF IInv, TypeOK, CutoffsInThePast, Sweep
    <3>6. QED
      BY <3>1, <3>3, <3>4, <3>5 DEF IInv, HeldOnce, SerialsDistinct, RetriesDecided,
         FailsOnlyWhenSpent, ResultFromLastClaim
  <2>19. CASE UNCHANGED vars
    BY <2>19, <2>c DEF vars, Kept
  <2>20. QED
    BY <2>a, <2>1, <2>2, <2>3, <2>4, <2>5, <2>6, <2>7, <2>8, <2>9, <2>10, <2>11, <2>12,
       <2>13, <2>14, <2>15, <2>16, <2>17, <2>18, <2>19 DEF Next
<1>3. QED
  BY <1>1, <1>2, TypeCorrect, PTL DEF Spec

\* A browser whose claim was requeued, reclaimed or canceled never gets its
\* result in: what a row records is the work of the last claim made on it.
THEOREM ResultIsTheLastClaims == Spec => []ResultFromLastClaim
<1>1. IInv => ResultFromLastClaim
  BY DEF IInv
<1>2. QED
  BY <1>1, Inductive, PTL

\* At most one of the claims being worked on passes the guard of submit,
\* heartbeat and release.
THEOREM OneHolderAtATime == Spec => []OneHolder
<1>1. IInv => OneHolder
  <2> SUFFICES ASSUME IInv, NEW t \in Plain, NEW k \in Leases, NEW l \in Leases,
                      k.task = t, l.task = t, HeldBy(row[t], k), HeldBy(row[t], l)
               PROVE  k = l
    BY DEF OneHolder
  <2>1. k.serial = claims[t] /\ l.serial = claims[t]
    BY HolderIsLast
  <2>2. QED
    BY <2>1 DEF IInv, SerialsDistinct
<1>2. QED
  BY <1>1, Inductive, PTL

\* No process fails a row that still has an attempt left.
THEOREM BudgetIsSpent == Spec => []FailsOnlyWhenSpent
<1>1. IInv => FailsOnlyWhenSpent
  BY DEF IInv
<1>2. QED
  BY <1>1, Inductive, PTL

\* Nothing but an allowed redispatch touches a completed row: a late submit,
\* release, sweep, cancel or reset leaves it, and who finished it, alone.
THEOREM CompletedStays == Spec => ResultsAreFinal
<1> DEFINE Stays(t) ==
      row[t].status = "completed" =>
         \/ row'[t].status = "completed" /\ finisher'[t] = finisher[t]
         \/ /\ t \in Upserted /\ Kind[t] # "lossless"
            /\ row[t].note = "null" /\ row'[t] = QueuedRow
<1>1. ASSUME IInv, [Next]_vars, NEW t \in Tasks PROVE Stays(t)
  <2> SUFFICES ASSUME row[t].status = "completed"
               PROVE  \/ row'[t].status = "completed" /\ finisher'[t] = finisher[t]
                      \/ /\ t \in Upserted /\ Kind[t] # "lossless"
                         /\ row[t].note = "null" /\ row'[t] = QueuedRow
    OBVIOUS
  <2>a. /\ row \in [Tasks -> Row] /\ finisher \in [Tasks -> Nat] /\ row[t] \in Row
        /\ \A s \in submits : s.lease.task \in Tasks
        /\ \A l \in running : l.task \in Tasks
    BY <1>1 DEF IInv, TypeOK, Submit, Lease
  <2>b. /\ row[t].status # "absent" /\ row[t].status # "queued" /\ row[t].status # "claimed"
        /\ row[t].status # "failed"
    OBVIOUS
  <2>1. ASSUME NEW s \in Tasks, Enqueue(s) \/ Cancel(s) \/ Retire(s) PROVE Kept(t)
    BY <2>1, <2>a, <2>b DEF Enqueue, Cancel, CanCancel, Retire, CanRetire, Kept
  <2>2. ASSUME NEW s \in Tasks, Redispatch(s)
        PROVE  \/ Kept(t)
               \/ /\ t \in Upserted /\ Kind[t] # "lossless"
                  /\ row[t].note = "null" /\ row'[t] = QueuedRow
    BY <2>2, <2>a, <2>b DEF Redispatch, CanRedispatch, Redispatched, Kept
  <2>3. ASSUME NEW s \in Tasks, NEW u \in Users, Claim(s, u) PROVE Kept(t)
    BY <2>3, <2>a, <2>b DEF Claim, CanClaim, Kept
  <2>4. ASSUME NEW l, l.task \in Tasks, Heartbeat(l) PROVE Kept(t)
    BY <2>4, <2>a, <2>b DEF Heartbeat, HeldBy, Kept
  <2>5. ASSUME NEW l \in running, NEW k, BeginSubmit(l, k) \/ Abandon(l) \/ FinishLossless(l)
        PROVE  Kept(t)
    BY <2>5, <2>a, <2>b DEF BeginSubmit, Abandon, FinishLossless, HeldBy, Kept
  <2>6. ASSUME NEW l \in running, Release(l) PROVE Kept(t)
    BY <2>6, <2>a, <2>b DEF Release, HeldBy, Kept
  <2>7. ASSUME NEW s \in submits, EndResult(s) \/ EndError(s) \/ SubmitLost(s) PROVE Kept(t)
    BY <2>7, <2>a, <2>b DEF EndResult, EndError, SubmitLost, HeldBy, Kept
  <2>8. ASSUME NEW w \in Sweepers, SweepStep(w) PROVE Kept(t)
    BY <2>8, <2>b DEF SweepStep, SweepRead, SweepRequeue, SweepFail, SweepLost,
       Reclaimed, Reclaimable, IsStale, Kept
  <2>9. CASE ReclaimNow
    BY <2>9, <2>b DEF ReclaimNow, IsStale, Kept
  <2>10. ASSUME NEW k \in Kinds, ResetFailed(k) PROVE Kept(t)
    BY <2>10, <2>b DEF ResetFailed, Kept
  <2>11. ASSUME NEW u \in Users, DeleteUser(u)
         PROVE  row'[t].status = "completed" /\ finisher'[t] = finisher[t]
    BY <2>11, <2>a DEF DeleteUser, UserDeletedRow, Row
  <2>12. CASE Tick
    BY <2>12 DEF Tick, Kept
  <2>13. CASE UNCHANGED vars
    BY <2>13 DEF vars, Kept
  <2>14. QED
    BY <1>1, <2>a, <2>1, <2>2, <2>3, <2>4, <2>5, <2>6, <2>7, <2>8, <2>9, <2>10, <2>11,
       <2>12, <2>13 DEF Next, Kept
<1>2. ASSUME IInv, [Next]_vars PROVE [\A t \in Tasks : Stays(t)]_vars
  BY <1>1, <1>2
<1>3. QED
  BY <1>2, Inductive, PTL DEF Spec, ResultsAreFinal

\* A row heard from within the TTL is not stale for a cutoff in the past.
LEMMA LiveIsNotStale ==
    ASSUME IInv, NEW t \in Tasks, row[t].status = "claimed", row[t].heartbeatAt >= now - Ttl,
           NEW cutoff \in Int, cutoff <= now - Ttl
    PROVE  ~IsStale(row[t], cutoff)
<1>1. now \in Int /\ Ttl \in Int
  BY TtlAssumption DEF IInv, TypeOK
<1>2. row[t].claimedAt \in Int /\ row[t].heartbeatAt \in row[t].claimedAt..now
  BY <1>1 DEF IInv, ClaimColumns
<1>3. row[t].heartbeatAt \in Int
  BY <1>1, <1>2
<1>4. ~(row[t].heartbeatAt < cutoff)
  BY <1>1, <1>3
<1>5. QED
  BY <1>4 DEF IsStale

\* No sweep takes a row from a browser that was heard from within the TTL, however old
\* its SELECT is: a batch repeats the comparison, with a cutoff that the clock has only
\* moved away from (workReclaim.ts:70).
THEOREM SweepsSpareTheLive == Spec => SweepSparesLive
<1> DEFINE Spared(t) ==
               (/\ \/ \E w \in Sweepers : SweepRequeue(w) \/ SweepFail(w)
                   \/ ReclaimNow
                /\ row[t].status = "claimed"
                /\ row[t].heartbeatAt >= now - Ttl)
               => row'[t] = row[t]
<1>1. ASSUME IInv, NEW t \in Tasks PROVE Spared(t)
  <2> SUFFICES ASSUME (\E w \in Sweepers : SweepRequeue(w) \/ SweepFail(w)) \/ ReclaimNow,
                      row[t].status = "claimed", row[t].heartbeatAt >= now - Ttl
               PROVE  row'[t] = row[t]
    OBVIOUS
  <2>1. ASSUME NEW w \in Sweepers, SweepRequeue(w) \/ SweepFail(w) PROVE row'[t] = row[t]
    <3>1. sweep[w].cutoff \in Int /\ sweep[w].cutoff <= now - Ttl
      BY <1>1, <2>1 DEF IInv, TypeOK, Sweep, CutoffsInThePast, SweepRequeue, SweepFail
    <3>2. ~IsStale(row[t], sweep[w].cutoff)
      BY <1>1, <3>1, LiveIsNotStale
    <3>3. t \notin Reclaimable(w, TRUE) /\ t \notin Reclaimable(w, FALSE)
      BY <3>2 DEF Reclaimable
    <3>4. QED
      BY <2>1, <3>3 DEF SweepRequeue, SweepFail, Reclaimed
  <2>2. CASE ReclaimNow
    <3>1. now - Ttl \in Int /\ now - Ttl <= now - Ttl
      BY <1>1, TtlAssumption DEF IInv, TypeOK
    <3>2. ~IsStale(row[t], now - Ttl)
      BY <1>1, <3>1, LiveIsNotStale
    <3>3. QED
      BY <2>2, <3>2 DEF ReclaimNow
  <2>3. QED
    BY <2>1, <2>2
<1>2. ASSUME IInv, [Next]_vars PROVE [\A t \in Tasks : Spared(t)]_vars
  BY <1>1, <1>2
<1>3. QED
  BY <1>2, Inductive, PTL DEF Spec, SweepSparesLive

-----------------------------------------------------------------------------
(* The abstract task.                                                      *)

Still(t) == Task(t)' = Task(t)

Moved(t) == Promise!Moves(Task(t), Task(t)')

\* A step that leaves a row's status, attempts and history alone is none of the
\* abstract task's.
LEMMA SameIsStill ==
    ASSUME NEW t, row'[t].status = row[t].status, row'[t].attempts = row[t].attempts,
           claims'[t] = claims[t], finisher'[t] = finisher[t]
    PROVE  Still(t)
BY DEF Still, Task

\* What ends a claim without a result gives the task back or, with its budget
\* spent, up.
LEMMA EndIsAMove ==
    ASSUME NEW t, row[t].status = "claimed", row'[t].attempts = row[t].attempts,
           claims'[t] = claims[t], finisher'[t] = finisher[t],
           \/ row'[t].status = "queued"
           \/ row'[t].status = "failed" /\ row[t].attempts >= MaxAttempts
    PROVE  Moved(t)
<1>1. CASE row'[t].status = "queued"
  BY <1>1 DEF Moved, Task, Promise!Moves, Promise!GivenBack
<1>2. CASE row'[t].status = "failed" /\ row[t].attempts >= MaxAttempts
  BY <1>2 DEF Moved, Task, Promise!Moves, Promise!GivenUp
<1>3. QED
  BY <1>1, <1>2

\* What cancels a row stops the task.
LEMMA StopIsAMove ==
    ASSUME NEW t, row[t].status \in {"queued", "claimed", "failed"}, row'[t].status = "canceled",
           row'[t].attempts = row[t].attempts, claims'[t] = claims[t], finisher'[t] = finisher[t]
    PROVE  Moved(t)
BY DEF Moved, Task, Promise!Moves, Promise!Stopped

\* What records a result of the last claim finishes the task.
LEMMA ResultIsAMove ==
    ASSUME NEW t, row[t].status = "claimed", row'[t].status = "completed",
           row'[t].attempts = row[t].attempts, claims'[t] = claims[t], finisher'[t] = claims[t]
    PROVE  Moved(t)
BY DEF Moved, Task, Promise!Moves, Promise!Finished

\* A claim takes the task.
LEMMA ClaimIsAMove ==
    ASSUME NEW t, row[t].status = "queued", row'[t].status = "claimed",
           row'[t].attempts = row[t].attempts + 1, claims'[t] = claims[t] + 1, finisher'[t] = finisher[t]
    PROVE  Moved(t)
BY DEF Moved, Task, Promise!Moves, Promise!Taken

\* Sweeps end claims of rows that are stale, in one statement or several.
LEMMA ReclaimIsAMove ==
    ASSUME NEW t \in Tasks, row[t] \in Row, row[t].status = "claimed", NEW b \in BOOLEAN,
           row'[t] = ReclaimedRow(row[t], b), b => row[t].attempts >= MaxAttempts,
           claims'[t] = claims[t], finisher'[t] = finisher[t]
    PROVE  Moved(t)
<1>1. /\ row'[t].attempts = row[t].attempts
      /\ row'[t].status = IF b THEN "failed" ELSE "queued"
  BY DEF ReclaimedRow, Unclaimed, Row
<1>2. QED
  BY <1>1, EndIsAMove

\* Every step of WorkQueue moves the task of a plain row, or leaves it alone.
LEMMA StepIsAMove ==
    ASSUME IInv, [Next]_vars, NEW t \in Plain
    PROVE  Still(t) \/ Moved(t)
<1>a. /\ t \in Tasks /\ t \notin Upserted
      /\ row \in [Tasks -> Row] /\ finisher \in [Tasks -> Nat] /\ claims \in [Tasks -> Nat] /\ row[t] \in Row
      /\ \A s \in submits : s \in Submit /\ s.lease \in Leases /\ s.lease \in Lease
      /\ \A l \in running : l \in Leases /\ l \in Lease
  BY DEF IInv, TypeOK, Submit, Lease, Leases, Plain
<1>b. \A l \in Leases : l.task = t /\ HeldBy(row[t], l) => l.serial = claims[t]
  BY HolderIsLast
<1>1. ASSUME NEW s \in Tasks, Enqueue(s) PROVE Still(t) \/ Moved(t)
  <2>1. CASE s = t
    BY <1>1, <1>a, <2>1 DEF Enqueue, QueuedRow, AbsentRow, Moved, Task, Promise!Moves,
       Promise!Offered
  <2>2. CASE s # t
    BY <1>1, <1>a, <2>2, SameIsStill DEF Enqueue
  <2>3. QED
    BY <2>1, <2>2
<1>2. ASSUME NEW s \in Tasks, Redispatch(s) PROVE Still(t)
  BY <1>2, <1>a, SameIsStill DEF Redispatch
<1>3. ASSUME NEW s \in Tasks, Cancel(s) \/ Retire(s) PROVE Still(t) \/ Moved(t)
  <2>1. CASE s = t
    <3>1. CASE Cancel(s)
      <4>1. row'[t] = CanceledRow(row[t]) /\ row[t].status \in {"queued", "claimed", "failed"}
        BY <3>1, <1>a, <2>1 DEF Cancel, CanCancel, Row, Statuses
      <4>2. row'[t].status = "canceled" /\ row'[t].attempts = row[t].attempts
        BY <4>1, <1>a DEF CanceledRow, Row
      <4>3. QED
        BY <3>1, <4>1, <4>2, StopIsAMove DEF Cancel
    <3>2. CASE Retire(s)
      <4>1. row'[t] = RetiredRow(row[t]) /\ row[t].status \in {"queued", "claimed"}
        BY <3>2, <1>a, <2>1 DEF Retire, CanRetire
      <4>2. row'[t].status = "canceled" /\ row'[t].attempts = row[t].attempts
        BY <4>1, <1>a DEF RetiredRow, Unclaimed, Row
      <4>3. QED
        BY <3>2, <4>1, <4>2, StopIsAMove DEF Retire
    <3>3. QED
      BY <1>3, <3>1, <3>2
  <2>2. CASE s # t
    BY <1>3, <1>a, <2>2, SameIsStill DEF Cancel, Retire
  <2>3. QED
    BY <2>1, <2>2
<1>4. ASSUME NEW s \in Tasks, NEW u \in Users, Claim(s, u) PROVE Still(t) \/ Moved(t)
  <2>1. CASE s = t
    <3>1. /\ row[t].status = "queued" /\ row'[t].status = "claimed" /\ row'[t].attempts = row[t].attempts + 1
          /\ claims'[t] = claims[t] + 1 /\ finisher'[t] = finisher[t]
      BY <1>4, <1>a, <2>1 DEF Claim, CanClaim, Claimed
    <3>2. QED
      BY <3>1, ClaimIsAMove
  <2>2. CASE s # t
    BY <1>4, <1>a, <2>2, SameIsStill DEF Claim
  <2>3. QED
    BY <2>1, <2>2
<1>5. ASSUME NEW l \in Lease, Heartbeat(l) PROVE Still(t)
  <2>1. /\ row'[t].status = row[t].status /\ row'[t].attempts = row[t].attempts
        /\ claims' = claims /\ finisher' = finisher
    BY <1>5, <1>a DEF Heartbeat, HeartbeatRow, Row
  <2>2. QED
    BY <2>1, SameIsStill
<1>6. ASSUME NEW l \in running, NEW k, BeginSubmit(l, k) \/ Abandon(l) PROVE Still(t)
  BY <1>6, SameIsStill DEF BeginSubmit, Abandon
<1>7. ASSUME NEW l \in running, FinishLossless(l) PROVE Still(t) \/ Moved(t)
  <2>1. CASE l.task = t
    <3>1. /\ row[t].status = "claimed" /\ row'[t].status = "completed" /\ row'[t].attempts = row[t].attempts
          /\ claims' = claims /\ finisher'[t] = claims[t]
      BY <1>7, <1>a, <1>b, <2>1 DEF FinishLossless, HeldBy, CompletedRow, Row
    <3>2. QED
      BY <3>1, ResultIsAMove
  <2>2. CASE l.task # t
    BY <1>7, <1>a, <2>2, SameIsStill DEF FinishLossless, Lease
  <2>3. QED
    BY <2>1, <2>2
<1>8. ASSUME NEW l \in running, Release(l) PROVE Still(t) \/ Moved(t)
  <2>1. CASE l.task = t /\ HeldBy(row[t], l)
    <3>1. /\ row[t].status = "claimed" /\ row'[t].status = "queued" /\ row'[t].attempts = row[t].attempts
          /\ claims' = claims /\ finisher' = finisher
      BY <1>8, <1>a, <2>1 DEF Release, HeldBy, Released, Unclaimed, Row
    <3>2. QED
      BY <3>1, EndIsAMove
  <2>2. CASE ~(l.task = t /\ HeldBy(row[t], l))
    BY <1>8, <1>a, <2>2, SameIsStill DEF Release, Lease
  <2>3. QED
    BY <2>1, <2>2
<1>9. ASSUME NEW s \in submits, EndResult(s) PROVE Still(t) \/ Moved(t)
  <2>1. CASE s.lease.task = t
    <3>1. /\ row[t].status = "claimed" /\ row'[t].status = "completed" /\ row'[t].attempts = row[t].attempts
          /\ claims' = claims /\ finisher'[t] = claims[t]
      BY <1>9, <1>a, <1>b, <2>1 DEF EndResult, HeldBy, CompletedRow, Row
    <3>2. QED
      BY <3>1, ResultIsAMove
  <2>2. CASE s.lease.task # t
    BY <1>9, <1>a, <2>2, SameIsStill DEF EndResult, Lease
  <2>3. QED
    BY <2>1, <2>2
<1>10. ASSUME NEW s \in submits, EndError(s) PROVE Still(t) \/ Moved(t)
  <2>1. CASE s.lease.task = t
    <3>1. ~s.retry => row[t].attempts >= MaxAttempts
      BY <1>10, <1>a, <2>1 DEF EndError, HeldBy, IInv, RetriesDecided
    <3>2. /\ row[t].status = "claimed" /\ row'[t].attempts = row[t].attempts
          /\ row'[t].status = IF s.retry THEN "queued" ELSE "failed"
          /\ claims' = claims /\ finisher' = finisher
      BY <1>10, <1>a, <2>1 DEF EndError, HeldBy, ErrorRow, Unclaimed, Row
    <3>3. QED
      BY <3>1, <3>2, EndIsAMove
  <2>2. CASE s.lease.task # t
    BY <1>10, <1>a, <2>2, SameIsStill DEF EndError, Lease
  <2>3. QED
    BY <2>1, <2>2
<1>11. ASSUME NEW s \in submits, SubmitLost(s) PROVE Still(t)
  BY <1>11, SameIsStill DEF SubmitLost
<1>12. ASSUME NEW w \in Sweepers, SweepStep(w) PROVE Still(t) \/ Moved(t)
  <2>1. CASE SweepRead(w) \/ SweepLost(w)
    BY <2>1, SameIsStill DEF SweepRead, SweepLost
  <2>2. ASSUME NEW b \in BOOLEAN, row' = Reclaimed(w, b), claims' = claims, finisher' = finisher
        PROVE  Still(t) \/ Moved(t)
    <3>1. CASE t \in Reclaimable(w, b)
      <4>1. row[t].status = "claimed" /\ (b => row[t].attempts >= MaxAttempts)
        BY <3>1 DEF Reclaimable, IsStale, Exhausted
      <4>2. row'[t] = ReclaimedRow(row[t], b)
        BY <2>2, <3>1, <1>a DEF Reclaimed
      <4>3. QED
        BY <1>a, <2>2, <4>1, <4>2, ReclaimIsAMove
    <3>2. CASE t \notin Reclaimable(w, b)
      <4>1. row'[t] = row[t]
        BY <2>2, <3>2, <1>a DEF Reclaimed
      <4>2. QED
        BY <2>2, <4>1, SameIsStill
    <3>3. QED
      BY <3>1, <3>2
  <2>3. CASE SweepRequeue(w)
    BY <2>2, <2>3 DEF SweepRequeue
  <2>4. CASE SweepFail(w)
    BY <2>2, <2>4 DEF SweepFail
  <2>5. QED
    BY <1>12, <2>1, <2>3, <2>4 DEF SweepStep
<1>13. CASE ReclaimNow
  <2>1. CASE IsStale(row[t], now - Ttl)
    <3>1. /\ row[t].status = "claimed"
          /\ row'[t] = ReclaimedRow(row[t], row[t].attempts >= MaxAttempts)
          /\ claims' = claims /\ finisher' = finisher
      BY <1>13, <2>1, <1>a DEF ReclaimNow, IsStale
    <3>2. (row[t].attempts >= MaxAttempts) \in BOOLEAN
      OBVIOUS
    <3>3. QED
      BY <1>a, <3>1, <3>2, ReclaimIsAMove
  <2>2. CASE ~IsStale(row[t], now - Ttl)
    BY <1>13, <2>2, <1>a, SameIsStill DEF ReclaimNow
  <2>3. QED
    BY <2>1, <2>2
<1>14. ASSUME NEW k \in Kinds, ResetFailed(k) PROVE Still(t) \/ Moved(t)
  <2>1. CASE Kind[t] = k /\ row[t].status = "failed"
    BY <1>14, <2>1, <1>a DEF ResetFailed, Redispatched, QueuedRow, AbsentRow, Moved, Task,
       Promise!Moves, Promise!Offered
  <2>2. CASE ~(Kind[t] = k /\ row[t].status = "failed")
    BY <1>14, <2>2, <1>a, SameIsStill DEF ResetFailed
  <2>3. QED
    BY <2>1, <2>2
<1>15. ASSUME NEW u \in Users, DeleteUser(u) PROVE Still(t)
  <2>1. /\ row'[t].status = row[t].status /\ row'[t].attempts = row[t].attempts
        /\ claims' = claims /\ finisher' = finisher
    BY <1>15, <1>a DEF DeleteUser, UserDeletedRow, Row
  <2>2. QED
    BY <2>1, SameIsStill
<1>16. CASE Tick \/ UNCHANGED vars
  BY <1>16, SameIsStill DEF Tick, vars
<1>17. QED
  BY <1>a, <1>1, <1>2, <1>3, <1>4, <1>5, <1>6, <1>7, <1>8, <1>9, <1>10, <1>11, <1>12, <1>13,
     <1>14,
     <1>15, <1>16 DEF Next

\* For any rows, users and sweepers the queue keeps what WorkLease promises: the last
\* taker finishes a task, it is given up with its budget spent, and stays finished.
THEOREM QueueKeepsThePromise == Spec => KeepsThePromise
<1> DEFINE abstract == [t \in Plain |-> Task(t)]
<1>1. Init => Promise!Init
  BY DEF Init, Promise!Init, Task, AbsentRow, Plain
<1>2. ASSUME IInv, IInv', [Next]_vars PROVE [Promise!Next]_abstract
  <2>1. \A t \in Plain : abstract'[t] = abstract[t] \/ Promise!Moves(abstract[t], abstract'[t])
    BY <1>2, StepIsAMove DEF Still, Moved
  <2>2. abstract' \in [Plain -> Promise!Task]
    BY <1>2 DEF IInv, TypeOK, Task, Promise!Task, Promise!States, Row, Statuses, Plain
  <2>3. QED
    BY <2>1, <2>2 DEF Promise!Next
<1>3. QED
  BY <1>1, <1>2, Inductive, PTL DEF Spec, KeepsThePromise, Promise!Spec
=============================================================================
