----------------------------- MODULE RecordsProofs -----------------------------
(***************************************************************************)
(* Proofs about the components that keep a record true over several        *)
(* statements: self-update, for any number of updates and releases, the    *)
(* cron schedule, for any number of requests, schedules and deploys, and   *)
(* the metadata sources, for any number of requests, edits and tries.      *)
(***************************************************************************)
EXTENDS MCRecords, FiniteSetTheorems, TLAPS

-----------------------------------------------------------------------------
(* Self-update.                                                            *)

\* The steps of an update, as one statement that each proof goes through.
UpdateSteps(o) ==
    \/ \E v \in Releases : Update!UpdateStarts(o, v)
    \/ Update!acquireUpdateLock(o) \/ Update!UpdateDownloads(o) \/ Update!UpdateReads(o)
    \/ Update!UpdateLooks(o) \/ Update!applyPatch(o) \/ Update!UpdateUploads(o)
    \/ Update!UpdateUploaded(o) \/ Update!UpdateDeploys(o)
    \/ \E ok \in BOOLEAN : Update!UpdateChecks(o, ok) \/ Update!UpdateGoesBack(o, ok) \/ Update!UpdateEnds(o, ok)
    \/ Update!UpdateFails(o) \/ Update!UpdateDies(o)

LEMMA UpdateNext == Update!Next <=> (\E o \in Updates : UpdateSteps(o)) \/ Update!LockExpires
BY DEF Update!Next, UpdateSteps

LEMMA UpdateStart == Update!Init => Update!IInv
<1> SUFFICES ASSUME Update!Init PROVE Update!IInv
  OBVIOUS
<1>1. Update!TypeOK
  BY DEF Update!Init, Update!TypeOK, Update!State, Update!Request, Update!Ended
<1>2. Update!TargetsArePatched /\ Update!DeploysThePatched
  BY DEF Update!Init, Update!TargetsArePatched, Update!DeploysThePatched, Update!At,
     Update!Patched, Update!Deployable
<1>3. Update!PatchesAreRecorded /\ Update!RunnerHoldsTheLock
  BY DEF Update!Init, Update!PatchesAreRecorded, Update!RunnerHoldsTheLock, Update!Running,
     Update!Ended
<1>4. Update!OutcomeIsSomebodys /\ Update!ReportIsItsOwn
  BY RecordsAssumption DEF Update!Init, Update!ReportIsItsOwn, Update!OutcomeIsSomebodys
<1>5. QED
  BY <1>1, <1>2, <1>3, <1>4 DEF Update!IInv

\* The value of each variable, and of the records of who acts.
LEMMA UpdateFacts ==
    ASSUME Update!IInv, NEW o \in Updates
    PROVE  /\ upd \in [Updates -> Update!Request] /\ upd[o] \in Update!Request /\ row \in Update!State
           /\ active \in Updates \cup {First} /\ crons \in BOOLEAN /\ late \in BOOLEAN
           /\ patches \subseteq Releases /\ ran \in [Releases -> Nat]
           /\ Update!ReleaseOf(active) \in Releases \cup {0}
<1>1. Update!TypeOK /\ Update!Deployable(active)
  BY DEF Update!IInv, Update!DeploysThePatched
<1>2. QED
  BY <1>1 DEF Update!TypeOK, Update!Deployable, Update!ReleaseOf

\* An update goes on.
LEMMA UpdateGoes ==
    ASSUME Update!IInv, NEW o \in Updates,
           NEW at \in Update!Ended \cup Update!Patched \cup {"lock", "download", "read", "look", "patch"},
           Update!Goto(o, at)
    PROVE  /\ upd' \in [Updates -> Update!Request]
           /\ upd'[o] = [upd[o] EXCEPT !.at = at] /\ upd'[o].at = at
           /\ upd'[o].target = upd[o].target /\ upd'[o].prev = upd[o].prev
           /\ \A p \in Updates \ {o} : upd'[p] = upd[p]
<1>1. upd \in [Updates -> Update!Request] /\ upd[o] \in Update!Request
  BY UpdateFacts
<1>2. QED
  BY <1>1 DEF Update!Goto, Update!Request

\* The state row is written by its own operation only.
LEMMA UpdateReports ==
    ASSUME Update!IInv, NEW o \in Updates, NEW status \in Update!Busy \cup {"success", "error"},
           NEW version \in Updates \cup {None}, Update!updateState(o, status, version)
    PROVE  /\ row' \in Update!State /\ row'.op = row.op
           /\ row.op # o => row' = row
           /\ row.op = o => /\ row'.status = status /\ ~row'.expired
                            /\ row'.version = IF version = None THEN row.version ELSE version
<1>1. row \in Update!State
  BY UpdateFacts
<1>2. QED
  BY <1>1 DEF Update!updateState, Update!State
\* The types, step by step.
LEMMA UpdateTypes == ASSUME Update!IInv, NEW o \in Updates, UpdateSteps(o) PROVE Update!TypeOK'
<1>f. /\ upd \in [Updates -> Update!Request] /\ upd[o] \in Update!Request /\ row \in Update!State
      /\ active \in Updates \cup {First} /\ crons \in BOOLEAN /\ late \in BOOLEAN
      /\ patches \subseteq Releases /\ ran \in [Releases -> Nat]
      /\ Update!ReleaseOf(active) \in Releases \cup {0}
  BY UpdateFacts
<1>1. ASSUME NEW v \in Releases, Update!UpdateStarts(o, v) PROVE Update!TypeOK'
  BY <1>1, <1>f DEF Update!UpdateStarts, Update!Request, Update!TypeOK
<1>2. ASSUME Update!acquireUpdateLock(o) PROVE Update!TypeOK'
  <2>1. upd' \in [Updates -> Update!Request]
    BY <1>2, UpdateGoes DEF Update!acquireUpdateLock, Update!Ended
  <2>2. upd[o].target \in Releases \cup {None}
    BY <1>f DEF Update!Request
  <2>3. [status |-> "resolving", op |-> o, target |-> upd[o].target, version |-> None, expired |-> FALSE]
          \in Update!State
    BY <2>2 DEF Update!State, Update!Busy
  <2>5. row' \in Update!State
    BY <1>2, <1>f, <2>3 DEF Update!acquireUpdateLock
  <2>4. QED
    BY <1>2, <1>f, <2>1, <2>5 DEF Update!acquireUpdateLock, Update!TypeOK
<1>4. ASSUME Update!UpdateReads(o) PROVE Update!TypeOK'
  <2>1. row' \in Update!State
    BY <1>4, UpdateReports DEF Update!UpdateReads, Update!Busy
  <2>2. [upd[o] EXCEPT !.at = "look", !.prev = active, !.crons = crons] \in Update!Request
    BY <1>f DEF Update!Request
  <2>. upd' \in [Updates -> Update!Request]
    BY <1>4, <1>f, <2>2 DEF Update!UpdateReads
  <2>3. QED
    BY <1>4, <1>f, <2>1 DEF Update!UpdateReads, Update!TypeOK
<1>3. ASSUME Update!UpdateDownloads(o) PROVE Update!TypeOK'
  <2>1. upd' \in [Updates -> Update!Request]
    BY <1>3, UpdateGoes DEF Update!UpdateDownloads, Update!Ended, Update!Patched
  <2>2. row' \in Update!State
    BY <1>3, <1>f, UpdateReports DEF Update!UpdateDownloads, Update!Busy
  <2>3. QED
    BY <1>3, <1>f, <2>1, <2>2 DEF Update!UpdateDownloads, Update!TypeOK
<1>5. ASSUME Update!UpdateLooks(o) PROVE Update!TypeOK'
  <2>1. upd' \in [Updates -> Update!Request]
    BY <1>5, UpdateGoes DEF Update!UpdateLooks, Update!Ended, Update!Patched
  <2>2. row' \in Update!State
    BY <1>5, <1>f, UpdateReports DEF Update!UpdateLooks, Update!Busy
  <2>3. QED
    BY <1>5, <1>f, <2>1, <2>2 DEF Update!UpdateLooks, Update!TypeOK
<1>6. ASSUME Update!applyPatch(o) PROVE Update!TypeOK'
  <2>1. upd' \in [Updates -> Update!Request]
    BY <1>6, UpdateGoes DEF Update!applyPatch, Update!RunPatch, Update!Ended, Update!Patched
  <2>2. row' \in Update!State
    BY <1>6, <1>f, UpdateReports DEF Update!applyPatch, Update!RunPatch, Update!Busy
  <2>3. upd[o].target \in Releases
    BY <1>6, <1>f DEF Update!applyPatch, Update!IInv, Update!TargetsArePatched, Update!At,
       Update!Request
  <2>4. patches' \subseteq Releases /\ ran' \in [Releases -> Nat]
    BY <1>6, <1>f, <2>3 DEF Update!applyPatch, Update!RunPatch
  <2>5. QED
    BY <1>6, <1>f, <2>1, <2>2, <2>4 DEF Update!applyPatch, Update!TypeOK
<1>7. ASSUME Update!UpdateUploads(o) PROVE Update!TypeOK'
  <2>1. upd' \in [Updates -> Update!Request]
    BY <1>7, UpdateGoes DEF Update!UpdateUploads, Update!Ended, Update!Patched
  <2>2. row' \in Update!State
    BY <1>7, <1>f, UpdateReports DEF Update!UpdateUploads, Update!Busy
  <2>3. QED
    BY <1>7, <1>f, <2>1, <2>2 DEF Update!UpdateUploads, Update!TypeOK
<1>8. ASSUME Update!UpdateUploaded(o) PROVE Update!TypeOK'
  <2>1. upd' \in [Updates -> Update!Request]
    BY <1>8, UpdateGoes DEF Update!UpdateUploaded, Update!Ended, Update!Patched
  <2>2. row' \in Update!State
    BY <1>8, <1>f, UpdateReports DEF Update!UpdateUploaded, Update!Busy
  <2>3. QED
    BY <1>8, <1>f, <2>1, <2>2 DEF Update!UpdateUploaded, Update!TypeOK
<1>9. ASSUME Update!UpdateDeploys(o) PROVE Update!TypeOK'
  <2>1. upd' \in [Updates -> Update!Request]
    BY <1>9, UpdateGoes DEF Update!UpdateDeploys, Update!Ended, Update!Patched
  <2>2. row' \in Update!State
    BY <1>9, <1>f, UpdateReports DEF Update!UpdateDeploys, Update!Busy
  <2>3. QED
    BY <1>9, <1>f, <2>1, <2>2 DEF Update!UpdateDeploys, Update!TypeOK
<1>10. ASSUME NEW ok \in BOOLEAN, Update!UpdateChecks(o, ok) PROVE Update!TypeOK'
  <2>1. upd' \in [Updates -> Update!Request]
    BY <1>10, UpdateGoes DEF Update!UpdateChecks, Update!Ended, Update!Patched
  <2>2. row' \in Update!State
    BY <1>10, <1>f, UpdateReports DEF Update!UpdateChecks, Update!Busy
  <2>3. QED
    BY <1>10, <1>f, <2>1, <2>2 DEF Update!UpdateChecks, Update!TypeOK
<1>11. ASSUME NEW ok \in BOOLEAN, Update!UpdateGoesBack(o, ok) PROVE Update!TypeOK'
  <2>1. upd' \in [Updates -> Update!Request]
    BY <1>11, UpdateGoes DEF Update!UpdateGoesBack, Update!Ended
  <2>2. row' \in Update!State
    BY <1>11, UpdateReports DEF Update!UpdateGoesBack
  <2>3. active' \in Updates \cup {First}
    BY <1>11, <1>f DEF Update!UpdateGoesBack, Update!IInv, Update!DeploysThePatched,
       Update!Deployable, Update!At,
       Update!Patched
  <2>4. QED
    BY <1>11, <1>f, <2>1, <2>2, <2>3 DEF Update!UpdateGoesBack, Update!TypeOK
<1>12. ASSUME NEW ok \in BOOLEAN, Update!UpdateEnds(o, ok) PROVE Update!TypeOK'
  <2>1. upd' \in [Updates -> Update!Request]
    BY <1>12, UpdateGoes DEF Update!UpdateEnds, Update!Ended, Update!Patched
  <2>2. row' \in Update!State
    BY <1>12, <1>f, UpdateReports DEF Update!UpdateEnds, Update!Busy
  <2>3. QED
    BY <1>12, <1>f, <2>1, <2>2 DEF Update!UpdateEnds, Update!TypeOK
<1>13. ASSUME Update!UpdateFails(o) PROVE Update!TypeOK'
  <2>1. upd' \in [Updates -> Update!Request]
    BY <1>13, UpdateGoes DEF Update!UpdateFails, Update!Ended, Update!Patched
  <2>2. row' \in Update!State
    BY <1>13, <1>f, UpdateReports DEF Update!UpdateFails, Update!Busy
  <2>3. QED
    BY <1>13, <1>f, <2>1, <2>2 DEF Update!UpdateFails, Update!TypeOK
<1>14. ASSUME Update!UpdateDies(o) PROVE Update!TypeOK'
  <2>1. upd' \in [Updates -> Update!Request]
    BY <1>14, UpdateGoes DEF Update!UpdateDies, Update!Ended, Update!Patched
  <2>2. row' \in Update!State
    BY <1>14, <1>f, UpdateReports DEF Update!UpdateDies, Update!Busy
  <2>3. QED
    BY <1>14, <1>f, <2>1, <2>2 DEF Update!UpdateDies, Update!TypeOK
<1>15. QED
  BY <1>1, <1>2, <1>3, <1>4, <1>5, <1>6, <1>7, <1>8, <1>9, <1>10, <1>11, <1>12, <1>13, <1>14
     DEF UpdateSteps

\* What a step does to the request that takes it, and to what is deployed.
Moves(o) ==
    /\ \A p \in Updates \ {o} : upd'[p] = upd[p]
    /\ \/ upd[o].at = "new" /\ upd'[o].at = "lock" /\ upd'[o].target \in Releases
       \/ upd[o].at # "new" /\ upd'[o].at # "new" /\ upd'[o].target = upd[o].target
    /\ upd'[o].at \in Update!Patched =>
         upd[o].at \in Update!Patched \/ upd'[o].target \in patches'
    /\ upd'[o].at \in Update!Patched \cup {"look", "patch"} =>
         \/ upd[o].at \in Update!Patched \cup {"look", "patch"} /\ upd'[o].prev = upd[o].prev
         \/ upd'[o].prev = active
    /\ active' = active \/ (upd[o].at \in Update!Patched /\ active' \in {o, upd[o].prev})
    /\ patches \subseteq patches' /\ late' = late

LEMMA UpdateMoves == ASSUME Update!IInv, NEW o \in Updates, UpdateSteps(o) PROVE Moves(o)
<1>f. upd \in [Updates -> Update!Request] /\ upd[o] \in Update!Request
  BY UpdateFacts
<1>1. ASSUME NEW v \in Releases, Update!UpdateStarts(o, v) PROVE Moves(o)
  BY <1>1, <1>f DEF Update!UpdateStarts, Update!At, Update!Request, Update!Patched, Moves
<1>4. ASSUME Update!UpdateReads(o) PROVE Moves(o)
  BY <1>4, <1>f DEF Update!UpdateReads, Update!At, Update!Request, Update!Patched, Moves
<1>2. ASSUME Update!acquireUpdateLock(o) PROVE Moves(o)
  BY <1>2, <1>f DEF Update!acquireUpdateLock, Update!Goto, Update!At, Update!Ended,
     Update!Patched, Update!Request, Moves
<1>3. ASSUME Update!UpdateDownloads(o) PROVE Moves(o)
  BY <1>3, <1>f DEF Update!UpdateDownloads, Update!Goto, Update!At, Update!Ended,
     Update!Patched, Update!Request, Moves
<1>5. ASSUME Update!UpdateLooks(o) PROVE Moves(o)
  BY <1>5, <1>f DEF Update!UpdateLooks, Update!Goto, Update!At, Update!Ended,
     Update!Patched, Update!Request, Moves
<1>6. ASSUME Update!applyPatch(o) PROVE Moves(o)
  BY <1>6, <1>f DEF Update!applyPatch, Update!RunPatch, Update!Goto, Update!At,
     Update!Ended, Update!Patched, Update!Request, Moves
<1>7. ASSUME Update!UpdateUploads(o) PROVE Moves(o)
  BY <1>7, <1>f DEF Update!UpdateUploads, Update!Goto, Update!At, Update!Ended,
     Update!Patched, Update!Request, Moves
<1>8. ASSUME Update!UpdateUploaded(o) PROVE Moves(o)
  BY <1>8, <1>f DEF Update!UpdateUploaded, Update!Goto, Update!At, Update!Ended,
     Update!Patched, Update!Request, Moves
<1>9. ASSUME Update!UpdateDeploys(o) PROVE Moves(o)
  BY <1>9, <1>f DEF Update!UpdateDeploys, Update!Goto, Update!At, Update!Ended,
     Update!Patched, Update!Request, Moves
<1>10. ASSUME NEW ok \in BOOLEAN, Update!UpdateChecks(o, ok) PROVE Moves(o)
  BY <1>10, <1>f DEF Update!UpdateChecks, Update!Goto, Update!At, Update!Ended,
     Update!Patched, Update!Request, Moves
<1>11. ASSUME NEW ok \in BOOLEAN, Update!UpdateGoesBack(o, ok) PROVE Moves(o)
  BY <1>11, <1>f DEF Update!UpdateGoesBack, Update!Goto, Update!At, Update!Ended,
     Update!Patched, Update!Request, Moves
<1>12. ASSUME NEW ok \in BOOLEAN, Update!UpdateEnds(o, ok) PROVE Moves(o)
  BY <1>12, <1>f DEF Update!UpdateEnds, Update!Goto, Update!At, Update!Ended,
     Update!Patched, Update!Request, Moves
<1>13. ASSUME Update!UpdateFails(o) PROVE Moves(o)
  BY <1>13, <1>f DEF Update!UpdateFails, Update!Goto, Update!At, Update!Ended,
     Update!Patched, Update!Request, Moves
<1>14. ASSUME Update!UpdateDies(o) PROVE Moves(o)
  BY <1>14, <1>f DEF Update!UpdateDies, Update!Running, Update!Goto, Update!At,
     Update!Ended, Update!Patched, Update!Request, Moves
<1>15. QED
  BY <1>1, <1>2, <1>3, <1>4, <1>5, <1>6, <1>7, <1>8, <1>9, <1>10, <1>11, <1>12, <1>13, <1>14
     DEF UpdateSteps

LEMMA UpdateKeepsPatched ==
    ASSUME Update!IInv, NEW o \in Updates, UpdateSteps(o)
    PROVE  (Update!TargetsArePatched /\ Update!DeploysThePatched)'
<1>1. Moves(o) /\ Update!TargetsArePatched /\ Update!DeploysThePatched /\ patches \subseteq Releases
  BY UpdateMoves, UpdateFacts DEF Update!IInv
<1>2. \A p \in Updates : \/ upd'[p].target = upd[p].target
                         \/ upd[p].target = None /\ upd'[p].target \in Releases
  BY <1>1 DEF Moves, Update!TargetsArePatched, Update!At
<1>3. ASSUME NEW w, Update!Deployable(w) PROVE Update!Deployable(w)'
  BY <1>1, <1>2, <1>3, RecordsAssumption DEF Moves, Update!Deployable
<1>4. Update!TargetsArePatched'
  BY <1>1, RecordsAssumption DEF Moves, Update!TargetsArePatched, Update!At
<1>5. Update!Deployable(active)'
  <2>1. CASE active' = active
    BY <1>1, <1>3, <2>1 DEF Update!DeploysThePatched, Update!Deployable
  <2>2. CASE upd[o].at \in Update!Patched /\ active' = upd[o].prev
    BY <1>1, <1>3, <2>2 DEF Update!DeploysThePatched, Update!Deployable
  <2>3. CASE upd[o].at \in Update!Patched /\ active' = o
    BY <1>1, <1>3, <2>3 DEF Update!TargetsArePatched, Update!Deployable
  <2>4. QED
    BY <1>1, <2>1, <2>2, <2>3 DEF Moves
<1>6. ASSUME NEW p \in Updates, upd'[p].at \in Update!Patched \cup {"look", "patch"}
      PROVE  Update!Deployable(upd[p].prev)'
  BY <1>1, <1>3, <1>6 DEF Moves, Update!DeploysThePatched, Update!Deployable
<1>7. QED
  BY <1>4, <1>5, <1>6 DEF Update!DeploysThePatched

\* A patch runs as it is recorded.
LEMMA UpdateRecords ==
    ASSUME Update!IInv, NEW o \in Updates, UpdateSteps(o) PROVE Update!PatchesAreRecorded'
<1>1. Update!PatchesAreRecorded /\ ran \in [Releases -> Nat]
  BY UpdateFacts DEF Update!IInv
<1>2. CASE ran' = ran /\ patches' = patches
  BY <1>1, <1>2 DEF Update!PatchesAreRecorded
<1>3. CASE Update!applyPatch(o)
  BY <1>1, <1>3 DEF Update!applyPatch, Update!RunPatch, Update!PatchesAreRecorded
<1>4. Update!applyPatch(o) \/ (ran' = ran /\ patches' = patches)
  BY DEF UpdateSteps, Update!UpdateStarts, Update!acquireUpdateLock, Update!UpdateDownloads,
     Update!UpdateReads,
     Update!UpdateLooks, Update!UpdateUploads, Update!UpdateUploaded, Update!UpdateDeploys, Update!UpdateChecks,
     Update!UpdateGoesBack, Update!UpdateEnds, Update!UpdateFails, Update!UpdateDies
<1>5. QED
  BY <1>2, <1>3, <1>4

\* The lock: whoever runs has it, and a free one leaves nobody running.
Locked == Update!RunnerHoldsTheLock /\ Update!OutcomeIsSomebodys /\ Update!ReportIsItsOwn

LEMMA UpdateLocks ==
    ASSUME Update!IInv, NEW o \in Updates, UpdateSteps(o)
    PROVE  Locked'
<1>i. Update!RunnerHoldsTheLock /\ Update!OutcomeIsSomebodys /\ Update!ReportIsItsOwn /\ row \in Update!State /\ late \in BOOLEAN
  BY UpdateFacts DEF Update!IInv
<1>m. Moves(o)
  BY UpdateMoves
\* A row that stays reports what stays.
<1>r. ASSUME row' = row, upd[o].at \notin {"done", "failed"}
      PROVE  (Update!OutcomeIsSomebodys /\ Update!ReportIsItsOwn)'
  <2>1. ASSUME row.status \in {"success", "error"} PROVE row.op \in Updates /\ row.op # o
    BY <1>i, <1>r, <2>1 DEF Update!OutcomeIsSomebodys, Update!ReportIsItsOwn
  <2>2. row.status \in {"success", "error"} => upd'[row.op] = upd[row.op]
    BY <1>m, <2>1 DEF Moves
  <2>3. QED
    BY <1>i, <1>r, <2>2 DEF Update!OutcomeIsSomebodys, Update!ReportIsItsOwn
<1>1. CASE row' = row /\ (Update!Running(o)' => Update!Running(o))
           /\ upd[o].at \notin {"done", "failed"}
  <2>1. \A p \in Updates : Update!Running(p)' => Update!Running(p)
    BY <1>1, <1>m DEF Moves, Update!Running
  <2>2. Update!RunnerHoldsTheLock'
    BY <1>1, <1>i, <1>m, <2>1 DEF Moves, Update!RunnerHoldsTheLock
  <2>3. (Update!OutcomeIsSomebodys /\ Update!ReportIsItsOwn)'
    BY <1>1, <1>r
  <2>4. QED
    BY <2>2, <2>3 DEF Locked
<1>2. CASE Update!acquireUpdateLock(o) /\ Update!LockIsFree
  <2>1. /\ row'.op = o /\ row'.status = "resolving" /\ row'.version = None /\ row'.expired = FALSE
    BY <1>2 DEF Update!acquireUpdateLock
  <2>2. ~late => \A p \in Updates : ~Update!Running(p)
    BY <1>2, <1>i DEF Update!RunnerHoldsTheLock, Update!LockIsFree
  <2>3. QED
    BY <1>m, <2>1, <2>2 DEF Locked, Moves, Update!RunnerHoldsTheLock,
       Update!OutcomeIsSomebodys, Update!ReportIsItsOwn,
       Update!Running, Update!Busy
<1>3. ASSUME NEW status \in Update!Busy \cup {"success", "error"}, NEW version \in {None, o},
             Update!updateState(o, status, version), Update!Running(o),
             status = "success" => upd'[o].at = "done" /\ version = o,
             status = "error" => upd'[o].at = "failed",
             Update!Running(o)' => status \in Update!Busy
      PROVE  Locked'
  <2>1. /\ row'.op = row.op
        /\ row.op # o => row' = row
        /\ row.op = o => /\ row'.status = status /\ ~row'.expired
                         /\ row'.version = IF version = None THEN row.version ELSE version
    BY <1>3, UpdateReports
  <2>2. Update!RunnerHoldsTheLock'
    <3>1. ASSUME ~late, NEW p \in Updates, Update!Running(p)'
          PROVE  row'.op = p /\ row'.status \in Update!Busy /\ ~row'.expired
      <4>1. row.op = o
        BY <1>3, <1>i, <3>1 DEF Update!RunnerHoldsTheLock
      <4>2. p = o
        BY <1>i, <1>m, <3>1, <4>1 DEF Moves, Update!RunnerHoldsTheLock, Update!Running
      <4>3. QED
        BY <1>3, <2>1, <3>1, <4>1, <4>2
    <3>2. QED
      BY <1>i, <1>m, <3>1 DEF Moves, Update!RunnerHoldsTheLock
  <2>3. (Update!OutcomeIsSomebodys /\ Update!ReportIsItsOwn)'
    <3>1. CASE row.op = o
      BY <1>3, <1>i, <2>1, <3>1 DEF Update!OutcomeIsSomebodys, Update!ReportIsItsOwn,
         Update!Busy
    <3>2. CASE row.op # o
      <4>1. upd[o].at \notin {"done", "failed"}
        BY <1>3 DEF Update!Running, Update!Ended
      <4>2. QED
        BY <1>r, <2>1, <3>2, <4>1
    <3>3. QED
      BY <3>1, <3>2
  <2>4. QED
    BY <2>2, <2>3 DEF Locked
<1>4. ASSUME NEW v \in Releases, Update!UpdateStarts(o, v) PROVE Locked'
  <2>1. row' = row /\ (Update!Running(o)' => Update!Running(o)) /\ upd[o].at \notin {"done", "failed"}
    BY <1>4, UpdateFacts DEF Update!UpdateStarts, Update!RunPatch, Update!Goto, Update!At,
       Update!Running, Update!Ended, Update!Request
  <2>2. QED
    BY <1>1, <2>1
<1>5. ASSUME Update!acquireUpdateLock(o), ~Update!LockIsFree PROVE Locked'
  <2>1. row' = row /\ (Update!Running(o)' => Update!Running(o)) /\ upd[o].at \notin {"done", "failed"}
    BY <1>5, UpdateFacts DEF Update!acquireUpdateLock, Update!RunPatch, Update!Goto,
       Update!At, Update!Running, Update!Ended, Update!Request
  <2>2. QED
    BY <1>1, <2>1
<1>6. ASSUME Update!UpdateDownloads(o) PROVE Locked'
  <2>1. /\ Update!updateState(o, "downloading", None) /\ Update!Running(o)
        /\ TRUE
    BY <1>6, UpdateFacts DEF Update!UpdateDownloads, Update!RunPatch, Update!Goto,
       Update!At, Update!Running, Update!Ended, Update!Request
  <2>2. QED
    BY <1>3, <2>1 DEF Update!Busy, Update!Running, Update!Ended
<1>7. ASSUME Update!UpdateReads(o) PROVE Locked'
  <2>1. /\ Update!updateState(o, "patching", None) /\ Update!Running(o)
        /\ TRUE
    BY <1>7, UpdateFacts DEF Update!UpdateReads, Update!RunPatch, Update!Goto, Update!At,
       Update!Running, Update!Ended, Update!Request
  <2>2. QED
    BY <1>3, <2>1 DEF Update!Busy, Update!Running, Update!Ended
<1>8. ASSUME Update!UpdateLooks(o) PROVE Locked'
  <2>1. row' = row /\ (Update!Running(o)' => Update!Running(o)) /\ upd[o].at \notin {"done", "failed"}
    BY <1>8, UpdateFacts DEF Update!UpdateLooks, Update!RunPatch, Update!Goto, Update!At,
       Update!Running, Update!Ended, Update!Request
  <2>2. QED
    BY <1>1, <2>1
<1>9. ASSUME Update!applyPatch(o), upd[o].target \notin patches PROVE Locked'
  <2>1. row' = row /\ (Update!Running(o)' => Update!Running(o)) /\ upd[o].at \notin {"done", "failed"}
    BY <1>9, UpdateFacts DEF Update!applyPatch, Update!RunPatch, Update!Goto, Update!At,
       Update!Running, Update!Ended, Update!Request
  <2>2. QED
    BY <1>1, <2>1
<1>10. ASSUME Update!applyPatch(o), upd[o].target \in patches PROVE Locked'
  <2>1. /\ Update!updateState(o, "error", None) /\ Update!Running(o)
        /\ upd'[o].at = "failed"
    BY <1>10, UpdateFacts DEF Update!applyPatch, Update!RunPatch, Update!Goto, Update!At,
       Update!Running, Update!Ended, Update!Request
  <2>2. QED
    BY <1>3, <2>1 DEF Update!Busy, Update!Running, Update!Ended
<1>11. ASSUME Update!UpdateUploads(o) PROVE Locked'
  <2>1. /\ Update!updateState(o, "uploading", None) /\ Update!Running(o)
        /\ TRUE
    BY <1>11, UpdateFacts DEF Update!UpdateUploads, Update!RunPatch, Update!Goto, Update!At,
       Update!Running, Update!Ended, Update!Request
  <2>2. QED
    BY <1>3, <2>1 DEF Update!Busy, Update!Running, Update!Ended
<1>12. ASSUME Update!UpdateUploaded(o) PROVE Locked'
  <2>1. /\ Update!updateState(o, "deploying", o) /\ Update!Running(o)
        /\ TRUE
    BY <1>12, UpdateFacts DEF Update!UpdateUploaded, Update!RunPatch, Update!Goto,
       Update!At, Update!Running, Update!Ended, Update!Request
  <2>2. QED
    BY <1>3, <2>1 DEF Update!Busy, Update!Running, Update!Ended
<1>13. ASSUME Update!UpdateDeploys(o) PROVE Locked'
  <2>1. row' = row /\ (Update!Running(o)' => Update!Running(o)) /\ upd[o].at \notin {"done", "failed"}
    BY <1>13, UpdateFacts DEF Update!UpdateDeploys, Update!RunPatch, Update!Goto, Update!At,
       Update!Running, Update!Ended, Update!Request
  <2>2. QED
    BY <1>1, <2>1
<1>14. ASSUME NEW ok \in BOOLEAN, Update!UpdateChecks(o, ok) PROVE Locked'
  <2>1. row' = row /\ (Update!Running(o)' => Update!Running(o)) /\ upd[o].at \notin {"done", "failed"}
    BY <1>14, UpdateFacts DEF Update!UpdateChecks, Update!RunPatch, Update!Goto, Update!At,
       Update!Running, Update!Ended, Update!Request
  <2>2. QED
    BY <1>1, <2>1
<1>15. ASSUME NEW ok \in BOOLEAN, Update!UpdateGoesBack(o, ok) PROVE Locked'
  <2>1. /\ Update!updateState(o, "error", o) /\ Update!Running(o)
        /\ upd'[o].at = "failed"
    BY <1>15, UpdateFacts DEF Update!UpdateGoesBack, Update!RunPatch, Update!Goto,
       Update!At, Update!Running, Update!Ended, Update!Request
  <2>2. QED
    BY <1>3, <2>1 DEF Update!Busy, Update!Running, Update!Ended
<1>16. ASSUME NEW ok \in BOOLEAN, Update!UpdateEnds(o, ok) PROVE Locked'
  <2>1. /\ Update!updateState(o, "success", o) /\ Update!Running(o)
        /\ upd'[o].at = "done"
    BY <1>16, UpdateFacts DEF Update!UpdateEnds, Update!RunPatch, Update!Goto, Update!At,
       Update!Running, Update!Ended, Update!Request
  <2>2. QED
    BY <1>3, <2>1 DEF Update!Busy, Update!Running, Update!Ended
<1>17. ASSUME Update!UpdateFails(o), upd[o].at = "deploy" PROVE Locked'
  <2>1. /\ Update!updateState(o, "error", o) /\ Update!Running(o)
        /\ upd'[o].at = "failed"
    BY <1>17, UpdateFacts DEF Update!UpdateFails, Update!RunPatch, Update!Goto, Update!At,
       Update!Running, Update!Ended, Update!Request
  <2>2. QED
    BY <1>3, <2>1 DEF Update!Busy, Update!Running, Update!Ended
<1>18. ASSUME Update!UpdateFails(o), upd[o].at # "deploy" PROVE Locked'
  <2>1. /\ Update!updateState(o, "error", None) /\ Update!Running(o)
        /\ upd'[o].at = "failed"
    BY <1>18, UpdateFacts DEF Update!UpdateFails, Update!RunPatch, Update!Goto, Update!At,
       Update!Running, Update!Ended, Update!Request
  <2>2. QED
    BY <1>3, <2>1 DEF Update!Busy, Update!Running, Update!Ended
<1>19. ASSUME Update!UpdateDies(o) PROVE Locked'
  <2>1. row' = row /\ (Update!Running(o)' => Update!Running(o)) /\ upd[o].at \notin {"done", "failed"}
    BY <1>19, UpdateFacts DEF Update!UpdateDies, Update!RunPatch, Update!Goto, Update!At,
       Update!Running, Update!Ended, Update!Request
  <2>2. QED
    BY <1>1, <2>1
<1>20. QED
  BY <1>2, <1>4, <1>5, <1>6, <1>7, <1>8, <1>9, <1>10, <1>11, <1>12, <1>13, <1>14, <1>15,
     <1>16, <1>17, <1>18, <1>19 DEF UpdateSteps

LEMMA UpdateStepKeeps == ASSUME Update!IInv, NEW o \in Updates, UpdateSteps(o) PROVE Update!IInv'
BY UpdateTypes, UpdateKeepsPatched, UpdateRecords, UpdateLocks DEF Locked, Update!IInv

\* A lock that expires: under who runs, and that is remembered, or under nobody.
LEMMA UpdateExpires == ASSUME Update!IInv, Update!LockExpires PROVE Update!IInv'
<1>1. /\ row' = [row EXCEPT !.expired = TRUE] /\ row \in Update!State /\ row'.op = row.op /\ row'.status = row.status
      /\ row'.version = row.version
      /\ late' = (late \/ Update!Running(row.op)) /\ UNCHANGED <<patches, ran, active, crons, upd>>
  BY DEF Update!LockExpires, Update!IInv, Update!TypeOK, Update!State
<1>2. Update!TypeOK'
  BY <1>1 DEF Update!IInv, Update!TypeOK, Update!State, Update!Running
<1>3. Update!RunnerHoldsTheLock'
  BY <1>1 DEF Update!IInv, Update!RunnerHoldsTheLock, Update!Running
<1>4. (Update!TargetsArePatched /\ Update!DeploysThePatched /\ Update!PatchesAreRecorded
       /\ Update!OutcomeIsSomebodys /\ Update!ReportIsItsOwn)'
  BY <1>1 DEF Update!IInv, Update!TargetsArePatched, Update!DeploysThePatched,
     Update!PatchesAreRecorded,
     Update!OutcomeIsSomebodys, Update!ReportIsItsOwn, Update!Deployable, Update!At
<1>5. QED
  BY <1>2, <1>3, <1>4 DEF Update!IInv

LEMMA UpdateStays == ASSUME Update!IInv, UNCHANGED updateVars PROVE Update!IInv'
BY DEF updateVars, Update!IInv, Update!TypeOK, Update!TargetsArePatched,
   Update!DeploysThePatched,
   Update!PatchesAreRecorded, Update!RunnerHoldsTheLock, Update!OutcomeIsSomebodys, Update!ReportIsItsOwn,
   Update!Deployable, Update!At, Update!Running

\* The cardinality SelfUpdate speaks of is that of FiniteSets.
LEMMA SameCardinality == ASSUME NEW S PROVE Update!Cardinality(S) = Cardinality(S)
BY DEF Cardinality, Update!Cardinality

\* One update runs, patches have run once, and before what is deployed.
LEMMA UpdateSafe == Update!IInv => Update!OneUpdateRuns /\ Update!ReportIsItsOwn /\ Update!PatchedOnceBefore
<1> SUFFICES ASSUME Update!IInv PROVE Update!OneUpdateRuns /\ Update!PatchedOnceBefore
  BY DEF Update!IInv
<1>1. Update!PatchedOnceBefore
  BY DEF Update!IInv, Update!PatchedOnceBefore, Update!PatchesAreRecorded,
     Update!DeploysThePatched, Update!Deployable,
     Update!ReleaseOf
<1>2. ASSUME ~late PROVE Cardinality({o \in Updates : Update!Running(o)}) <= 1
  <2>1. {o \in Updates : Update!Running(o)} \subseteq {row.op}
    BY <1>2 DEF Update!IInv, Update!RunnerHoldsTheLock
  <2>2. IsFiniteSet({row.op}) /\ Cardinality({row.op}) = 1
    BY FS_Singleton
  <2>3. Cardinality({o \in Updates : Update!Running(o)}) <= Cardinality({row.op})
    BY <2>1, <2>2, FS_Subset
  <2>4. QED
    BY <2>2, <2>3
<1>3. Update!OneUpdateRuns
  BY <1>2, SameCardinality DEF Update!OneUpdateRuns
<1>4. QED
  BY <1>1, <1>3

-----------------------------------------------------------------------------
(* The cron schedule.  A request that is alone has the secret there is, so   *)
(* what it reads is the newest record; before it has applied a schedule it   *)
(* moves quietly.                                                           *)

\* A finite set that has not more than one element.
LEMMA AtMostOne ==
    ASSUME NEW S, IsFiniteSet(S), ~(Cardinality(S) > 1), NEW x \in S, NEW y \in S
    PROVE  x = y
<1>1. SUFFICES ASSUME x # y PROVE FALSE
  OBVIOUS
<1>2. IsFiniteSet({x}) /\ Cardinality({x}) = 1
  BY FS_Singleton
<1>3. IsFiniteSet({x} \cup {y}) /\ Cardinality({x} \cup {y}) = 2
  <2>1. Cardinality({x} \cup {y}) = (IF y \in {x} THEN Cardinality({x}) ELSE Cardinality({x}) + 1)
    BY <1>2, FS_AddElement
  <2>2. IsFiniteSet({x} \cup {y})
    BY <1>2, FS_AddElement
  <2>3. QED
    BY <1>1, <1>2, <2>1, <2>2
<1>4. {x} \cup {y} \subseteq S
  OBVIOUS
<1>5. Cardinality({x} \cup {y}) <= Cardinality(S) /\ Cardinality(S) \in Nat
  BY <1>3, <1>4, FS_Subset, FS_CardinalityType
<1>6. QED
  BY <1>3, <1>5

\* What the invariant says of the parts.
LEMMA CronFacts ==
    ASSUME Cron!IInv
    PROVE  /\ live \in Schedules /\ choice \in Schedules \cup {None} /\ build \in 0..MaxDeploys /\ deploys \in 0..MaxDeploys
           /\ build <= deploys
           /\ secret \in Cron!State \cup {None} /\ d1 \in Cron!State \cup {None} /\ sets \in 0..MaxSets
           /\ failed \in [Calls -> Nat] /\ both \in BOOLEAN /\ redeployed \in BOOLEAN
           /\ login \in [Handlers -> Cron!Request]
           /\ \A h \in Handlers : /\ login[h] \in Cron!Request /\ login[h].build \in 0..MaxDeploys
                                  /\ login[h].env \in Cron!State \cup {None} /\ login[h].crons \in Schedules \cup {None}
           /\ \A h \in Handlers : login[h].pc \in {"put", "d1", "secret"} => login[h].crons # None
           /\ \A s \in Cron!State : s.crons \in Schedules /\ s.build \in Nat
<1>1. login \in [Handlers -> Cron!Request]
  BY DEF Cron!IInv, Cron!TypeOK
<1>2. ASSUME NEW h \in Handlers
      PROVE  /\ login[h] \in Cron!Request /\ login[h].build \in 0..MaxDeploys
             /\ login[h].env \in Cron!State \cup {None} /\ login[h].crons \in Schedules \cup {None}
  BY <1>1 DEF Cron!Request
<1>3. \A s \in Cron!State : s.crons \in Schedules /\ s.build \in Nat
  BY DEF Cron!State
<1>4. QED
  BY <1>1, <1>2, <1>3 DEF Cron!IInv, Cron!TypeOK

\* The constants of the cron schedule.
LEMMA CronConstants ==
    /\ Default \in Schedules /\ Cleared \in Schedules /\ Default # Cleared /\ None \notin Schedules
    /\ None \notin Cron!State
BY RecordsAssumption

\* A request that goes to another place.
LEMMA CronGoes ==
    ASSUME Cron!IInv, NEW h \in Handlers, NEW pc \in {"idle", "read", "look", "put", "d1", "secret"}, Cron!Goto(h, pc)
    PROVE  /\ login' \in [Handlers -> Cron!Request] /\ \A g \in Handlers : g # h => login'[g] = login[g]
           /\ login'[h].pc = pc /\ login'[h].crons = login[h].crons /\ login'[h].kind = login[h].kind
           /\ login'[h].env = login[h].env /\ login'[h].build = login[h].build
<1>1. login \in [Handlers -> Cron!Request] /\ login[h] \in Cron!Request
  BY CronFacts
<1>2. [login[h] EXCEPT !.pc = pc] \in Cron!Request
  BY <1>1 DEF Cron!Request
<1>3. login' = [login EXCEPT ![h] = [login[h] EXCEPT !.pc = pc]]
  BY <1>1 DEF Cron!Goto
<1>4. /\ login' \in [Handlers -> Cron!Request] /\ \A g \in Handlers : g # h => login'[g] = login[g]
      /\ login'[h] = [login[h] EXCEPT !.pc = pc]
  BY <1>1, <1>2, <1>3
<1>5. QED
  BY <1>1, <1>4 DEF Cron!Request

\* A request that goes to another place with a schedule to apply.
LEMMA CronApplies ==
    ASSUME Cron!IInv, NEW h \in Handlers, NEW pc \in {"idle", "read", "look", "put", "d1", "secret"},
           NEW s \in Schedules \cup {None}, Cron!Apply(h, pc, s)
    PROVE  /\ login' \in [Handlers -> Cron!Request] /\ \A g \in Handlers : g # h => login'[g] = login[g]
           /\ login'[h].pc = pc /\ login'[h].crons = s /\ login'[h].kind = login[h].kind
           /\ login'[h].env = login[h].env /\ login'[h].build = login[h].build
<1>1. login \in [Handlers -> Cron!Request] /\ login[h] \in Cron!Request
  BY CronFacts
<1>2. [login[h] EXCEPT !.pc = pc, !.crons = s] \in Cron!Request
  BY <1>1 DEF Cron!Request
<1>3. login' = [login EXCEPT ![h] = [login[h] EXCEPT !.pc = pc, !.crons = s]]
  BY <1>1 DEF Cron!Apply
<1>4. /\ login' \in [Handlers -> Cron!Request] /\ \A g \in Handlers : g # h => login'[g] = login[g]
      /\ login'[h] = [login[h] EXCEPT !.pc = pc, !.crons = s]
  BY <1>1, <1>2, <1>3
<1>5. QED
  BY <1>1, <1>4 DEF Cron!Request

\* A request that is over.
LEMMA CronReturns ==
    ASSUME Cron!IInv, NEW h \in Handlers, Cron!Return(h)
    PROVE  /\ login' \in [Handlers -> Cron!Request] /\ \A g \in Handlers : g # h => login'[g] = login[g]
           /\ login'[h].pc = "idle" /\ login'[h].build = 0 /\ login'[h].kind = None
<1>1. login \in [Handlers -> Cron!Request]
  BY CronFacts
<1>2. Cron!Idle \in Cron!Request /\ Cron!Idle.pc = "idle" /\ Cron!Idle.build = 0 /\ Cron!Idle.kind = None
  <2>1. 0 \in 0..MaxDeploys
    BY RecordsAssumption
  <2>2. Cron!Idle \in Cron!Request
    BY <2>1 DEF Cron!Idle, Cron!Request
  <2>3. QED
    BY <2>2 DEF Cron!Idle
<1>3. QED
  BY <1>1, <1>2 DEF Cron!Return

\* A request that begins.
LEMMA CronStarts ==
    ASSUME Cron!IInv, NEW h \in Handlers, NEW kind \in {"set", "ensure", "login"}, NEW pc \in {"read", "look", "put"},
           NEW s \in Schedules \cup {None}, Cron!Start(h, kind, pc, s)
    PROVE  /\ login' \in [Handlers -> Cron!Request] /\ \A g \in Handlers : g # h => login'[g] = login[g]
           /\ login'[h].pc = pc /\ login'[h].crons = s /\ login'[h].kind = kind
           /\ login'[h].env = secret /\ login'[h].build = build /\ login[h].pc = "idle"
<1>1. login \in [Handlers -> Cron!Request] /\ secret \in Cron!State \cup {None} /\ build \in 0..MaxDeploys
  BY CronFacts
<1>2. [pc |-> pc, kind |-> kind, env |-> secret, build |-> build, crons |-> s] \in Cron!Request
  BY <1>1 DEF Cron!Request
<1>3. login' = [login EXCEPT ![h] = [pc |-> pc, kind |-> kind, env |-> secret, build |-> build, crons |-> s]]
  BY DEF Cron!Start
<1>4. /\ login' \in [Handlers -> Cron!Request] /\ \A g \in Handlers : g # h => login'[g] = login[g]
      /\ login'[h] = [pc |-> pc, kind |-> kind, env |-> secret, build |-> build, crons |-> s]
  BY <1>1, <1>2, <1>3
<1>5. QED
  BY <1>4 DEF Cron!Start

LEMMA CallFails ==
    ASSUME Cron!IInv, NEW call, Cron!Fault(call)
    PROVE  /\ call \in Calls /\ failed' \in [Calls -> Nat] /\ failed'[call] # 0
           /\ \A c \in Calls : failed'[c] = 0 => failed[c] = 0
<1>1. call \in Calls /\ failed' = [failed EXCEPT ![call] = @ + 1]
  BY DEF Cron!Fault
<1>2. QED
  BY <1>1, CronFacts

\* The cardinality CronRecovery speaks of is that of FiniteSets.
LEMMA CronCardinality == ASSUME NEW S PROVE Cron!Cardinality(S) = Cardinality(S)
BY DEF Cardinality, Cron!Cardinality

\* Who is alone.
LEMMA CronAlone ==
    ASSUME Cron!IInv, Cron!Watch, ~both'
    PROVE  /\ ~both /\ \A h, g \in Handlers : login'[h].pc # "idle" /\ login'[g].pc # "idle" => h = g
           /\ \A h, g \in Handlers : login[h].pc # "idle" /\ login[g].pc # "idle" => h = g
           /\ \A h \in Handlers : login[h].pc # "idle" => login[h].env = secret
<1>1. ~both /\ ~(Cardinality({h \in Handlers : login'[h].pc # "idle"}) > 1)
  BY CronCardinality, CronFacts DEF Cron!Watch
<1>2. IsFiniteSet({x \in Handlers : login'[x].pc # "idle"})
  BY RecordsAssumption, FS_Subset
<1>3. QED
  BY <1>1, <1>2, AtMostOne DEF Cron!IInv, Cron!OneAtATime, Cron!UnderWay

\* A request moves before it has anything to record, and nothing else changes.
QuietMove(h) ==
    /\ login' \in [Handlers -> Cron!Request] /\ \A g \in Handlers : g # h => login'[g] = login[g]
    /\ live' = live /\ build' = build /\ secret' = secret /\ d1' = d1 /\ choice' = choice
    /\ redeployed' = redeployed /\ deploys' = deploys /\ sets' \in 0..MaxSets
    /\ failed' \in [Calls -> Nat] /\ \A c \in Calls : failed'[c] = 0 => failed[c] = 0
    /\ ~Cron!Recording(h) /\ login'[h].pc # "secret"
    /\ login'[h].pc \in {"put", "d1"} => login'[h].crons # None
    /\ login'[h].pc = "d1" => login'[h].crons = live /\ live # Cleared
    /\ login'[h].pc = "read" => login'[h].kind = "login"
    /\ \/ login'[h].build = 0 /\ login'[h].pc = "idle"
       \/ login'[h].build = build /\ login'[h].env = secret
       \/ login'[h].build = login[h].build /\ login'[h].env = login[h].env /\ Cron!UnderWay(h)

LEMMA QuietMoveKeeps ==
    ASSUME Cron!IInv, Cron!Watch, NEW h \in Handlers, QuietMove(h),
           ~both' /\ Cron!Never({"secret"})' /\ choice \notin {None, Cleared} /\ login'[h].kind = "login" =>
               login'[h].pc # "look" /\ (login'[h].pc = "put" => login'[h].crons = choice)
    PROVE  Cron!IInv'
<1>1. Cron!TypeOK'
  <2>1. both' \in BOOLEAN
    BY CronFacts DEF Cron!Watch
  <2>2. \A g \in Handlers : login'[g].pc \in {"put", "d1", "secret"} => login'[g].crons # None
    BY CronFacts DEF QuietMove
  <2>3. QED
    BY <2>1, <2>2, CronFacts DEF Cron!TypeOK, QuietMove
<1>2. Cron!OneAtATime'
  BY CronAlone DEF Cron!OneAtATime, Cron!UnderWay, QuietMove
<1>3. Cron!BuildsInOrder'
  <2>1. 0 <= build /\ \A g \in Handlers : login[g].build <= build
    BY CronFacts DEF Cron!IInv, Cron!BuildsInOrder
  <2>2. \A g \in Handlers : login'[g].build <= build
    BY <2>1, CronFacts DEF QuietMove
  <2>3. ASSUME ~both', secret # None, NEW g \in Handlers, login'[g].pc # "idle"
        PROVE  secret.build <= login'[g].build
    BY <2>3, CronAlone DEF QuietMove, Cron!IInv, Cron!BuildsInOrder, Cron!UnderWay
  <2>4. QED
    BY <2>2, <2>3 DEF QuietMove, Cron!IInv, Cron!BuildsInOrder, Cron!UnderWay
<1>4. Cron!Never({"secret"})' => Cron!Never({"secret"})
  BY DEF QuietMove, Cron!Never
<1>5. Cron!Never(Calls)' => Cron!Never(Calls)
  BY DEF QuietMove, Cron!Never
<1>6. (\E g \in Handlers : Cron!Recording(g)) => (\E g \in Handlers : Cron!Recording(g)')
  BY DEF QuietMove, Cron!Recording
<1>7. Cron!ChoiceIsKept'
  BY <1>4, <1>6, CronAlone DEF QuietMove, Cron!IInv, Cron!ChoiceIsKept, Cron!Recording
<1>8. Cron!RecordsAreLive'
  <2>1. (\E g \in Handlers : login[g].pc = "secret") => (\E g \in Handlers : login'[g].pc = "secret")
    BY DEF QuietMove, Cron!Recording
  <2>2. QED
    BY <1>5, <1>6, <2>1, CronAlone DEF QuietMove, Cron!IInv, Cron!RecordsAreLive,
       Cron!Recording
<1>9. QED
  BY <1>1, <1>2, <1>3, <1>7, <1>8 DEF Cron!IInv

LEMMA SetCronKeeps ==
    ASSUME Cron!IInv, Cron!Watch, NEW h \in Handlers, NEW s \in Schedules, Cron!SetCron(h, s)
    PROVE  Cron!IInv'
<1>1. Cron!Start(h, "set", "put", s) /\ sets' = sets + 1 /\ sets < MaxSets
  BY DEF Cron!SetCron
<1>2. /\ login' \in [Handlers -> Cron!Request] /\ \A g \in Handlers : g # h => login'[g] = login[g]
      /\ login'[h].pc = "put" /\ login'[h].crons = s /\ login'[h].kind = "set"
      /\ login'[h].env = secret /\ login'[h].build = build /\ login[h].pc = "idle"
  BY <1>1, CronStarts
<1>3. sets' \in 0..MaxSets
  BY <1>1, CronFacts, RecordsAssumption
<1>4. QuietMove(h)
  BY <1>1, <1>2, <1>3, CronFacts, CronConstants DEF QuietMove, Cron!Start, Cron!Recording
<1>5. QED
  BY <1>2, <1>4, QuietMoveKeeps

LEMMA EnsureDefaultKeeps ==
    ASSUME Cron!IInv, Cron!Watch, NEW h \in Handlers, Cron!EnsureDefault(h)
    PROVE  Cron!IInv'
<1>1. Cron!Start(h, "ensure", "look", None) /\ sets' = sets
  BY DEF Cron!EnsureDefault
<1>2. /\ login' \in [Handlers -> Cron!Request] /\ \A g \in Handlers : g # h => login'[g] = login[g]
      /\ login'[h].pc = "look" /\ login'[h].kind = "ensure"
      /\ login'[h].env = secret /\ login'[h].build = build /\ login[h].pc = "idle"
  BY <1>1, CronStarts
<1>3. QuietMove(h)
  BY <1>1, <1>2, CronFacts DEF QuietMove, Cron!Start, Cron!Recording
<1>4. QED
  BY <1>2, <1>3, QuietMoveKeeps

LEMMA LoginKeeps ==
    ASSUME Cron!IInv, Cron!Watch, NEW h \in Handlers, Cron!Login(h)
    PROVE  Cron!IInv'
<1>1. Cron!Start(h, "login", "read", None) /\ sets' = sets
  BY DEF Cron!Login
<1>2. /\ login' \in [Handlers -> Cron!Request] /\ \A g \in Handlers : g # h => login'[g] = login[g]
      /\ login'[h].pc = "read" /\ login'[h].kind = "login"
      /\ login'[h].env = secret /\ login'[h].build = build /\ login[h].pc = "idle"
  BY <1>1, CronStarts
<1>3. QuietMove(h)
  BY <1>1, <1>2, CronFacts DEF QuietMove, Cron!Start, Cron!Recording
<1>4. QED
  BY <1>2, <1>3, QuietMoveKeeps

LEMMA ReadStateKeeps ==
    ASSUME Cron!IInv, Cron!Watch, NEW h \in Handlers, Cron!ReadState(h)
    PROVE  Cron!IInv'
<1>1. /\ login[h].pc = "read" /\ live' = live /\ build' = build /\ secret' = secret /\ d1' = d1 /\ choice' = choice
      /\ redeployed' = redeployed /\ deploys' = deploys /\ sets' = sets
  BY DEF Cron!ReadState
<1>2. PICK stored \in Cron!State \cup {None} : Cron!Recover(h, stored) /\ (login[h].env # None => stored = login[h].env)
  BY CronFacts DEF Cron!ReadState
<1>3. failed' \in [Calls -> Nat] /\ \A c \in Calls : failed'[c] = 0 => failed[c] = 0
  BY CronFacts, CallFails DEF Cron!ReadState, Cron!Works
<1>4. stored # None => Cron!Recovered(stored) \in Schedules /\ (stored.crons # Cleared => Cron!Recovered(stored) = stored.crons)
  BY CronFacts, CronConstants DEF Cron!Recovered
<1>5. /\ login' \in [Handlers -> Cron!Request] /\ \A g \in Handlers : g # h => login'[g] = login[g]
      /\ \/ stored = None /\ login'[h].pc = "look"
         \/ stored # None /\ login'[h].pc = "put" /\ login'[h].crons = Cron!Recovered(stored)
         \/ login'[h].build = 0 /\ login'[h].pc = "idle"
      /\ \/ login'[h].build = 0 /\ login'[h].pc = "idle"
         \/ login'[h].build = login[h].build /\ login'[h].env = login[h].env
  <2>1. CASE stored = None
    BY <1>2, <2>1, CronGoes DEF Cron!Recover
  <2>2. CASE stored # None /\ stored.build = login[h].build
    BY <1>2, <2>2, CronReturns DEF Cron!Recover
  <2>3. CASE stored # None /\ stored.build # login[h].build
    BY <1>2, <1>4, <2>3, CronApplies DEF Cron!Recover
  <2>4. QED
    BY <2>1, <2>2, <2>3
<1>6. QuietMove(h)
  BY <1>1, <1>3, <1>4, <1>5, CronFacts, CronConstants DEF QuietMove, Cron!Recording,
     Cron!UnderWay
<1>7. ASSUME ~both', Cron!Never({"secret"})', choice \notin {None, Cleared}
      PROVE  login'[h].pc # "look" /\ (login'[h].pc = "put" => login'[h].crons = choice)
  <2>1. Cron!Never({"secret"}) /\ ~both /\ login[h].env = secret
    BY <1>1, <1>3, <1>7, CronAlone DEF Cron!Never
  <2>2. secret # None /\ secret.crons = choice
    BY <1>1, <1>7, <2>1, CronAlone DEF Cron!IInv, Cron!ChoiceIsKept, Cron!Recording
  <2>3. QED
    BY <1>2, <1>4, <1>5, <1>7, <2>1, <2>2
<1>8. QED
  BY <1>6, <1>7, QuietMoveKeeps

LEMMA LookKeeps ==
    ASSUME Cron!IInv, Cron!Watch, NEW h \in Handlers, Cron!Look(h)
    PROVE  Cron!IInv'
<1>1. /\ login[h].pc = "look" /\ live' = live /\ build' = build /\ secret' = secret /\ d1' = d1 /\ choice' = choice
      /\ redeployed' = redeployed /\ deploys' = deploys /\ sets' = sets
  BY DEF Cron!Look
<1>2. failed' \in [Calls -> Nat] /\ \A c \in Calls : failed'[c] = 0 => failed[c] = 0
  BY CronFacts, CallFails DEF Cron!Look, Cron!Works
<1>3. /\ login' \in [Handlers -> Cron!Request] /\ \A g \in Handlers : g # h => login'[g] = login[g]
      /\ \/ login'[h].build = 0 /\ login'[h].pc = "idle" /\ login'[h].kind = None
         \/ /\ login'[h].build = login[h].build /\ login'[h].env = login[h].env /\ login'[h].kind = login[h].kind
            /\ \/ login'[h].pc = "put" /\ login'[h].crons = Default
               \/ login'[h].pc = "d1" /\ login'[h].crons = live /\ live # Cleared
  <2>1. CASE Cron!Return(h)
    BY <2>1, CronReturns
  <2>2. CASE Cron!Apply(h, "put", Default)
    BY <2>2, CronConstants, CronApplies
  <2>3. CASE live # Cleared /\ Cron!Apply(h, "d1", live)
    BY <2>3, CronFacts, CronApplies
  <2>4. QED
    BY <2>1, <2>2, <2>3 DEF Cron!Look
<1>4. QuietMove(h)
  BY <1>1, <1>2, <1>3, CronFacts, CronConstants DEF QuietMove, Cron!Recording, Cron!UnderWay
<1>5. ASSUME ~both', Cron!Never({"secret"})', choice \notin {None, Cleared}, login'[h].kind = "login"
      PROVE  login'[h].pc # "look" /\ (login'[h].pc = "put" => login'[h].crons = choice)
  <2>1. Cron!Never({"secret"}) /\ ~both
    BY <1>2, <1>5, CronAlone DEF Cron!Never
  <2>2. login[h].kind # "login"
    BY <1>1, <1>5, <2>1 DEF Cron!IInv, Cron!ChoiceIsKept
  <2>3. None # "login"
    BY RecordsAssumption
  <2>4. QED
    BY <1>3, <1>5, <2>2, <2>3
<1>6. QED
  BY <1>4, <1>5, QuietMoveKeeps

LEMMA PutCronsKeeps ==
    ASSUME Cron!IInv, Cron!Watch, NEW h \in Handlers, Cron!PutCrons(h)
    PROVE  Cron!IInv'
<1>1. /\ login[h].pc = "put" /\ build' = build /\ secret' = secret /\ d1' = d1
      /\ redeployed' = redeployed /\ deploys' = deploys /\ sets' = sets
  BY DEF Cron!PutCrons
<1>2. ASSUME Cron!Return(h), Cron!Fault("put"), live' = live, choice' = choice PROVE Cron!IInv'
  <2>1. QuietMove(h)
    BY <1>1, <1>2, CronReturns, CallFails, CronFacts DEF QuietMove, Cron!Recording
  <2>2. login'[h].pc = "idle"
    BY <1>2, CronReturns
  <2>3. QED
    BY <2>1, <2>2, QuietMoveKeeps
<1>3. ASSUME live' = login[h].crons, choice' = IF login[h].kind = "login" THEN choice ELSE login[h].crons,
             Cron!Goto(h, "d1"), failed' = failed
      PROVE  Cron!IInv'
  <2>1. /\ login' \in [Handlers -> Cron!Request] /\ \A g \in Handlers : g # h => login'[g] = login[g]
        /\ login'[h].pc = "d1" /\ login'[h].crons = login[h].crons /\ login'[h].kind = login[h].kind
        /\ login'[h].env = login[h].env /\ login'[h].build = login[h].build
    BY <1>3, CronGoes
  <2>2. login[h].crons \in Schedules
    BY <1>1, CronFacts
  <2>3. Cron!TypeOK'
    <3>1. both' \in BOOLEAN
      BY CronFacts DEF Cron!Watch
    <3>2. \A g \in Handlers : login'[g].pc \in {"put", "d1", "secret"} => login'[g].crons # None
      BY <2>1, <2>2, CronFacts, CronConstants
    <3>3. choice' \in Schedules \cup {None}
      BY <1>3, <2>2, CronFacts
    <3>4. QED
      BY <1>1, <1>3, <2>1, <2>2, <3>1, <3>2, <3>3, CronFacts DEF Cron!TypeOK
  <2>4. Cron!OneAtATime'
    BY <1>1, <2>1, CronAlone DEF Cron!OneAtATime, Cron!UnderWay
  <2>5. Cron!BuildsInOrder'
    BY <1>1, <2>1, CronAlone DEF Cron!IInv, Cron!BuildsInOrder, Cron!UnderWay
  <2>6. Cron!ChoiceIsKept'
    <3> SUFFICES ASSUME ~both', Cron!Never({"secret"})', choice' \notin {None, Cleared}
                 PROVE  /\ live' \in {Cleared, choice'} /\ \E g \in Handlers : Cron!Recording(g)'
                        /\ \A g \in Handlers : Cron!Recording(g)' => login'[g].crons = choice'
                        /\ \A g \in Handlers : login'[g].kind = "login" /\ g = h => login'[g].pc = "d1"
                        /\ \A g \in Handlers : login'[g].pc \notin {"read", "look", "put"}
      BY <1>1, <2>1, CronAlone DEF Cron!ChoiceIsKept
    <3>1. Cron!Never({"secret"}) /\ ~both
      BY <1>3, CronAlone DEF Cron!Never
    <3>2. choice' = login[h].crons
      BY <1>1, <1>3, <3>1 DEF Cron!IInv, Cron!ChoiceIsKept
    <3>3. \A g \in Handlers : g # h => login'[g].pc = "idle"
      BY <1>1, <2>1, CronAlone
    <3>4. QED
      BY <1>3, <2>1, <3>2, <3>3 DEF Cron!Recording
  <2>7. Cron!RecordsAreLive'
    <3> SUFFICES ASSUME ~both', ~redeployed', Cron!Never(Calls)'
                 PROVE  /\ secret' = None /\ d1' # None => \E g \in Handlers : login'[g].pc = "secret"
                        /\ \E g \in Handlers : Cron!Recording(g)'
                        /\ \A g \in Handlers : Cron!Recording(g)' /\ login'[g].build = build' => live' = login'[g].crons
      BY DEF Cron!RecordsAreLive
    <3>1. Cron!Never(Calls) /\ ~both /\ ~redeployed
      BY <1>1, <1>3, CronAlone DEF Cron!Never
    <3>2. \A g \in Handlers : g # h => login'[g].pc = "idle" /\ login[g].pc = "idle"
      BY <1>1, <2>1, CronAlone
    <3>3. secret = None => d1 = None
      BY <1>1, <3>1, <3>2 DEF Cron!IInv, Cron!RecordsAreLive
    <3>4. QED
      BY <1>1, <1>3, <2>1, <3>2, <3>3 DEF Cron!Recording
  <2>8. QED
    BY <2>3, <2>4, <2>5, <2>6, <2>7 DEF Cron!IInv
<1>4. QED
  BY <1>2, <1>3 DEF Cron!PutCrons, Cron!Works

LEMMA PersistD1Keeps ==
    ASSUME Cron!IInv, Cron!Watch, NEW h \in Handlers, Cron!PersistD1(h)
    PROVE  Cron!IInv'
<1>1. /\ login[h].pc = "d1" /\ build' = build /\ secret' = secret /\ live' = live /\ choice' = choice
      /\ redeployed' = redeployed /\ deploys' = deploys /\ sets' = sets /\ Cron!Goto(h, "secret")
  BY DEF Cron!PersistD1
<1>2. /\ login' \in [Handlers -> Cron!Request] /\ \A g \in Handlers : g # h => login'[g] = login[g]
      /\ login'[h].pc = "secret" /\ login'[h].crons = login[h].crons /\ login'[h].kind = login[h].kind
      /\ login'[h].env = login[h].env /\ login'[h].build = login[h].build
  BY <1>1, CronGoes
<1>3. failed' \in [Calls -> Nat] /\ \A c \in Calls : failed'[c] = 0 => failed[c] = 0
  BY CronFacts, CallFails DEF Cron!PersistD1, Cron!Works
<1>4. Cron!TypeOK'
  <2>1. both' \in BOOLEAN
    BY CronFacts DEF Cron!Watch
  <2>2. \A g \in Handlers : login'[g].pc \in {"put", "d1", "secret"} => login'[g].crons # None
    BY <1>1, <1>2, CronFacts
  <2>3. Cron!Record(h) \in Cron!State
    BY <1>1, CronFacts DEF Cron!Record, Cron!State
  <2>4. d1' \in Cron!State \cup {None}
    BY <2>3, CronFacts DEF Cron!PersistD1
  <2>5. QED
    BY <1>1, <1>2, <1>3, <2>1, <2>2, <2>4, CronFacts DEF Cron!TypeOK
<1>5. Cron!OneAtATime'
  BY <1>1, <1>2, CronAlone DEF Cron!OneAtATime, Cron!UnderWay
<1>6. Cron!BuildsInOrder'
  BY <1>1, <1>2, CronAlone DEF Cron!IInv, Cron!BuildsInOrder, Cron!UnderWay
<1>7. Cron!ChoiceIsKept'
  <2>1. Cron!Never({"secret"})' => Cron!Never({"secret"})
    BY <1>3 DEF Cron!Never
  <2>2. Cron!Recording(h) /\ Cron!Recording(h)' /\ \A g \in Handlers : Cron!Recording(g)' => Cron!Recording(g)
    BY <1>1, <1>2 DEF Cron!Recording
  <2>3. QED
    BY <1>1, <1>2, <2>1, <2>2, CronAlone DEF Cron!IInv, Cron!ChoiceIsKept
<1>8. Cron!RecordsAreLive'
  <2>1. Cron!Never(Calls)' => Cron!Never(Calls)
    BY <1>3 DEF Cron!Never
  <2>2. Cron!Recording(h) /\ Cron!Recording(h)' /\ \A g \in Handlers : Cron!Recording(g)' => Cron!Recording(g)
    BY <1>1, <1>2 DEF Cron!Recording
  <2>3. QED
    BY <1>1, <1>2, <2>1, <2>2, CronAlone DEF Cron!IInv, Cron!RecordsAreLive
<1>9. QED
  BY <1>4, <1>5, <1>6, <1>7, <1>8 DEF Cron!IInv

LEMMA PersistSecretKeeps ==
    ASSUME Cron!IInv, Cron!Watch, NEW h \in Handlers, Cron!PersistSecret(h)
    PROVE  Cron!IInv'
<1>1. /\ login[h].pc = "secret" /\ build' = build /\ d1' = d1 /\ live' = live /\ choice' = choice
      /\ redeployed' = redeployed /\ deploys' = deploys /\ sets' = sets /\ Cron!Return(h)
      /\ login[h].crons \in Schedules
  BY CronFacts DEF Cron!PersistSecret
<1>2. /\ login' \in [Handlers -> Cron!Request] /\ \A g \in Handlers : g # h => login'[g] = login[g]
      /\ login'[h].pc = "idle" /\ login'[h].build = 0 /\ login'[h].kind = None
  BY <1>1, CronReturns
<1>3. /\ Cron!Record(h) \in Cron!State /\ Cron!Record(h) # None
      /\ Cron!Record(h).crons = login[h].crons /\ Cron!Record(h).build = login[h].build
  <2>1. Cron!Record(h) \in Cron!State
    BY <1>1, CronFacts DEF Cron!Record, Cron!State
  <2>2. QED
    BY <2>1, CronConstants DEF Cron!Record
<1>4. /\ failed' \in [Calls -> Nat] /\ \A c \in Calls : failed'[c] = 0 => failed[c] = 0
      /\ \/ secret' = Cron!Record(h)
         \/ secret' = secret /\ "secret" \in Calls /\ failed'["secret"] # 0
  BY CronFacts, CallFails DEF Cron!PersistSecret, Cron!Works
<1>5. Cron!TypeOK'
  <2>1. both' \in BOOLEAN
    BY CronFacts DEF Cron!Watch
  <2>2. \A g \in Handlers : login'[g].pc \in {"put", "d1", "secret"} => login'[g].crons # None
    BY <1>1, <1>2, CronFacts
  <2>3. secret' \in Cron!State \cup {None}
    BY <1>3, <1>4, CronFacts
  <2>4. QED
    BY <1>1, <1>2, <1>4, <2>1, <2>2, <2>3, CronFacts DEF Cron!TypeOK
<1>6. ASSUME ~both' PROVE \A g \in Handlers : login'[g].pc = "idle" /\ (g # h => login[g].pc = "idle")
  BY <1>1, <1>2, <1>6, CronAlone
<1>7. Cron!OneAtATime'
  BY <1>6 DEF Cron!OneAtATime, Cron!UnderWay
<1>8. Cron!BuildsInOrder'
  <2>1. secret' # None => secret'.build <= build
    BY <1>3, <1>4 DEF Cron!IInv, Cron!BuildsInOrder
  <2>2. \A g \in Handlers : login'[g].build <= build
    BY <1>2, CronFacts DEF Cron!IInv, Cron!BuildsInOrder
  <2>3. QED
    BY <1>1, <1>6, <2>1, <2>2 DEF Cron!BuildsInOrder, Cron!UnderWay
<1>9. Cron!ChoiceIsKept'
  <2> SUFFICES ASSUME ~both', Cron!Never({"secret"})', choice \notin {None, Cleared}
               PROVE  live \in {Cleared, choice} /\ secret' # None /\ secret'.crons = choice
    BY <1>1, <1>2, <1>6 DEF Cron!ChoiceIsKept, Cron!Recording
  <2>1. Cron!Never({"secret"}) /\ ~both /\ secret' = Cron!Record(h)
    BY <1>4, CronAlone DEF Cron!Never
  <2>2. live \in {Cleared, choice} /\ login[h].crons = choice
    BY <1>1, <2>1 DEF Cron!IInv, Cron!ChoiceIsKept, Cron!Recording
  <2>3. QED
    BY <1>3, <2>1, <2>2
<1>10. Cron!RecordsAreLive'
  <2> SUFFICES ASSUME ~both', ~redeployed, Cron!Never(Calls)'
               PROVE  secret' # None /\ (secret'.build = build => live = secret'.crons)
    BY <1>1, <1>6 DEF Cron!RecordsAreLive, Cron!Recording
  <2>1. Cron!Never(Calls) /\ ~both /\ secret' = Cron!Record(h)
    BY <1>4, CronAlone DEF Cron!Never
  <2>2. login[h].build = build => live = login[h].crons
    BY <1>1, <2>1 DEF Cron!IInv, Cron!RecordsAreLive, Cron!Recording
  <2>3. QED
    BY <1>3, <2>1, <2>2
<1>11. QED
  BY <1>5, <1>7, <1>8, <1>9, <1>10 DEF Cron!IInv

LEMMA DeployKeeps ==
    ASSUME Cron!IInv, Cron!Watch, Cron!Deploy
    PROVE  Cron!IInv'
<1>1. /\ secret' = secret /\ d1' = d1 /\ login' = login /\ sets' = sets /\ failed' = failed /\ choice' = choice
      /\ live' = Cleared /\ deploys' = deploys + 1 /\ deploys < MaxDeploys
      /\ \/ build' = build + 1 /\ redeployed' = redeployed
         \/ build' = build /\ redeployed' = TRUE
  BY DEF Cron!Deploy
<1>2. /\ build' \in 0..MaxDeploys /\ deploys' \in 0..MaxDeploys /\ build' <= deploys' /\ build <= build'
  <2>1. build \in 0..MaxDeploys /\ deploys \in 0..MaxDeploys /\ build <= deploys /\ MaxDeploys \in Nat
    BY CronFacts, RecordsAssumption
  <2>2. QED
    BY <1>1, <2>1
<1>3. Cron!TypeOK'
  <2>1. both' \in BOOLEAN /\ redeployed' \in BOOLEAN
    BY <1>1, CronFacts DEF Cron!Watch
  <2>2. QED
    BY <1>1, <1>2, <2>1, CronFacts, CronConstants DEF Cron!TypeOK
<1>4. Cron!OneAtATime'
  BY <1>1, CronAlone DEF Cron!OneAtATime, Cron!UnderWay
<1>5. Cron!BuildsInOrder'
  <2>1. /\ build \in Int /\ build' \in Int /\ \A h \in Handlers : login[h].build \in Int
        /\ secret # None => secret.build \in Int
    BY <1>2, CronFacts
  <2>2. (secret # None => secret.build <= build) /\ \A h \in Handlers : login[h].build <= build
    BY DEF Cron!IInv, Cron!BuildsInOrder
  <2>3. (secret # None => secret.build <= build') /\ \A h \in Handlers : login[h].build <= build'
    BY <1>2, <2>1, <2>2
  <2>4. QED
    BY <1>1, <2>3, CronAlone DEF Cron!IInv, Cron!BuildsInOrder, Cron!UnderWay
<1>6. Cron!ChoiceIsKept'
  BY <1>1, CronAlone DEF Cron!IInv, Cron!ChoiceIsKept, Cron!Never, Cron!Recording
<1>7. Cron!RecordsAreLive'
  <2> SUFFICES ASSUME ~both', ~redeployed', Cron!Never(Calls)'
               PROVE  /\ secret = None /\ d1 # None => \E h \in Handlers : login[h].pc = "secret"
                      /\ secret # None => secret.build # build'
                      /\ \A h \in Handlers : login[h].build # build'
    BY <1>1 DEF Cron!RecordsAreLive, Cron!Recording
  <2>1. Cron!Never(Calls) /\ ~both /\ ~redeployed /\ build' = build + 1
    BY <1>1, CronAlone, CronFacts DEF Cron!Never
  <2>2. /\ secret # None => secret.build \in Nat /\ secret.build <= build
        /\ \A h \in Handlers : login[h].build \in 0..MaxDeploys /\ login[h].build <= build
    BY CronFacts DEF Cron!IInv, Cron!BuildsInOrder
  <2>3. QED
    BY <2>1, <2>2, CronFacts DEF Cron!IInv, Cron!RecordsAreLive
<1>8. QED
  BY <1>3, <1>4, <1>5, <1>6, <1>7 DEF Cron!IInv

LEMMA CronStart == Cron!Init => Cron!IInv
<1> SUFFICES ASSUME Cron!Init PROVE Cron!IInv
  OBVIOUS
<1>1. /\ live = Cleared /\ build = 0 /\ secret = None /\ d1 = None /\ deploys = 0 /\ sets = 0 /\ choice = None
      /\ failed = [call \in Calls |-> 0] /\ both = FALSE /\ redeployed = FALSE /\ login = [h \in Handlers |-> Cron!Idle]
  BY DEF Cron!Init
<1>2. 0 \in 0..MaxDeploys /\ 0 \in 0..MaxSets
  BY RecordsAssumption
<1>3. Cron!Idle \in Cron!Request /\ Cron!Idle.pc = "idle" /\ Cron!Idle.build = 0 /\ Cron!Idle.kind = None
  <2>1. Cron!Idle \in Cron!Request
    BY <1>2 DEF Cron!Idle, Cron!Request
  <2>2. QED
    BY <2>1 DEF Cron!Idle
<1>4. login \in [Handlers -> Cron!Request] /\ \A h \in Handlers : login[h].pc = "idle" /\ login[h].build = 0
  BY <1>1, <1>3
<1>5. failed \in [Calls -> Nat]
  BY <1>1
<1>6. Cron!TypeOK
  <2>1. \A h \in Handlers : login[h].pc \in {"put", "d1", "secret"} => login[h].crons # None
    BY <1>4
  <2>2. live \in Schedules /\ choice \in Schedules \cup {None} /\ secret \in Cron!State \cup {None} /\ d1 \in Cron!State \cup {None}
    BY <1>1, CronConstants
  <2>3. build \in 0..MaxDeploys /\ build <= deploys /\ deploys \in 0..MaxDeploys /\ sets \in 0..MaxSets
    BY <1>1, <1>2
  <2>4. both \in BOOLEAN /\ redeployed \in BOOLEAN
    BY <1>1
  <2>5. QED
    BY <1>4, <1>5, <2>1, <2>2, <2>3, <2>4 DEF Cron!TypeOK
<1>7. Cron!OneAtATime /\ Cron!ChoiceIsKept /\ Cron!RecordsAreLive
  BY <1>1, <1>4 DEF Cron!OneAtATime, Cron!ChoiceIsKept, Cron!RecordsAreLive, Cron!UnderWay,
     Cron!Recording
<1>8. Cron!BuildsInOrder
  BY <1>1, <1>4 DEF Cron!BuildsInOrder, Cron!UnderWay
<1>9. QED
  BY <1>6, <1>7, <1>8 DEF Cron!IInv

LEMMA CronStepKeeps == Cron!IInv /\ Cron!Next => Cron!IInv'
<1> SUFFICES ASSUME Cron!IInv, Cron!Next PROVE Cron!IInv'
  OBVIOUS
<1>1. Cron!Watch
  BY DEF Cron!Next
<1>2. CASE Cron!Deploy
  BY <1>1, <1>2, DeployKeeps
<1>3. ASSUME NEW h \in Handlers, NEW s \in Schedules, Cron!SetCron(h, s) PROVE Cron!IInv'
  BY <1>1, <1>3, SetCronKeeps
<1>4. ASSUME NEW h \in Handlers, Cron!EnsureDefault(h) \/ Cron!Login(h) PROVE Cron!IInv'
  BY <1>1, <1>4, EnsureDefaultKeeps, LoginKeeps
<1>5. ASSUME NEW h \in Handlers, Cron!Step(h) PROVE Cron!IInv'
  BY <1>1, <1>5, ReadStateKeeps, LookKeeps, PutCronsKeeps, PersistD1Keeps,
     PersistSecretKeeps DEF Cron!Step
<1>6. QED
  BY <1>2, <1>3, <1>4, <1>5 DEF Cron!Next

LEMMA CronStays == Cron!IInv /\ UNCHANGED cronVars => Cron!IInv'
<1> SUFFICES ASSUME Cron!IInv, UNCHANGED cronVars PROVE Cron!IInv'
  OBVIOUS
<1>1. /\ live' = live /\ build' = build /\ secret' = secret /\ d1' = d1 /\ login' = login /\ deploys' = deploys
      /\ sets' = sets /\ failed' = failed /\ choice' = choice /\ both' = both /\ redeployed' = redeployed
  BY DEF cronVars
<1>2. Cron!TypeOK' /\ Cron!OneAtATime' /\ Cron!BuildsInOrder'
  BY <1>1 DEF Cron!IInv, Cron!TypeOK, Cron!OneAtATime, Cron!BuildsInOrder, Cron!UnderWay
<1>3. Cron!ChoiceIsKept' /\ Cron!RecordsAreLive'
  BY <1>1 DEF Cron!IInv, Cron!ChoiceIsKept, Cron!RecordsAreLive, Cron!Recording, Cron!Never
<1>4. QED
  BY <1>2, <1>3 DEF Cron!IInv

-----------------------------------------------------------------------------
(* What the metadata sources know.  The invariant is proved action by        *)
(* action; most actions move one request and leave the others as they were.  *)

\* The types of what a step may look at.
LEMMA RetrievalFacts ==
    ASSUME Retrieval!IInv
    PROVE  /\ song \in Retrieval!Song /\ review \in Retrieval!Row /\ applies \in [Requests -> Retrieval!Apply]
           /\ song.tags \in Retrieval!Tags /\ song.source \in 0..MaxEdits /\ song.cover \in Retrieval!Picture
           /\ song.edits \in 0..MaxEdits /\ song.found \in BOOLEAN
           /\ review.status \in Retrieval!Status /\ review.payload \in Retrieval!Payload \cup {None}
           /\ review.try \in 0..MaxTries /\ review.result \in Retrieval!Result
           /\ review.result.try \in 0..MaxTries /\ review.result.cover \in BOOLEAN
           /\ review.note \in Retrieval!Message /\ review.note.stage \in Retrieval!Stage
           /\ review.payload # None => review.payload.source \in 0..MaxEdits
           /\ object \in BOOLEAN /\ mishaps \in 0..MaxFaults /\ mixed \in BOOLEAN
<1>1. song \in Retrieval!Song /\ review \in Retrieval!Row /\ applies \in [Requests -> Retrieval!Apply]
      /\ object \in BOOLEAN /\ mishaps \in 0..MaxFaults /\ mixed \in BOOLEAN
  BY DEF Retrieval!IInv, Retrieval!TypeOK
<1>2. /\ review.status \in Retrieval!Status /\ review.payload \in Retrieval!Payload \cup {None}
      /\ review.try \in 0..MaxTries /\ review.result \in Retrieval!Result /\ review.note \in Retrieval!Message
  BY <1>1 DEF Retrieval!Row
<1>3. review.result.try \in 0..MaxTries /\ review.result.cover \in BOOLEAN
  BY <1>2 DEF Retrieval!Result
<1>4. review.note.stage \in Retrieval!Stage
  BY <1>2 DEF Retrieval!Message
<1>5. review.payload # None => review.payload.source \in 0..MaxEdits
  BY <1>2 DEF Retrieval!Payload
<1>6. /\ song.tags \in Retrieval!Tags /\ song.source \in 0..MaxEdits /\ song.cover \in Retrieval!Picture
      /\ song.edits \in 0..MaxEdits /\ song.found \in BOOLEAN
  BY <1>1 DEF Retrieval!Song
<1>7. QED
  BY <1>1, <1>2, <1>3, <1>4, <1>5, <1>6

LEMMA RequestFacts ==
    ASSUME Retrieval!IInv, NEW r \in Requests
    PROVE  /\ applies[r] \in Retrieval!Apply /\ applies[r].at \in Retrieval!Place
           /\ applies[r].result \in Retrieval!Result
           /\ applies[r].payload \in Retrieval!Payload \cup {None} /\ applies[r].stage \in Retrieval!Stage
           /\ applies[r].refreshed \in Retrieval!Payload \cup {None}
           /\ applies[r].fresh \in BOOLEAN /\ applies[r].retry \in BOOLEAN
           /\ applies[r].result.try \in 0..MaxTries /\ applies[r].result.cover \in BOOLEAN
           /\ applies[r].result.choice \in BOOLEAN
           /\ applies[r].payload # None => applies[r].payload.source \in 0..MaxEdits
           /\ applies[r].refreshed # None => applies[r].refreshed.source \in 0..MaxEdits
<1>1. applies[r] \in Retrieval!Apply
  BY RetrievalFacts
<1>2. /\ applies[r].result \in Retrieval!Result /\ applies[r].at \in Retrieval!Place
      /\ applies[r].payload \in Retrieval!Payload \cup {None} /\ applies[r].stage \in Retrieval!Stage
      /\ applies[r].refreshed \in Retrieval!Payload \cup {None}
      /\ applies[r].fresh \in BOOLEAN /\ applies[r].retry \in BOOLEAN
  BY <1>1 DEF Retrieval!Apply
<1>3. /\ applies[r].result.try \in 0..MaxTries /\ applies[r].result.cover \in BOOLEAN
      /\ applies[r].result.choice \in BOOLEAN
  BY <1>2 DEF Retrieval!Result
<1>4. /\ applies[r].payload # None => applies[r].payload.source \in 0..MaxEdits
      /\ applies[r].refreshed # None => applies[r].refreshed.source \in 0..MaxEdits
  BY <1>2 DEF Retrieval!Payload
<1>5. QED
  BY <1>1, <1>2, <1>3, <1>4

\* What the steps write is of its type.
LEMMA Written ==
    ASSUME Retrieval!IInv
    PROVE  /\ Retrieval!Snapshot \in Retrieval!Payload /\ Retrieval!Nothing \in Retrieval!Result
           /\ Retrieval!Off \in Retrieval!Apply
           /\ \A kind \in Retrieval!Free \cup {"pending", "applying", "catalog"}, stage \in Retrieval!Stage,
                 by \in Requests \cup {None} : Retrieval!Note(kind, by, stage) \in Retrieval!Message
           /\ \A kind \in Retrieval!Free \cup {"pending", "applying", "catalog"} :
                 Retrieval!Plain(kind) \in Retrieval!Message
<1>1. Retrieval!Snapshot \in Retrieval!Payload
  BY RetrievalFacts DEF Retrieval!Snapshot, Retrieval!Payload
<1>2. Retrieval!Nothing \in Retrieval!Result
  BY RecordsAssumption DEF Retrieval!Nothing, Retrieval!Result
<1>3. Retrieval!Off \in Retrieval!Apply
  BY <1>2 DEF Retrieval!Off, Retrieval!Apply, Retrieval!Place, Retrieval!Stage
<1>4. None \in Retrieval!Stage
  BY DEF Retrieval!Stage
<1>5. QED
  BY <1>1, <1>2, <1>3, <1>4 DEF Retrieval!Note, Retrieval!Plain, Retrieval!Message


\* The names of places and stages are of their types.
LEMMA Named ==
    /\ \A at \in Retrieval!Acquired \cup {"new", "review", "start", "end", "dead"} : at \in Retrieval!Place
    /\ \A at \in {"look", "batch", "cover", "put", "link", "unput", "receipt", "settle"} : at \in Retrieval!Acquired
    /\ {"new", "review", "start", "end", "dead"} \cap Retrieval!Acquired = {}
    /\ None \in Retrieval!Stage /\ "cover" \in Retrieval!Stage /\ "done" \in Retrieval!Stage
    /\ None \in Retrieval!Picture /\ "own" \in Retrieval!Picture /\ "found" \in Retrieval!Picture
    /\ "queued" \in Retrieval!Status /\ "claimed" \in Retrieval!Status
    /\ "completed" \in Retrieval!Status /\ "failed" \in Retrieval!Status
    /\ None \notin Retrieval!Payload
BY RecordsAssumption DEF Retrieval!Place, Retrieval!Acquired, Retrieval!Stage,
   Retrieval!Picture, Retrieval!Status



\* A step after which requests are of one result: they were before.
LEMMA Unmixed ==
    ASSUME Retrieval!IInv, Retrieval!Mixes, ~mixed'
    PROVE  /\ ~mixed
           /\ \A q \in Requests : applies'[q].at \in Retrieval!Acquired =>
                 applies'[q].result = review'.result /\ applies'[q].payload = review'.payload
           /\ \A q \in Requests : applies[q].at \in Retrieval!Acquired =>
                 /\ applies[q].result = review.result /\ applies[q].payload = review.payload
                 /\ review.payload # None
           /\ Retrieval!PicturesInOrder /\ Retrieval!ReceiptsAreTrue /\ Retrieval!TriesInOrder
<1>1. ~mixed /\ \A q \in Requests : applies'[q].at \in Retrieval!Acquired => Retrieval!OfTheRow(q)'
  BY RetrievalFacts DEF Retrieval!Mixes
<1>2. /\ \A q \in Requests : applies[q].at \in Retrieval!Acquired => Retrieval!OfTheRow(q) /\ applies[q].payload # None
      /\ Retrieval!PicturesInOrder /\ Retrieval!ReceiptsAreTrue /\ Retrieval!TriesInOrder
  BY <1>1 DEF Retrieval!IInv, Retrieval!PicturesInOrder, Retrieval!TriesInOrder
<1>3. QED
  BY <1>1, <1>2 DEF Retrieval!OfTheRow

\* A request that takes a result takes it whole.
LEMMA TakesWhole ==
    ASSUME Retrieval!IInv, NEW r \in Requests, NEW result \in Retrieval!Result,
           NEW payload \in Retrieval!Payload \cup {None}, NEW at \in Retrieval!Place,
           Retrieval!Takes(r, result, payload, at)
    PROVE  /\ applies' \in [Requests -> Retrieval!Apply]
           /\ \A q \in Requests : q # r => applies'[q] = applies[q]
           /\ applies'[r].at = at /\ applies'[r].result = result /\ applies'[r].payload = payload
           /\ applies'[r].stage = None /\ ~applies'[r].retry /\ applies'[r].refreshed = None
BY RetrievalFacts, Written DEF Retrieval!Takes, Retrieval!Apply, Retrieval!Off

LEMMA EditsKeeps ==
    ASSUME Retrieval!IInv, Retrieval!Mixes, Retrieval!Edits
    PROVE  Retrieval!IInv'
<1>1. song \in Retrieval!Song /\ song.edits \in 0..MaxEdits /\ song.source \in 0..MaxEdits
  BY RetrievalFacts
<1>2. song.edits + 1 \in 0..MaxEdits /\ song.edits + 1 \in Retrieval!Tags /\ song.source <= song.edits
  BY <1>1, RecordsAssumption DEF Retrieval!Edits, Retrieval!Tags, Retrieval!IInv,
     Retrieval!SourcesInOrder
<1>3. /\ song' \in Retrieval!Song /\ song'.edits = song.edits + 1
      /\ song'.source = song.source \/ song'.source = song.edits + 1
      /\ song'.cover = song.cover \/ (song.cover = None /\ song'.cover = "own")
      /\ song'.found => song.found /\ song'.tags = song.tags
  <2>1. CASE song' = [song EXCEPT !.edits = @ + 1, !.tags = song.edits + 1, !.found = FALSE]
    <3>1. song' \in Retrieval!Song
      BY <1>1, <1>2, <2>1 DEF Retrieval!Song
    <3>2. song'.edits = song.edits + 1 /\ song'.source = song.source /\ song'.cover = song.cover
      BY <1>1, <2>1 DEF Retrieval!Song
    <3>3. ~song'.found
      BY <1>1, <2>1 DEF Retrieval!Song
    <3>4. QED
      BY <3>1, <3>2, <3>3
  <2>2. CASE song' = [song EXCEPT !.edits = @ + 1, !.source = song.edits + 1]
    <3>1. song' \in Retrieval!Song
      BY <1>1, <1>2, <2>2 DEF Retrieval!Song
    <3>2. song'.edits = song.edits + 1 /\ song'.source = song.edits + 1 /\ song'.cover = song.cover
      BY <1>1, <2>2 DEF Retrieval!Song
    <3>3. song'.found => song.found /\ song'.tags = song.tags
      BY <1>1, <2>2 DEF Retrieval!Song
    <3>4. QED
      BY <3>1, <3>2, <3>3
  <2>3. CASE song.cover = None /\ song' = [song EXCEPT !.edits = @ + 1, !.cover = "own"]
    BY <1>1, <1>2, <2>3, Named DEF Retrieval!Song
  <2>4. QED
    BY <2>1, <2>2, <2>3 DEF Retrieval!Edits
<1>4. review' = review /\ applies' = applies /\ object' = object /\ mishaps' = mishaps
  BY DEF Retrieval!Edits
<1>5. Retrieval!TypeOK'
  BY <1>3, <1>4, RetrievalFacts DEF Retrieval!TypeOK, Retrieval!Mixes
<1>6. Retrieval!SourcesInOrder'
  <2>1. \A r \in Requests : /\ applies[r].payload # None => applies[r].payload.source \in 0..MaxEdits
                            /\ applies[r].refreshed # None => applies[r].refreshed.source \in 0..MaxEdits
    BY RequestFacts
  <2>2. review.payload # None => review.payload.source \in 0..MaxEdits
    BY RetrievalFacts
  <2>3. QED
    BY <1>1, <1>2, <1>3, <1>4, <2>1, <2>2 DEF Retrieval!IInv, Retrieval!SourcesInOrder
<1>7. Retrieval!TriesInOrder' /\ Retrieval!ApplyInOrder' /\ Retrieval!ReviewHasCandidates'
  BY <1>3, <1>4 DEF Retrieval!IInv, Retrieval!TriesInOrder, Retrieval!ApplyInOrder,
     Retrieval!ReviewHasCandidates, Retrieval!Completed
<1>8. review.payload # None /\ review.payload.source = song'.source => song'.source = song.source
  BY <1>1, <1>3, RetrievalFacts DEF Retrieval!IInv, Retrieval!SourcesInOrder
<1>9. Retrieval!PicturesInOrder'
  <2> SUFFICES ASSUME ~mixed' PROVE Retrieval!PicturesInOrder'
    BY DEF Retrieval!PicturesInOrder
  <2>1. QED
    BY <1>3, <1>4, <1>8, Unmixed, Named, RecordsAssumption
    DEF Retrieval!PicturesInOrder, Retrieval!OfTheRow, Retrieval!At
<1>10. Retrieval!ReceiptsAreTrue'
  <2> SUFFICES ASSUME ~mixed' PROVE Retrieval!ReceiptsAreTrue'
    BY DEF Retrieval!ReceiptsAreTrue
  <2>1. QED
    BY <1>3, <1>4, <1>8, Unmixed, RecordsAssumption
    DEF Retrieval!ReceiptsAreTrue, Retrieval!InTheCatalogue, Retrieval!Completed, Retrieval!TriesInOrder
<1>11. QED
  BY <1>5, <1>6, <1>7, <1>9, <1>10 DEF Retrieval!IInv

LEMMA dispatchRetrievalBatchKeeps ==
    ASSUME Retrieval!IInv, Retrieval!Mixes, Retrieval!dispatchRetrievalBatch
    PROVE  Retrieval!IInv'
<1>1. /\ review' \in Retrieval!Row /\ review'.status = "queued" /\ review'.payload = Retrieval!Snapshot
      /\ review'.try = review.try /\ review'.note = Retrieval!Plain("null")
  <2>1. Retrieval!Plain("null") \in Retrieval!Message
    BY Written DEF Retrieval!Free
  <2>2. QED
    BY <2>1, RetrievalFacts, Written, Named DEF Retrieval!dispatchRetrievalBatch,
       Retrieval!Row
<1>2. song' = song /\ applies' = applies /\ object' = object /\ mishaps' = mishaps
  BY DEF Retrieval!dispatchRetrievalBatch
<1>3. Retrieval!TypeOK'
  BY <1>1, <1>2, RetrievalFacts DEF Retrieval!TypeOK, Retrieval!Mixes
<1>4. Retrieval!Snapshot # None /\ Retrieval!Snapshot.source = song.source
  BY Written, Named DEF Retrieval!Snapshot
<1>5. Retrieval!SourcesInOrder' /\ Retrieval!ReviewHasCandidates' /\ Retrieval!ReceiptsAreTrue'
  BY <1>1, <1>2, <1>4 DEF Retrieval!IInv, Retrieval!SourcesInOrder,
     Retrieval!ReviewHasCandidates, Retrieval!Completed,
     Retrieval!ReceiptsAreTrue, Retrieval!InTheCatalogue
<1>6. Retrieval!TriesInOrder'
  BY <1>1, <1>2, <1>4 DEF Retrieval!IInv, Retrieval!TriesInOrder, Retrieval!Completed
<1>7. Retrieval!ApplyInOrder'
  BY <1>1, <1>2 DEF Retrieval!IInv, Retrieval!ApplyInOrder, Retrieval!Plain, Retrieval!Note
<1>8. Retrieval!PicturesInOrder'
  <2> SUFFICES ASSUME ~mixed' PROVE Retrieval!PicturesInOrder'
    BY DEF Retrieval!PicturesInOrder
  <2>1. QED
    BY <1>2, Unmixed, Named DEF Retrieval!PicturesInOrder, Retrieval!OfTheRow, Retrieval!At
<1>9. QED
  BY <1>3, <1>5, <1>6, <1>7, <1>8 DEF Retrieval!IInv

LEMMA ClaimsKeeps ==
    ASSUME Retrieval!IInv, Retrieval!Mixes, Retrieval!Claims
    PROVE  Retrieval!IInv'
<1>0. review.try \in 0..MaxTries /\ review.try + 1 \in 0..MaxTries
  BY RetrievalFacts, RecordsAssumption DEF Retrieval!Claims
<1>1. /\ review' \in Retrieval!Row /\ review'.status = "claimed" /\ review'.payload = review.payload
      /\ review'.try = review.try + 1 /\ review'.note = review.note /\ review'.result = review.result
  BY <1>0, RetrievalFacts, Named DEF Retrieval!Claims, Retrieval!Row
<1>2. song' = song /\ applies' = applies /\ object' = object /\ mishaps' = mishaps
  BY DEF Retrieval!Claims
<1>3. Retrieval!TypeOK'
  BY <1>1, <1>2, RetrievalFacts DEF Retrieval!TypeOK, Retrieval!Mixes
<1>4. Retrieval!SourcesInOrder' /\ Retrieval!ReviewHasCandidates' /\ Retrieval!ReceiptsAreTrue' /\ Retrieval!ApplyInOrder'
  BY <1>1, <1>2 DEF Retrieval!IInv, Retrieval!SourcesInOrder, Retrieval!ReviewHasCandidates,
     Retrieval!Completed,
     Retrieval!ReceiptsAreTrue, Retrieval!InTheCatalogue, Retrieval!ApplyInOrder
<1>6. Retrieval!TriesInOrder'
  <2>1. song.tags \in Int /\ \A r \in Requests : applies[r].result.try \in 0..MaxTries
    BY RetrievalFacts, RequestFacts, RecordsAssumption DEF Retrieval!Tags
  <2>2. review.status = "queued" /\ review.payload # None
    BY RecordsAssumption DEF Retrieval!Claims, Retrieval!IInv, Retrieval!TriesInOrder
  <2>3. song.found => song.tags \in -review'.try..-1 /\ -song.tags # review'.try
    BY <1>0, <1>1, <2>1 DEF Retrieval!IInv, Retrieval!TriesInOrder
  <2>4. \A r \in Requests : applies[r].result.try \in 1..review.try => applies[r].result.try \in 1..review'.try
    BY <1>0, <1>1, <2>1
  <2>5. QED
    BY <1>0, <1>1, <1>2, <2>2, <2>3, <2>4, RecordsAssumption DEF Retrieval!IInv,
       Retrieval!TriesInOrder, Retrieval!Completed
<1>8. Retrieval!PicturesInOrder'
  <2> SUFFICES ASSUME ~mixed' PROVE Retrieval!PicturesInOrder'
    BY DEF Retrieval!PicturesInOrder
  <2>1. QED
    BY <1>1, <1>2, Unmixed, Named DEF Retrieval!PicturesInOrder, Retrieval!OfTheRow,
       Retrieval!At
<1>9. QED
  BY <1>3, <1>4, <1>6, <1>8 DEF Retrieval!IInv
\* What the invariants say of the row and of one request.
RowInOrder ==
    /\ review.payload # None => review.payload.source <= song.edits
    /\ song.found => song.tags \in -review.try..-1 /\ (review.status = "claimed" => -song.tags # review.try)
    /\ review.status = "claimed" => review.try > 0
    /\ Retrieval!Completed => review.result.try \in 1..review.try
    /\ review.status # None => review.payload # None
    /\ review.note.kind = "applying" => review.note.by \in Requests
    /\ review.note.kind \notin {"applying", "catalog"} => review.note.stage = None
    /\ review.note.kind = "catalog" => review.note.stage # None

OneApplyInOrder(r) ==
    /\ applies[r].payload # None => applies[r].payload.source <= song.edits
    /\ applies[r].refreshed # None => applies[r].refreshed.source <= song.edits
    /\ applies[r].at \in Retrieval!Acquired \cup {"start", "review"} =>
          applies[r].result.try \in 1..review.try /\ applies[r].payload # None
    /\ applies[r].at \in {"look", "batch"} => applies[r].stage = None
    /\ applies[r].at \in {"cover", "put", "link", "unput", "receipt"} => applies[r].stage # None
    /\ applies[r].at = "settle" => applies[r].stage \in {None, "done"}
    /\ applies[r].retry => applies[r].stage = None /\ applies[r].at \in {"settle", "end", "dead"}
    /\ ~applies[r].retry => applies[r].refreshed = None

PictureInOrder(r) ==
    /\ applies[r].at = "unput" => song.cover = "own" \/ (song.cover = None /\ review.payload.source # song.source)
    /\ applies[r].at = "link" => object \/ song.cover = "own" \/ review.payload.source # song.source
    /\ applies[r].at = "receipt" /\ review.result.cover /\ review.payload.source = song.source => song.cover # None

LEMMA InOrder ==
    ASSUME Retrieval!IInv
    PROVE  /\ RowInOrder /\ song.source <= song.edits
           /\ \A r \in Requests : OneApplyInOrder(r) /\ (~mixed => PictureInOrder(r))
           /\ Retrieval!ReceiptsAreTrue /\ Retrieval!ReviewHasCandidates
<1>1. RowInOrder
  BY RecordsAssumption DEF Retrieval!IInv, Retrieval!SourcesInOrder, Retrieval!TriesInOrder,
     Retrieval!ApplyInOrder, RowInOrder
<1>2. ASSUME NEW r \in Requests PROVE OneApplyInOrder(r)
  BY <1>2 DEF Retrieval!IInv, Retrieval!SourcesInOrder, Retrieval!TriesInOrder,
     Retrieval!ApplyInOrder, OneApplyInOrder
<1>3. ASSUME NEW r \in Requests, ~mixed PROVE PictureInOrder(r)
  BY <1>3 DEF Retrieval!IInv, Retrieval!PicturesInOrder, PictureInOrder, Retrieval!At
<1>4. QED
  BY <1>1, <1>2, <1>3 DEF Retrieval!IInv, Retrieval!SourcesInOrder

\* One request moves, and the row with it or not: the others are as they were.
LEMMA OneMoves ==
    ASSUME Retrieval!IInv, Retrieval!Mixes, NEW r,
           song' \in Retrieval!Song, song'.edits = song.edits, song'.source = song.source, song'.cover = song.cover,
           object' \in BOOLEAN, object => object', mishaps' \in 0..MaxFaults,
           review' \in Retrieval!Row, review'.try = review.try, applies' \in [Requests -> Retrieval!Apply],
           \A q \in Requests : q # r => applies'[q] = applies[q],
           RowInOrder', r \in Requests => OneApplyInOrder(r)', r \in Requests /\ ~mixed' => PictureInOrder(r)',
           Retrieval!ReceiptsAreTrue', Retrieval!ReviewHasCandidates'
    PROVE  Retrieval!IInv'
<1>1. Retrieval!TypeOK'
  BY RetrievalFacts DEF Retrieval!TypeOK, Retrieval!Mixes
<1>2. \A q \in Requests : OneApplyInOrder(q)'
  <2>1. ASSUME NEW q \in Requests, q # r PROVE OneApplyInOrder(q)'
    BY <2>1, InOrder DEF OneApplyInOrder
  <2>2. QED
    BY <2>1
<1>3. Retrieval!SourcesInOrder'
  BY <1>2, InOrder DEF RowInOrder, OneApplyInOrder, Retrieval!SourcesInOrder
<1>4. Retrieval!TriesInOrder'
  BY <1>2, RecordsAssumption DEF RowInOrder, OneApplyInOrder, Retrieval!TriesInOrder,
     Retrieval!Completed
<1>5. Retrieval!ApplyInOrder'
  BY <1>2 DEF RowInOrder, OneApplyInOrder, Retrieval!ApplyInOrder
<1>6. Retrieval!PicturesInOrder'
  <2> SUFFICES ASSUME ~mixed' PROVE Retrieval!PicturesInOrder'
    BY DEF Retrieval!PicturesInOrder
  <2>1. ASSUME NEW q \in Requests, q # r PROVE PictureInOrder(q)'
    BY <2>1, InOrder, Unmixed, Named DEF PictureInOrder
  <2>2. \A q \in Requests : PictureInOrder(q)'
    BY <2>1
  <2>3. song'.cover = "found" => object'
    BY Unmixed DEF Retrieval!PicturesInOrder
  <2>4. QED
    BY <2>2, <2>3, Unmixed DEF Retrieval!PicturesInOrder, PictureInOrder,
       Retrieval!OfTheRow, Retrieval!At
<1>7. QED
  BY <1>1, <1>3, <1>4, <1>5, <1>6 DEF Retrieval!IInv

\* The same where the song and the row stay.
LEMMA OneMovesAlone ==
    ASSUME Retrieval!IInv, Retrieval!Mixes, NEW r \in Requests,
           song' = song, object' \in BOOLEAN, object => object', review' = review, mishaps' \in 0..MaxFaults,
           applies' \in [Requests -> Retrieval!Apply], \A q \in Requests : q # r => applies'[q] = applies[q],
           OneApplyInOrder(r)', ~mixed' => PictureInOrder(r)'
    PROVE  Retrieval!IInv'
<1>1. /\ song' \in Retrieval!Song /\ song'.edits = song.edits /\ song'.source = song.source /\ song'.cover = song.cover
      /\ review' \in Retrieval!Row /\ review'.try = review.try
  BY RetrievalFacts
<1>2. RowInOrder'
  BY InOrder DEF RowInOrder, Retrieval!Completed
<1>3. Retrieval!ReviewHasCandidates'
  BY InOrder DEF Retrieval!ReviewHasCandidates, Retrieval!Completed
<1>4. Retrieval!ReceiptsAreTrue'
  <2> SUFFICES ASSUME ~mixed' PROVE Retrieval!ReceiptsAreTrue'
    BY DEF Retrieval!ReceiptsAreTrue
  <2>1. QED
    BY Unmixed DEF Retrieval!ReceiptsAreTrue, Retrieval!InTheCatalogue, Retrieval!Completed
<1>5. QED
  BY <1>1, <1>2, <1>3, <1>4, OneMoves

\* A request that only goes on keeps what it has.
LEMMA GoesOn ==
    ASSUME Retrieval!IInv, NEW r \in Requests, NEW at \in Retrieval!Place, Retrieval!Goto(r, at)
    PROVE  /\ applies' \in [Requests -> Retrieval!Apply] /\ applies'[r].at = at
           /\ \A q \in Requests : q # r => applies'[q] = applies[q]
           /\ applies'[r].result = applies[r].result /\ applies'[r].payload = applies[r].payload
           /\ applies'[r].refreshed = applies[r].refreshed /\ applies'[r].stage = applies[r].stage
           /\ applies'[r].retry <=> applies[r].retry
BY RetrievalFacts, RequestFacts DEF Retrieval!Goto, Retrieval!Apply

LEMMA ReviewGoneKeeps ==
    ASSUME Retrieval!IInv, Retrieval!Mixes, NEW r \in Requests, Retrieval!ReviewGone(r)
    PROVE  Retrieval!IInv'
<1>1. song' = song /\ object' = object /\ mishaps' = mishaps /\ review' = review /\ Retrieval!Goto(r, "end")
  BY DEF Retrieval!ReviewGone
<1>2. OneApplyInOrder(r)' /\ PictureInOrder(r)'
  BY <1>1, Named, GoesOn, InOrder DEF OneApplyInOrder, PictureInOrder
<1>3. QED
  BY <1>1, <1>2, Named, GoesOn, RetrievalFacts, OneMovesAlone

LEMMA DiesKeeps ==
    ASSUME Retrieval!IInv, Retrieval!Mixes, NEW r \in Requests, Retrieval!Dies(r)
    PROVE  Retrieval!IInv'
<1>1. song' = song /\ object' = object /\ review' = review /\ Retrieval!Goto(r, "dead")
  BY DEF Retrieval!Dies
<1>2. mishaps' \in 0..MaxFaults
  BY RetrievalFacts, RecordsAssumption DEF Retrieval!Dies
<1>3. OneApplyInOrder(r)' /\ PictureInOrder(r)'
  BY <1>1, Named, GoesOn, InOrder DEF OneApplyInOrder, PictureInOrder
<1>4. QED
  BY <1>1, <1>2, <1>3, Named, GoesOn, RetrievalFacts, OneMovesAlone

LEMMA ReadsKeep ==
    ASSUME Retrieval!IInv, Retrieval!Mixes, NEW r \in Requests, Retrieval!ReviewReads(r) \/ Retrieval!RecoverReads(r)
    PROVE  Retrieval!IInv'
<1>1. PICK at \in {"review", "start"} :
      /\ song' = song /\ object' = object /\ mishaps' = mishaps /\ review' = review
      /\ Retrieval!Completed /\ Retrieval!Takes(r, review.result, review.payload, at)
  BY DEF Retrieval!ReviewReads, Retrieval!RecoverReads
<1>2. /\ applies' \in [Requests -> Retrieval!Apply] /\ \A q \in Requests : q # r => applies'[q] = applies[q]
      /\ applies'[r].at = at /\ applies'[r].result = review.result /\ applies'[r].payload = review.payload
      /\ applies'[r].stage = None /\ ~applies'[r].retry /\ applies'[r].refreshed = None
  BY <1>1, Named, RetrievalFacts, TakesWhole
<1>3. OneApplyInOrder(r)' /\ PictureInOrder(r)'
  BY <1>1, <1>2, Named, InOrder, RecordsAssumption DEF OneApplyInOrder, PictureInOrder,
     RowInOrder, Retrieval!Completed
<1>4. QED
  BY <1>1, <1>2, <1>3, RetrievalFacts, OneMovesAlone

LEMMA CoverLooksKeeps ==
    ASSUME Retrieval!IInv, Retrieval!Mixes, NEW r \in Requests, Retrieval!CoverLooks(r)
    PROVE  Retrieval!IInv'
<1>1. song' = song /\ object' = object /\ mishaps' = mishaps /\ review' = review /\ applies[r].at = "cover"
  BY DEF Retrieval!CoverLooks, Retrieval!At
<1>2. PICK at \in {"put", "receipt"} :
      /\ Retrieval!Goto(r, at)
      /\ at = "receipt" => ~(applies[r].result.cover /\ song.cover = None /\ song.source = applies[r].payload.source)
  BY DEF Retrieval!CoverLooks
<1>3. /\ applies' \in [Requests -> Retrieval!Apply] /\ applies'[r].at = at
      /\ \A q \in Requests : q # r => applies'[q] = applies[q]
      /\ applies'[r].result = applies[r].result /\ applies'[r].payload = applies[r].payload
      /\ applies'[r].refreshed = applies[r].refreshed /\ applies'[r].stage = applies[r].stage
      /\ applies'[r].retry <=> applies[r].retry
  BY <1>2, Named, GoesOn
<1>4. OneApplyInOrder(r)'
  BY <1>1, <1>3, Named, InOrder DEF OneApplyInOrder
<1>5. ~mixed' => PictureInOrder(r)'
  BY <1>1, <1>2, <1>3, Named, Unmixed DEF PictureInOrder
<1>6. QED
  BY <1>1, <1>3, <1>4, <1>5, RetrievalFacts, OneMovesAlone

LEMMA CoverPutsKeeps ==
    ASSUME Retrieval!IInv, Retrieval!Mixes, NEW r \in Requests, Retrieval!CoverPuts(r)
    PROVE  Retrieval!IInv'
<1>1. song' = song /\ object' = TRUE /\ mishaps' = mishaps /\ review' = review /\ applies[r].at = "put" /\ Retrieval!Goto(r, "link")
  BY DEF Retrieval!CoverPuts, Retrieval!At
<1>2. OneApplyInOrder(r)' /\ PictureInOrder(r)'
  BY <1>1, Named, GoesOn, InOrder DEF OneApplyInOrder, PictureInOrder
<1>3. QED
  BY <1>1, <1>2, Named, GoesOn, RetrievalFacts, OneMovesAlone

LEMMA LooksKeeps ==
    ASSUME Retrieval!IInv, Retrieval!Mixes, NEW r \in Requests, Retrieval!Looks(r)
    PROVE  Retrieval!IInv'
<1>1. song' = song /\ object' = object /\ mishaps' = mishaps /\ review' = review /\ applies[r].at = "look"
  BY DEF Retrieval!Looks, Retrieval!At
<1>2. ASSUME NEW at \in {"batch", "settle"}, Retrieval!Goto(r, at) PROVE Retrieval!IInv'
  <2>1. OneApplyInOrder(r)' /\ PictureInOrder(r)'
    BY <1>1, <1>2, Named, GoesOn, InOrder DEF OneApplyInOrder, PictureInOrder
  <2>2. QED
    BY <1>1, <1>2, <2>1, Named, GoesOn, RetrievalFacts, OneMovesAlone
<1>3. ASSUME applies' = [applies EXCEPT ![r] =
                 IF @.result.choice THEN [@ EXCEPT !.at = "settle", !.retry = TRUE, !.refreshed = Retrieval!Snapshot]
                 ELSE [@ EXCEPT !.at = "settle"]]
      PROVE  Retrieval!IInv'
  <2>1. /\ applies' \in [Requests -> Retrieval!Apply] /\ \A q \in Requests : q # r => applies'[q] = applies[q]
        /\ applies'[r].at = "settle" /\ applies'[r].payload = applies[r].payload
        /\ applies'[r].result = applies[r].result /\ applies'[r].stage = applies[r].stage
    BY <1>3, Named, Written, RetrievalFacts, RequestFacts DEF Retrieval!Apply
  <2>2. \/ applies'[r].retry /\ applies'[r].refreshed = Retrieval!Snapshot
        \/ (applies'[r].retry <=> applies[r].retry) /\ applies'[r].refreshed = applies[r].refreshed
    BY <1>3, RetrievalFacts, RequestFacts DEF Retrieval!Apply
  <2>3. Retrieval!Snapshot.source = song.source
    BY DEF Retrieval!Snapshot
  <2>4. OneApplyInOrder(r)'
    BY <1>1, <2>1, <2>2, <2>3, Named, InOrder DEF OneApplyInOrder
  <2>5. PictureInOrder(r)'
    BY <2>1 DEF PictureInOrder
  <2>6. QED
    BY <1>1, <2>1, <2>4, <2>5, RetrievalFacts, OneMovesAlone
<1>4. QED
  BY <1>2, <1>3 DEF Retrieval!Looks

\* The row's note is written, and no more of it.
LEMMA NoteWritten ==
    ASSUME Retrieval!IInv, NEW note \in Retrieval!Message, review' = [review EXCEPT !.note = note]
    PROVE  /\ review' \in Retrieval!Row /\ review'.note = note
           /\ review'.status = review.status /\ review'.payload = review.payload /\ review'.try = review.try
           /\ review'.result = review.result
BY RetrievalFacts DEF Retrieval!Row

LEMMA ReviewKeepsKeeps ==
    ASSUME Retrieval!IInv, Retrieval!Mixes, NEW r \in Requests, Retrieval!ReviewKeeps(r)
    PROVE  Retrieval!IInv'
<1>1. /\ song' = song /\ object' = object /\ mishaps' = mishaps /\ Retrieval!Goto(r, "end")
      /\ review' = [review EXCEPT !.note = Retrieval!Plain("kept")] /\ review.note = Retrieval!Plain("review")
  BY DEF Retrieval!ReviewKeeps, Retrieval!StillReviewed
<1>2. /\ review' \in Retrieval!Row /\ review'.note = Retrieval!Plain("kept")
      /\ review'.status = review.status /\ review'.payload = review.payload /\ review'.try = review.try
      /\ review'.result = review.result
  BY <1>1, Written, NoteWritten DEF Retrieval!Free
<1>3. OneApplyInOrder(r)' /\ PictureInOrder(r)'
  BY <1>1, <1>2, Named, GoesOn, InOrder DEF OneApplyInOrder, PictureInOrder
<1>4. RowInOrder' /\ Retrieval!ReviewHasCandidates'
  BY <1>1, <1>2, InOrder
  DEF RowInOrder, Retrieval!Completed, Retrieval!ReviewHasCandidates, Retrieval!Plain, Retrieval!Note
<1>5. Retrieval!ReceiptsAreTrue'
  <2> SUFFICES ASSUME ~mixed' PROVE Retrieval!ReceiptsAreTrue'
    BY DEF Retrieval!ReceiptsAreTrue
  <2>1. QED
    BY <1>1, <1>2, Unmixed
    DEF Retrieval!ReceiptsAreTrue, Retrieval!InTheCatalogue, Retrieval!Completed, Retrieval!Plain, Retrieval!Note
<1>6. QED
  BY <1>1, <1>2, <1>3, <1>4, <1>5, Named, GoesOn, RetrievalFacts, OneMoves

LEMMA ReviewRetriesKeeps ==
    ASSUME Retrieval!IInv, Retrieval!Mixes, NEW r \in Requests, Retrieval!ReviewRetries(r)
    PROVE  Retrieval!IInv'
<1>1. song' = song /\ object' = object /\ mishaps' = mishaps /\ Retrieval!Goto(r, "end")
  BY DEF Retrieval!ReviewRetries
<1>2. /\ review' \in Retrieval!Row /\ review'.status = "queued" /\ review'.payload = Retrieval!Snapshot
      /\ review'.try = review.try /\ review'.note = Retrieval!Plain("null")
  <2>1. Retrieval!Plain("null") \in Retrieval!Message
    BY Written DEF Retrieval!Free
  <2>2. QED
    BY <2>1, RetrievalFacts, Written, Named DEF Retrieval!ReviewRetries, Retrieval!Row
<1>3. Retrieval!Snapshot # None /\ Retrieval!Snapshot.source = song.source
  BY Written, Named DEF Retrieval!Snapshot
<1>4. OneApplyInOrder(r)' /\ PictureInOrder(r)'
  BY <1>1, <1>2, Named, GoesOn, InOrder DEF OneApplyInOrder, PictureInOrder
<1>5. RowInOrder'
  BY <1>1, <1>2, <1>3, InOrder DEF RowInOrder, Retrieval!Completed, Retrieval!Plain,
     Retrieval!Note
<1>6. Retrieval!ReviewHasCandidates' /\ Retrieval!ReceiptsAreTrue'
  BY <1>2 DEF Retrieval!ReviewHasCandidates, Retrieval!ReceiptsAreTrue,
     Retrieval!InTheCatalogue, Retrieval!Completed
<1>7. QED
  BY <1>1, <1>2, <1>4, <1>5, <1>6, Named, GoesOn, RetrievalFacts, OneMoves

LEMMA ReviewAppliesKeeps ==
    ASSUME Retrieval!IInv, Retrieval!Mixes, NEW r \in Requests, Retrieval!ReviewApplies(r)
    PROVE  Retrieval!IInv'
<1>1. /\ song' = song /\ object' = object /\ mishaps' = mishaps /\ applies[r].at = "review"
      /\ review.status = "completed" /\ review.note = Retrieval!Plain("review") /\ review.try = applies[r].result.try
  BY DEF Retrieval!ReviewApplies, Retrieval!At, Retrieval!StillReviewed, Retrieval!Completed
<1>2. PICK chosen \in Retrieval!Result :
      /\ chosen.try = review.try
      /\ review' = [review EXCEPT !.result = chosen, !.note = Retrieval!Plain("pending")]
      /\ Retrieval!Takes(r, chosen, applies[r].payload, "start")
  <2>1. PICK cover \in BOOLEAN :
           LET c == [applies[r].result EXCEPT !.kind = "match", !.cover = cover, !.choice = TRUE]
           IN /\ review' = [review EXCEPT !.result = c, !.note = Retrieval!Plain("pending")]
              /\ Retrieval!Takes(r, c, applies[r].payload, "start")
    BY DEF Retrieval!ReviewApplies
  <2>2. PICK c : c = [applies[r].result EXCEPT !.kind = "match", !.cover = cover, !.choice = TRUE]
    OBVIOUS
  <2>3. c \in Retrieval!Result /\ c.try = review.try
    BY <1>1, <2>2, RequestFacts DEF Retrieval!Result
  <2>4. QED
    BY <2>1, <2>2, <2>3
<1>3. /\ review' \in Retrieval!Row /\ review'.status = "completed" /\ review'.payload = review.payload
      /\ review'.try = review.try /\ review'.result = chosen /\ review'.note = Retrieval!Plain("pending")
  BY <1>1, <1>2, Written, RetrievalFacts DEF Retrieval!Row
<1>4. /\ applies' \in [Requests -> Retrieval!Apply] /\ \A q \in Requests : q # r => applies'[q] = applies[q]
      /\ applies'[r].at = "start" /\ applies'[r].result = chosen /\ applies'[r].payload = applies[r].payload
      /\ applies'[r].stage = None /\ ~applies'[r].retry /\ applies'[r].refreshed = None
  BY <1>2, Named, RequestFacts, TakesWhole
<1>5. review.try \in 1..review.try /\ applies[r].payload # None
  BY <1>1, InOrder DEF OneApplyInOrder
<1>6. OneApplyInOrder(r)' /\ PictureInOrder(r)'
  BY <1>1, <1>2, <1>3, <1>4, <1>5, Named, InOrder DEF OneApplyInOrder, PictureInOrder
<1>7. RowInOrder' /\ Retrieval!ReviewHasCandidates'
  BY <1>1, <1>2, <1>3, <1>5, InOrder
  DEF RowInOrder, Retrieval!Completed, Retrieval!Plain, Retrieval!Note, Retrieval!ReviewHasCandidates
<1>8. Retrieval!ReceiptsAreTrue'
  <2> SUFFICES ASSUME ~mixed' PROVE Retrieval!ReceiptsAreTrue'
    BY DEF Retrieval!ReceiptsAreTrue
  <2>1. review.note.kind = "review" /\ review.note.stage = None /\ review'.note.kind = "pending"
    BY <1>1, <1>3 DEF Retrieval!Plain, Retrieval!Note
  <2>2. ~Retrieval!InTheCatalogue /\ review.result.try = review.try
    BY <1>1, <2>1, Unmixed DEF Retrieval!ReceiptsAreTrue, Retrieval!Completed
  <2>3. ~Retrieval!InTheCatalogue'
    BY <1>1, <1>2, <1>3, <2>2 DEF Retrieval!InTheCatalogue, Retrieval!Completed
  <2>4. QED
    BY <1>2, <1>3, <2>3 DEF Retrieval!ReceiptsAreTrue
<1>9. QED
  BY <1>1, <1>3, <1>4, <1>6, <1>7, <1>8, RetrievalFacts, OneMoves

LEMMA AcquiresKeeps ==
    ASSUME Retrieval!IInv, Retrieval!Mixes, NEW r \in Requests, Retrieval!Acquires(r)
    PROVE  Retrieval!IInv'
<1>1. song' = song /\ object' = object /\ mishaps' = mishaps /\ applies[r].at = "start"
  BY DEF Retrieval!Acquires, Retrieval!At
<1>2. ASSUME review' = review, Retrieval!Goto(r, "end") PROVE Retrieval!IInv'
  <2>1. OneApplyInOrder(r)' /\ PictureInOrder(r)'
    BY <1>1, <1>2, Named, GoesOn, InOrder DEF OneApplyInOrder, PictureInOrder
  <2>2. QED
    BY <1>1, <1>2, <2>1, Named, GoesOn, RetrievalFacts, OneMovesAlone
<1>3. ASSUME Retrieval!Completed, review.note.kind \in {"pending", "catalog"},
             review' = [review EXCEPT !.note = Retrieval!Note("applying", r, review.note.stage)],
             applies' = [applies EXCEPT ![r].at = IF review.note.kind = "pending" THEN "look" ELSE "cover",
                                        ![r].fresh = (review.note.kind = "pending"), ![r].stage = review.note.stage]
      PROVE  Retrieval!IInv'
  <2>1. Retrieval!Note("applying", r, review.note.stage) \in Retrieval!Message
    BY RetrievalFacts, Written
  <2>2. /\ review' \in Retrieval!Row /\ review'.note = Retrieval!Note("applying", r, review.note.stage)
        /\ review'.status = review.status /\ review'.payload = review.payload /\ review'.try = review.try
        /\ review'.result = review.result
    BY <1>3, <2>1, NoteWritten
  <2>3. /\ review'.note.kind = "applying" /\ review'.note.by = r /\ review'.note.stage = review.note.stage
    BY <2>2 DEF Retrieval!Note
  <2>4. "look" \in Retrieval!Place /\ "cover" \in Retrieval!Place
    BY Named
  <2>5. applies' \in [Requests -> Retrieval!Apply]
    <3>1. PICK at \in Retrieval!Place : at = IF review.note.kind = "pending" THEN "look" ELSE "cover"
      BY <2>4
    <3>2. PICK fresh \in BOOLEAN : fresh = (review.note.kind = "pending")
      OBVIOUS
    <3>3. applies' = [applies EXCEPT ![r].at = at, ![r].fresh = fresh, ![r].stage = review.note.stage]
      BY <1>3, <3>1, <3>2
    <3>4. applies \in [Requests -> Retrieval!Apply] /\ applies[r] \in Retrieval!Apply /\ review.note.stage \in Retrieval!Stage
      BY RetrievalFacts
    <3>5. [applies[r] EXCEPT !.at = at, !.fresh = fresh, !.stage = review.note.stage] \in Retrieval!Apply
      BY <3>4 DEF Retrieval!Apply
    <3>6. applies' = [applies EXCEPT ![r] = [applies[r] EXCEPT !.at = at, !.fresh = fresh, !.stage = review.note.stage]]
      BY <3>3, <3>4
    <3>7. QED
      BY <3>4, <3>5, <3>6
  <2>6. \A q \in Requests : q # r => applies'[q] = applies[q]
    BY <1>3, RetrievalFacts
  <2>7. /\ applies'[r].at = (IF review.note.kind = "pending" THEN "look" ELSE "cover")
        /\ applies'[r].result = applies[r].result /\ applies'[r].payload = applies[r].payload
    BY <1>3, RetrievalFacts DEF Retrieval!Apply
  <2>8. /\ applies'[r].refreshed = applies[r].refreshed /\ applies'[r].stage = review.note.stage
        /\ applies'[r].retry <=> applies[r].retry
    BY <1>3, RetrievalFacts DEF Retrieval!Apply
  <2>9. RowInOrder' /\ Retrieval!ReviewHasCandidates'
    BY <1>1, <1>3, <2>2, <2>3, InOrder
    DEF RowInOrder, Retrieval!Completed, Retrieval!ReviewHasCandidates, Retrieval!Plain, Retrieval!Note
  <2>10. OneApplyInOrder(r)' /\ PictureInOrder(r)'
    BY <1>1, <1>3, <2>2, <2>7, <2>8, Named, InOrder DEF OneApplyInOrder, PictureInOrder,
       RowInOrder
  <2>11. Retrieval!ReceiptsAreTrue'
    <3> SUFFICES ASSUME ~mixed' PROVE Retrieval!ReceiptsAreTrue'
      BY DEF Retrieval!ReceiptsAreTrue
    <3>1. QED
      BY <1>1, <1>3, <2>2, <2>3, Unmixed, InOrder
      DEF RowInOrder, Retrieval!ReceiptsAreTrue, Retrieval!InTheCatalogue, Retrieval!Completed
  <2>12. QED
    BY <1>1, <2>2, <2>5, <2>6, <2>9, <2>10, <2>11, RetrievalFacts, OneMoves
<1>4. QED
  BY <1>2, <1>3 DEF Retrieval!Acquires

LEMMA BatchesKeeps ==
    ASSUME Retrieval!IInv, Retrieval!Mixes, NEW r \in Requests, Retrieval!Batches(r)
    PROVE  Retrieval!IInv'
<1>1. object' = object /\ mishaps' = mishaps /\ applies[r].at = "batch"
  BY DEF Retrieval!Batches, Retrieval!At
<1>2. ASSUME song' = song, review' = review,
             applies' = [applies EXCEPT ![r] = [@ EXCEPT !.at = "settle", !.retry = TRUE,
                           !.refreshed = IF applies[r].result.choice THEN Retrieval!Snapshot ELSE None]]
      PROVE  Retrieval!IInv'
  <2>1. /\ applies' \in [Requests -> Retrieval!Apply] /\ \A q \in Requests : q # r => applies'[q] = applies[q]
        /\ applies'[r].at = "settle" /\ applies'[r].payload = applies[r].payload
        /\ applies'[r].result = applies[r].result /\ applies'[r].stage = applies[r].stage
    BY <1>2, Named, Written, RetrievalFacts, RequestFacts DEF Retrieval!Apply
  <2>2. applies'[r].retry /\ applies'[r].refreshed \in {None, Retrieval!Snapshot}
    BY <1>2, RetrievalFacts, RequestFacts DEF Retrieval!Apply
  <2>3. Retrieval!Snapshot.source = song.source
    BY DEF Retrieval!Snapshot
  <2>4. OneApplyInOrder(r)'
    BY <1>1, <1>2, <2>1, <2>2, <2>3, Named, InOrder DEF OneApplyInOrder
  <2>5. PictureInOrder(r)'
    BY <2>1 DEF PictureInOrder
  <2>6. QED
    BY <1>1, <1>2, <2>1, <2>4, <2>5, RetrievalFacts, OneMovesAlone
<1>3. ASSUME Retrieval!BatchHits(r), song' = [song EXCEPT !.found = TRUE, !.tags = -applies[r].result.try],
             review' = [review EXCEPT !.note = Retrieval!Receipt(r)],
             applies' = [applies EXCEPT ![r].at = "cover", ![r].stage = Retrieval!Receipt(r).stage]
      PROVE  Retrieval!IInv'
  <2>1. review.status = "completed" /\ applies[r].result.try \in 1..review.try /\ review.try \in 0..MaxTries
    BY <1>1, <1>3, Named, InOrder, RetrievalFacts
    DEF Retrieval!BatchHits, Retrieval!Mine, Retrieval!Completed, OneApplyInOrder
  <2>2. -applies[r].result.try \in Retrieval!Tags /\ -applies[r].result.try \in -review.try..-1
    BY <2>1, RecordsAssumption DEF Retrieval!Tags
  <2>3. /\ song' \in Retrieval!Song /\ song'.edits = song.edits /\ song'.source = song.source
        /\ song'.cover = song.cover /\ song'.tags = -applies[r].result.try
    BY <1>3, <2>2, RetrievalFacts DEF Retrieval!Song
  <2>4. PICK stage \in {"cover", "done"} :
           /\ Retrieval!Receipt(r) = Retrieval!Note("catalog", None, stage)
           /\ stage = "done" => ~(song.cover = None /\ applies[r].result.cover)
    BY DEF Retrieval!Receipt
  <2>5. /\ Retrieval!Note("catalog", None, stage) \in Retrieval!Message
        /\ Retrieval!Note("catalog", None, stage).stage = stage /\ Retrieval!Note("catalog", None, stage).kind = "catalog"
    BY Written, Named DEF Retrieval!Note
  <2>6. /\ review' \in Retrieval!Row /\ review'.note.kind = "catalog" /\ review'.note.stage = stage
        /\ review'.status = review.status /\ review'.payload = review.payload /\ review'.try = review.try
        /\ review'.result = review.result
    BY <1>3, <2>4, <2>5, NoteWritten
  <2>7. "cover" \in Retrieval!Place /\ stage \in Retrieval!Stage
    BY Named
  <2>8. applies' = [applies EXCEPT ![r].at = "cover", ![r].stage = stage]
    BY <1>3, <2>4, <2>5
  <2>9. /\ applies' \in [Requests -> Retrieval!Apply] /\ \A q \in Requests : q # r => applies'[q] = applies[q]
        /\ applies'[r].at = "cover" /\ applies'[r].stage = stage
        /\ applies'[r].result = applies[r].result /\ applies'[r].payload = applies[r].payload
        /\ applies'[r].refreshed = applies[r].refreshed
        /\ applies'[r].retry <=> applies[r].retry
    <3>1. applies \in [Requests -> Retrieval!Apply] /\ applies[r] \in Retrieval!Apply
      BY RetrievalFacts
    <3>2. applies' = [applies EXCEPT ![r] = [applies[r] EXCEPT !.at = "cover", !.stage = stage]]
      BY <2>8, <3>1
    <3>3. applies'[r] = [applies[r] EXCEPT !.at = "cover", !.stage = stage]
      BY <3>1, <3>2
    <3>4. [applies[r] EXCEPT !.at = "cover", !.stage = stage] \in Retrieval!Apply
      BY <2>7, <3>1 DEF Retrieval!Apply
    <3>5. /\ applies' \in [Requests -> Retrieval!Apply] /\ \A q \in Requests : q # r => applies'[q] = applies[q]
      BY <3>1, <3>2, <3>4
    <3>6. QED
      BY <3>1, <3>3, <3>5 DEF Retrieval!Apply
  <2>10. RowInOrder' /\ Retrieval!ReviewHasCandidates'
    BY <2>1, <2>2, <2>3, <2>6, InOrder, RecordsAssumption
    DEF RowInOrder, Retrieval!Completed, Retrieval!ReviewHasCandidates, Retrieval!Plain, Retrieval!Note
  <2>11. OneApplyInOrder(r)' /\ PictureInOrder(r)'
    BY <1>1, <2>1, <2>3, <2>6, <2>9, Named, InOrder, RecordsAssumption DEF OneApplyInOrder,
       PictureInOrder
  <2>12. Retrieval!ReceiptsAreTrue'
    <3> SUFFICES ASSUME ~mixed' PROVE Retrieval!ReceiptsAreTrue'
      BY DEF Retrieval!ReceiptsAreTrue
    <3>1. review.result.try = review.try /\ applies[r].result = review.result
      BY <1>1, <2>1, Unmixed, Named DEF Retrieval!ReceiptsAreTrue, Retrieval!Completed
    <3>2. review'.note.stage = "done" => ~(song'.cover = None /\ review'.result.cover)
      BY <2>3, <2>4, <2>6, <3>1
    <3>3. QED
      BY <2>6, <3>1, <3>2 DEF Retrieval!ReceiptsAreTrue, Retrieval!Completed
  <2>13. QED
    BY <1>1, <2>3, <2>6, <2>9, <2>10, <2>11, <2>12, RetrievalFacts, OneMoves
<1>4. QED
  BY <1>2, <1>3 DEF Retrieval!Batches

LEMMA ReceiptsKeep ==
    ASSUME Retrieval!IInv, Retrieval!Mixes, NEW r \in Requests, Retrieval!Receipts(r)
    PROVE  Retrieval!IInv'
<1>1. /\ song' = song /\ object' = object /\ mishaps' = mishaps /\ applies[r].at = "receipt"
      /\ applies' = [applies EXCEPT ![r].at = "settle", ![r].stage = "done"]
      /\ \/ review' = review
         \/ Retrieval!Held(r) /\ review' = [review EXCEPT !.note = Retrieval!Note("catalog", None, "done")]
  BY DEF Retrieval!Receipts, Retrieval!At
<1>2. /\ applies' \in [Requests -> Retrieval!Apply] /\ \A q \in Requests : q # r => applies'[q] = applies[q]
      /\ applies'[r].at = "settle" /\ applies'[r].stage = "done"
      /\ applies'[r].result = applies[r].result /\ applies'[r].payload = applies[r].payload
      /\ applies'[r].refreshed = applies[r].refreshed
      /\ applies'[r].retry <=> applies[r].retry
  <2>0. "settle" \in Retrieval!Place /\ "done" \in Retrieval!Stage
    BY Named
  <2>1. applies \in [Requests -> Retrieval!Apply] /\ applies[r] \in Retrieval!Apply
    BY RetrievalFacts
  <2>2. applies' = [applies EXCEPT ![r] = [applies[r] EXCEPT !.at = "settle", !.stage = "done"]]
    BY <1>1, <2>1
  <2>3. applies'[r] = [applies[r] EXCEPT !.at = "settle", !.stage = "done"]
    BY <2>1, <2>2
  <2>4. [applies[r] EXCEPT !.at = "settle", !.stage = "done"] \in Retrieval!Apply
    BY <2>0, <2>1 DEF Retrieval!Apply
  <2>5. /\ applies' \in [Requests -> Retrieval!Apply] /\ \A q \in Requests : q # r => applies'[q] = applies[q]
    BY <2>1, <2>2, <2>4
  <2>6. QED
    BY <2>1, <2>3, <2>5 DEF Retrieval!Apply
<1>3. PictureInOrder(r)'
  BY <1>2 DEF PictureInOrder
<1>4. ASSUME review'.try = review.try PROVE OneApplyInOrder(r)'
  BY <1>1, <1>2, <1>4, Named, InOrder DEF OneApplyInOrder
<1>5. CASE review' = review
  BY <1>1, <1>2, <1>3, <1>4, <1>5, RetrievalFacts, OneMovesAlone
<1>6. CASE Retrieval!Held(r) /\ review' = [review EXCEPT !.note = Retrieval!Note("catalog", None, "done")]
  <2>1. /\ Retrieval!Note("catalog", None, "done") \in Retrieval!Message
        /\ Retrieval!Note("catalog", None, "done").stage = "done" /\ Retrieval!Note("catalog", None, "done").kind = "catalog"
    BY Written, Named DEF Retrieval!Note
  <2>2. /\ review' \in Retrieval!Row /\ review'.note.kind = "catalog" /\ review'.note.stage = "done"
        /\ review'.status = review.status /\ review'.payload = review.payload /\ review'.try = review.try
        /\ review'.result = review.result
    BY <1>6, <2>1, NoteWritten
  <2>3. RowInOrder' /\ Retrieval!ReviewHasCandidates'
    BY <1>1, <2>2, InOrder, RecordsAssumption
    DEF RowInOrder, Retrieval!Completed, Retrieval!ReviewHasCandidates, Retrieval!Plain, Retrieval!Note
  <2>4. Retrieval!ReceiptsAreTrue'
    <3> SUFFICES ASSUME ~mixed' PROVE Retrieval!ReceiptsAreTrue'
      BY DEF Retrieval!ReceiptsAreTrue
    <3>1. review.result.cover /\ review.payload.source = song.source => song.cover # None
      BY <1>1, Unmixed, InOrder DEF PictureInOrder
    <3>2. QED
      BY <1>1, <2>2, <3>1, Unmixed DEF Retrieval!ReceiptsAreTrue, Retrieval!InTheCatalogue,
         Retrieval!Completed
  <2>5. QED
    BY <1>1, <1>2, <1>3, <1>4, <2>2, <2>3, <2>4, RetrievalFacts, OneMoves
<1>7. QED
  BY <1>1, <1>5, <1>6

LEMMA SettlesKeep ==
    ASSUME Retrieval!IInv, Retrieval!Mixes, NEW r \in Requests, Retrieval!Settles(r)
    PROVE  Retrieval!IInv'
<1>1. /\ song' = song /\ object' = object /\ mishaps' = mishaps /\ applies[r].at = "settle" /\ Retrieval!Goto(r, "end")
  BY DEF Retrieval!Settles, Retrieval!At
<1>2. ASSUME review'.try = review.try PROVE OneApplyInOrder(r)' /\ PictureInOrder(r)'
  BY <1>1, <1>2, Named, GoesOn, InOrder DEF OneApplyInOrder, PictureInOrder
<1>3. CASE review' = review
  BY <1>1, <1>2, <1>3, Named, GoesOn, RetrievalFacts, OneMovesAlone
<1>4. CASE review' # review
  <2>1. PICK kind \in {"null", "review", "pending"}, result \in Retrieval!Result,
             payload \in Retrieval!Payload \cup {None} :
          /\ review' = [review EXCEPT !.note = Retrieval!Plain(kind), !.result = result, !.payload = payload]
          /\ kind = IF ~applies[r].retry THEN "null" ELSE IF applies[r].result.choice THEN "review" ELSE "pending"
          /\ result = Retrieval!SettledResult(r)
          /\ payload = IF applies[r].refreshed = None THEN review.payload ELSE applies[r].refreshed
          /\ Retrieval!Completed
          /\ Retrieval!Mine(r) \/ (applies[r].stage = "done" /\ review.note = Retrieval!Note("catalog", None, "done"))
    <3>1. PICK kind \in {"null", "review", "pending"} :
             kind = IF ~applies[r].retry THEN "null" ELSE IF applies[r].result.choice THEN "review" ELSE "pending"
      BY RequestFacts
    <3>2. Retrieval!SettledResult(r) \in Retrieval!Result
      BY RetrievalFacts, RequestFacts DEF Retrieval!SettledResult, Retrieval!Result
    <3>3. PICK payload \in Retrieval!Payload \cup {None} :
             payload = IF applies[r].refreshed = None THEN review.payload ELSE applies[r].refreshed
      BY RetrievalFacts, RequestFacts
    <3>4. QED
      BY <1>4, <3>1, <3>2, <3>3 DEF Retrieval!Settles, Retrieval!Mine
  <2>2. /\ Retrieval!Plain(kind) \in Retrieval!Message /\ Retrieval!Plain(kind).kind = kind
        /\ Retrieval!Plain(kind).stage = None
    BY Written DEF Retrieval!Free, Retrieval!Plain, Retrieval!Note
  <2>3. /\ review' \in Retrieval!Row /\ review'.note = Retrieval!Plain(kind) /\ review'.result = result
        /\ review'.payload = payload /\ review'.status = review.status /\ review'.try = review.try
    BY <2>1, <2>2, RetrievalFacts DEF Retrieval!Row
  <2>4. /\ result.try = IF applies[r].retry /\ applies[r].result.choice THEN applies[r].result.try ELSE review.result.try
        /\ applies[r].retry /\ applies[r].result.choice => result.kind = "candidates"
        /\ ~applies[r].retry => result = review.result
    BY <2>1, RequestFacts DEF Retrieval!SettledResult, Retrieval!Result
  <2>5. RowInOrder'
    BY <1>1, <2>1, <2>2, <2>3, <2>4, Named, InOrder, RecordsAssumption DEF RowInOrder,
       OneApplyInOrder, Retrieval!Completed
  <2>6. Retrieval!ReviewHasCandidates'
    BY <2>1, <2>2, <2>3, <2>4 DEF Retrieval!ReviewHasCandidates, Retrieval!Plain,
       Retrieval!Note
  <2>7. Retrieval!ReceiptsAreTrue'
    <3> SUFFICES ASSUME ~mixed' PROVE Retrieval!ReceiptsAreTrue'
      BY DEF Retrieval!ReceiptsAreTrue
    <3>1. applies[r].result = review.result /\ result.try = review.try /\ review'.status = "completed"
      BY <1>1, <2>1, <2>3, <2>4, Named, Unmixed DEF Retrieval!ReceiptsAreTrue,
         Retrieval!Completed
    <3>2. CASE applies[r].retry
      <4>1. Retrieval!Mine(r) /\ applies[r].stage = None
        BY <2>1, <3>2, InOrder, RecordsAssumption DEF OneApplyInOrder
      <4>2. review.note.kind = "applying" /\ review.note.stage = None
        BY <4>1 DEF Retrieval!Mine, Retrieval!Note
      <4>3. ~Retrieval!InTheCatalogue
        BY <4>2, Unmixed DEF Retrieval!ReceiptsAreTrue
      <4>4. ~Retrieval!InTheCatalogue'
        BY <1>1, <2>1, <2>3, <3>1, <4>3, Unmixed DEF Retrieval!InTheCatalogue,
           Retrieval!Completed, Retrieval!ReceiptsAreTrue
      <4>5. QED
        BY <2>3, <3>1, <4>4 DEF Retrieval!ReceiptsAreTrue
    <3>3. CASE ~applies[r].retry
      <4>1. applies[r].stage \in {None, "done"} /\ applies[r].refreshed = None
        BY <1>1, <3>3, InOrder DEF OneApplyInOrder
      <4>2. \/ review.note.kind = "applying" /\ review.note.stage = None
            \/ review.note.stage = "done"
        BY <2>1, <4>1 DEF Retrieval!Mine, Retrieval!Note
      <4>3. review'.note.kind = "null" /\ review'.result = review.result /\ review'.payload = review.payload
        BY <2>1, <2>2, <2>3, <2>4, <3>3, <4>1
      <4>4. QED
        BY <1>1, <2>3, <4>2, <4>3, Unmixed DEF Retrieval!ReceiptsAreTrue,
           Retrieval!InTheCatalogue, Retrieval!Completed
    <3>4. QED
      BY <3>2, <3>3
  <2>8. QED
    BY <1>1, <1>2, <2>3, <2>5, <2>6, <2>7, Named, GoesOn, RetrievalFacts, OneMoves
<1>5. QED
  BY <1>3, <1>4

LEMMA CoverFailsKeeps ==
    ASSUME Retrieval!IInv, Retrieval!Mixes, NEW r \in Requests, Retrieval!CoverFails(r)
    PROVE  Retrieval!IInv'
<1>1. /\ song' = song /\ object' = object /\ applies[r].at = "put" /\ Retrieval!Goto(r, "end")
      /\ \/ review' = review
         \/ Retrieval!Mine(r) /\ review' = [review EXCEPT !.note = Retrieval!Note("catalog", None, applies[r].stage)]
  BY DEF Retrieval!CoverFails, Retrieval!At
<1>2. mishaps' \in 0..MaxFaults
  BY RetrievalFacts, RecordsAssumption DEF Retrieval!CoverFails
<1>3. ASSUME review'.try = review.try PROVE OneApplyInOrder(r)' /\ PictureInOrder(r)'
  BY <1>1, <1>3, Named, GoesOn, InOrder DEF OneApplyInOrder, PictureInOrder
<1>4. CASE review' = review
  BY <1>1, <1>2, <1>3, <1>4, Named, GoesOn, RetrievalFacts, OneMovesAlone
<1>5. CASE Retrieval!Mine(r) /\ review' = [review EXCEPT !.note = Retrieval!Note("catalog", None, applies[r].stage)]
  <2>1. /\ Retrieval!Note("catalog", None, applies[r].stage) \in Retrieval!Message
        /\ Retrieval!Note("catalog", None, applies[r].stage).stage = applies[r].stage
        /\ Retrieval!Note("catalog", None, applies[r].stage).kind = "catalog"
    BY Written, RequestFacts DEF Retrieval!Note
  <2>2. /\ review' \in Retrieval!Row /\ review'.note.kind = "catalog" /\ review'.note.stage = applies[r].stage
        /\ review'.status = review.status /\ review'.payload = review.payload /\ review'.try = review.try
        /\ review'.result = review.result
    BY <1>5, <2>1, NoteWritten
  <2>3. review.note.stage = applies[r].stage /\ review.note.kind = "applying" /\ applies[r].stage # None
    BY <1>1, <1>5, InOrder DEF Retrieval!Mine, Retrieval!Note, OneApplyInOrder
  <2>4. RowInOrder' /\ Retrieval!ReviewHasCandidates'
    BY <1>1, <2>2, <2>3, InOrder
    DEF RowInOrder, Retrieval!Completed, Retrieval!ReviewHasCandidates, Retrieval!Plain, Retrieval!Note
  <2>5. Retrieval!ReceiptsAreTrue'
    <3> SUFFICES ASSUME ~mixed' PROVE Retrieval!ReceiptsAreTrue'
      BY DEF Retrieval!ReceiptsAreTrue
    <3>1. QED
      BY <1>1, <2>2, <2>3, Unmixed DEF Retrieval!ReceiptsAreTrue, Retrieval!InTheCatalogue,
         Retrieval!Completed
  <2>6. QED
    BY <1>1, <1>2, <1>3, <2>2, <2>4, <2>5, Named, GoesOn, RetrievalFacts, OneMoves
<1>6. QED
  BY <1>1, <1>4, <1>5

LEMMA LeaseEndsKeeps ==
    ASSUME Retrieval!IInv, Retrieval!Mixes, Retrieval!LeaseEnds
    PROVE  Retrieval!IInv'
<1>1. /\ song' = song /\ object' = object /\ applies' = applies /\ review.note.kind = "applying"
      /\ review' = [review EXCEPT !.note = IF review.note.stage = None THEN Retrieval!Plain("pending")
                                           ELSE Retrieval!Note("catalog", None, review.note.stage)]
  BY DEF Retrieval!LeaseEnds, Retrieval!Marked
<1>2. mishaps' \in 0..MaxFaults
  BY RetrievalFacts, RecordsAssumption DEF Retrieval!LeaseEnds
<1>3. PICK note \in Retrieval!Message :
         /\ review' = [review EXCEPT !.note = note] /\ note.stage = review.note.stage
         /\ \/ review.note.stage = None /\ note.kind = "pending"
            \/ review.note.stage # None /\ note.kind = "catalog"
  <2>1. Retrieval!Plain("pending") \in Retrieval!Message /\ Retrieval!Note("catalog", None, review.note.stage) \in Retrieval!Message
    BY RetrievalFacts, Written
  <2>2. QED
    BY <1>1, <2>1 DEF Retrieval!Plain, Retrieval!Note
<1>4. /\ review' \in Retrieval!Row /\ review'.note = note
      /\ review'.status = review.status /\ review'.payload = review.payload /\ review'.try = review.try
      /\ review'.result = review.result
  BY <1>3, NoteWritten
<1>5. ASSUME NEW r \in Requests PROVE OneApplyInOrder(r)' /\ (~mixed' => PictureInOrder(r)')
  BY <1>1, <1>4, InOrder, Unmixed DEF OneApplyInOrder, PictureInOrder
<1>6. RowInOrder' /\ Retrieval!ReviewHasCandidates'
  BY <1>1, <1>3, <1>4, InOrder
  DEF RowInOrder, Retrieval!Completed, Retrieval!ReviewHasCandidates, Retrieval!Plain, Retrieval!Note
<1>7. Retrieval!ReceiptsAreTrue'
  <2> SUFFICES ASSUME ~mixed' PROVE Retrieval!ReceiptsAreTrue'
    BY DEF Retrieval!ReceiptsAreTrue
  <2>1. QED
    BY <1>1, <1>3, <1>4, Unmixed DEF Retrieval!ReceiptsAreTrue, Retrieval!InTheCatalogue,
       Retrieval!Completed
<1>8. QED
  BY <1>1, <1>2, <1>4, <1>5, <1>6, <1>7, RetrievalFacts, OneMoves

LEMMA FailsKeeps ==
    ASSUME Retrieval!IInv, Retrieval!Mixes, Retrieval!Fails
    PROVE  Retrieval!IInv'
<1>1. /\ song' = song /\ object' = object /\ mishaps' = mishaps /\ applies' = applies /\ review.status = "claimed"
      /\ \E status \in {"queued", "failed"} : review' = [review EXCEPT !.status = status]
  BY DEF Retrieval!Fails
<1>2. PICK status \in {"queued", "failed"} : review' = [review EXCEPT !.status = status]
  BY <1>1
<1>3. /\ review' \in Retrieval!Row /\ review'.status = status /\ review'.note = review.note
      /\ review'.payload = review.payload /\ review'.try = review.try /\ review'.result = review.result
  BY <1>2, Named, RetrievalFacts DEF Retrieval!Row
<1>4. ASSUME NEW r \in Requests PROVE OneApplyInOrder(r)' /\ (~mixed' => PictureInOrder(r)')
  BY <1>1, <1>3, InOrder, Unmixed DEF OneApplyInOrder, PictureInOrder
<1>5. RowInOrder' /\ Retrieval!ReviewHasCandidates' /\ Retrieval!ReceiptsAreTrue'
  BY <1>1, <1>3, InOrder, RecordsAssumption
  DEF RowInOrder, Retrieval!Completed, Retrieval!ReviewHasCandidates, Retrieval!ReceiptsAreTrue, Retrieval!InTheCatalogue
<1>6. QED
  BY <1>1, <1>3, <1>4, <1>5, RetrievalFacts, OneMoves

\* The picture is linked or deleted.
LEMMA PictureKeeps ==
    ASSUME Retrieval!IInv, Retrieval!Mixes, NEW r \in Requests, Retrieval!CoverLinks(r) \/ Retrieval!CoverDeletes(r)
    PROVE  Retrieval!IInv'
<1>1. PICK at \in {"receipt", "unput"} :
      /\ mishaps' = mishaps /\ review' = review /\ Retrieval!Goto(r, at) /\ applies[r].at \in {"link", "unput"}
      /\ \/ song' = song /\ applies[r].at = "unput" /\ object' = FALSE /\ at = "receipt"
         \/ /\ song' = [song EXCEPT !.cover = "found"] /\ applies[r].at = "link" /\ object' = object /\ at = "receipt"
            /\ song.cover = None /\ song.source = applies[r].payload.source
         \/ /\ song' = song /\ applies[r].at = "link" /\ object' = object
            /\ at = (IF song.cover = "found" THEN "receipt" ELSE "unput")
            /\ ~(song.cover = None /\ song.source = applies[r].payload.source)
  BY DEF Retrieval!CoverLinks, Retrieval!CoverDeletes, Retrieval!At, Retrieval!LinkedAlready
<1>2. /\ applies' \in [Requests -> Retrieval!Apply] /\ applies'[r].at = at
      /\ \A q \in Requests : q # r => applies'[q] = applies[q]
      /\ applies'[r].result = applies[r].result /\ applies'[r].payload = applies[r].payload
      /\ applies'[r].refreshed = applies[r].refreshed /\ applies'[r].stage = applies[r].stage
      /\ applies'[r].retry <=> applies[r].retry
  BY <1>1, Named, GoesOn
<1>3. /\ song' \in Retrieval!Song /\ song'.edits = song.edits /\ song'.source = song.source /\ song'.tags = song.tags
      /\ song'.found <=> song.found
      /\ song'.cover \in {song.cover, "found"}
  BY <1>1, Named, RetrievalFacts DEF Retrieval!Song
<1>4. Retrieval!TypeOK'
  BY <1>1, <1>2, <1>3, RetrievalFacts DEF Retrieval!TypeOK, Retrieval!Mixes
<1>5. ASSUME NEW q \in Requests PROVE OneApplyInOrder(q)'
  BY <1>1, <1>2, <1>3, Named, InOrder DEF OneApplyInOrder
<1>6. RowInOrder' /\ Retrieval!ReviewHasCandidates'
  BY <1>1, <1>3, InOrder DEF RowInOrder, Retrieval!Completed, Retrieval!ReviewHasCandidates
<1>7. Retrieval!SourcesInOrder' /\ Retrieval!ApplyInOrder'
  BY <1>3, <1>5, <1>6, InOrder DEF RowInOrder, OneApplyInOrder, Retrieval!SourcesInOrder,
     Retrieval!ApplyInOrder
<1>8. Retrieval!TriesInOrder'
  BY <1>5, <1>6, RecordsAssumption DEF RowInOrder, OneApplyInOrder, Retrieval!TriesInOrder,
     Retrieval!Completed
<1>9. /\ Retrieval!PicturesInOrder' /\ Retrieval!ReceiptsAreTrue'
  <2> SUFFICES ASSUME ~mixed' PROVE Retrieval!PicturesInOrder' /\ Retrieval!ReceiptsAreTrue'
    BY DEF Retrieval!PicturesInOrder, Retrieval!ReceiptsAreTrue
  <2>1. applies[r].payload = review.payload
    BY <1>1, Named, Unmixed
  <2>2. ASSUME song' = song, applies[r].at = "unput", at = "receipt"
        PROVE  (\A q \in Requests : PictureInOrder(q)') /\ (song'.cover = "found" => object')
    <3>1. song.cover = "own" \/ (song.cover = None /\ review.payload.source # song.source)
      BY <2>2, InOrder, Unmixed DEF PictureInOrder
    <3>2. ASSUME NEW q \in Requests PROVE PictureInOrder(q)'
      BY <1>1, <1>2, <2>2, <3>1, InOrder, Unmixed, RecordsAssumption DEF PictureInOrder
    <3>3. song'.cover # "found"
      BY <2>2, <3>1, RecordsAssumption
    <3>4. QED
      BY <3>2, <3>3
  <2>3. ASSUME song' = [song EXCEPT !.cover = "found"], applies[r].at = "link", object' = object, at = "receipt",
               song.cover = None, song.source = applies[r].payload.source
        PROVE  (\A q \in Requests : PictureInOrder(q)') /\ (song'.cover = "found" => object')
    <3>1. song'.cover = "found" /\ object' /\ review.payload.source = song.source
      BY <2>1, <2>3, InOrder, Unmixed, RetrievalFacts, RecordsAssumption DEF PictureInOrder,
         Retrieval!Song
    <3>2. ASSUME NEW q \in Requests PROVE PictureInOrder(q)'
      BY <1>1, <1>2, <1>3, <2>3, <3>1, InOrder, Unmixed, RecordsAssumption
         DEF PictureInOrder
    <3>3. QED
      BY <3>1, <3>2
  <2>4. ASSUME song' = song, applies[r].at = "link", object' = object,
               at = (IF song.cover = "found" THEN "receipt" ELSE "unput"),
               ~(song.cover = None /\ song.source = applies[r].payload.source)
        PROVE  (\A q \in Requests : PictureInOrder(q)') /\ (song'.cover = "found" => object')
    <3>1. song.cover \in {None, "own", "found"}
      BY RetrievalFacts DEF Retrieval!Picture
    <3>2. ASSUME NEW q \in Requests PROVE PictureInOrder(q)'
      BY <1>1, <1>2, <2>1, <2>4, <3>1, InOrder, Unmixed, RecordsAssumption
         DEF PictureInOrder
    <3>3. QED
      BY <2>4, <3>2, Unmixed DEF Retrieval!PicturesInOrder
  <2>5. (\A q \in Requests : PictureInOrder(q)') /\ (song'.cover = "found" => object')
    BY <1>1, <2>2, <2>3, <2>4
  <2>6. Retrieval!PicturesInOrder'
    BY <2>5, Unmixed DEF Retrieval!PicturesInOrder, PictureInOrder, Retrieval!OfTheRow,
       Retrieval!At
  <2>7. Retrieval!ReceiptsAreTrue'
    BY <1>1, <1>3, Unmixed, RecordsAssumption DEF Retrieval!ReceiptsAreTrue,
       Retrieval!InTheCatalogue, Retrieval!Completed
  <2>8. QED
    BY <2>6, <2>7
<1>10. QED
  BY <1>4, <1>6, <1>7, <1>8, <1>9 DEF Retrieval!IInv

LEMMA SubmitsKeeps ==
    ASSUME Retrieval!IInv, Retrieval!Mixes, NEW r \in Requests, Retrieval!Submits(r)
    PROVE  Retrieval!IInv'
<1>0. song' = song /\ object' = object /\ mishaps' = mishaps /\ review.status = "claimed" /\ applies[r].at = "new"
  BY DEF Retrieval!Submits, Retrieval!At
<1>1. /\ song' = song /\ object' = object /\ mishaps' = mishaps /\ review.status = "claimed"
      /\ review.payload # None /\ review.try \in 1..MaxTries
  <2>1. (review.status = "claimed" => review.try > 0) /\ (review.status # None => review.payload # None)
    BY DEF Retrieval!IInv, Retrieval!TriesInOrder
  <2>2. review.try \in 0..MaxTries
    BY RetrievalFacts, Zenon
  <2>3. QED
    BY <1>0, <2>1, <2>2, RecordsAssumption
<1>2. PICK kind \in {"pending", "review"} :
      /\ review' \in Retrieval!Row /\ review'.status = "completed" /\ review'.payload = review.payload
      /\ review'.try = review.try /\ review'.result.try = review.try /\ review'.note = Retrieval!Plain(kind)
      /\ kind = "review" => applies' = applies /\ review'.result.kind = "candidates"
      /\ kind = "pending" => Retrieval!Takes(r, review'.result, review.payload, "start")
  <2>1. ASSUME NEW cover \in BOOLEAN,
               review' = [review EXCEPT !.status = "completed",
                            !.result = [Retrieval!Nothing EXCEPT !.kind = "match", !.try = review.try, !.cover = cover],
                            !.note = Retrieval!Plain("pending")]
        PROVE  /\ review' \in Retrieval!Row /\ review'.status = "completed" /\ review'.payload = review.payload
               /\ review'.try = review.try /\ review'.result.try = review.try
               /\ review'.note = Retrieval!Plain("pending")
               /\ review'.result = [Retrieval!Nothing EXCEPT !.kind = "match", !.try = review.try, !.cover = cover]
    <3>1. [Retrieval!Nothing EXCEPT !.kind = "match", !.try = review.try, !.cover = cover] \in Retrieval!Result
      BY RetrievalFacts DEF Retrieval!Nothing, Retrieval!Result
    <3>2. [Retrieval!Nothing EXCEPT !.kind = "match", !.try = review.try, !.cover = cover].try = review.try
      BY DEF Retrieval!Nothing
    <3>3. /\ review \in Retrieval!Row /\ Retrieval!Plain("pending") \in Retrieval!Message
          /\ "completed" \in Retrieval!Status
      BY RetrievalFacts, Written, Named DEF Retrieval!Free
    <3>4. QED
      BY <2>1, <3>1, <3>2, <3>3, RetrievalFacts, Named DEF Retrieval!Row
  <2>2. ASSUME review' = [review EXCEPT !.status = "completed", !.note = Retrieval!Plain("review"),
                            !.result = [Retrieval!Nothing EXCEPT !.kind = "candidates", !.try = review.try]]
        PROVE  /\ review' \in Retrieval!Row /\ review'.status = "completed" /\ review'.payload = review.payload
               /\ review'.try = review.try /\ review'.result.try = review.try
               /\ review'.note = Retrieval!Plain("review") /\ review'.result.kind = "candidates"
    <3>1. [Retrieval!Nothing EXCEPT !.kind = "candidates", !.try = review.try] \in Retrieval!Result
      BY RetrievalFacts DEF Retrieval!Nothing, Retrieval!Result
    <3>2. /\ [Retrieval!Nothing EXCEPT !.kind = "candidates", !.try = review.try].try = review.try
          /\ [Retrieval!Nothing EXCEPT !.kind = "candidates", !.try = review.try].kind = "candidates"
      BY DEF Retrieval!Nothing
    <3>3. Retrieval!Plain("review") \in Retrieval!Message
      BY Written DEF Retrieval!Free
    <3>4. QED
      BY <2>2, <3>1, <3>2, <3>3, RetrievalFacts, Named DEF Retrieval!Row
  <2>3. QED
    BY <2>1, <2>2, Zenon DEF Retrieval!Submits
<1>3. review'.result \in Retrieval!Result
  BY <1>2 DEF Retrieval!Row
<1>4. /\ applies' \in [Requests -> Retrieval!Apply]
      /\ \A q \in Requests : \/ applies'[q] = applies[q]
                             \/ /\ applies'[q].at = "start" /\ applies'[q].result = review'.result
                                /\ applies'[q].payload = review.payload /\ applies'[q].stage = None
                                /\ ~applies'[q].retry /\ applies'[q].refreshed = None
  <2>1. CASE kind = "review"
    BY <1>2, <2>1, RetrievalFacts
  <2>2. CASE kind = "pending"
    <3>1. "start" \in Retrieval!Place
      BY Named
    <3>2. PICK result \in Retrieval!Result : result = review'.result
      BY <1>3
    <3>3. Retrieval!Takes(r, result, review.payload, "start") /\ review.payload \in Retrieval!Payload \cup {None}
      BY <1>2, <2>2, <3>2, RetrievalFacts
    <3>4. QED
      BY <3>1, <3>2, <3>3, TakesWhole
  <2>3. QED
    BY <2>1, <2>2
<1>5. Retrieval!TypeOK'
  BY <1>1, <1>2, <1>4, RetrievalFacts DEF Retrieval!TypeOK, Retrieval!Mixes
<1>6. Retrieval!SourcesInOrder' /\ Retrieval!ReviewHasCandidates'
  <2>1. Retrieval!SourcesInOrder'
    BY <1>1, <1>2, <1>4 DEF Retrieval!IInv, Retrieval!SourcesInOrder
  <2>2. Retrieval!ReviewHasCandidates'
    BY <1>2 DEF Retrieval!ReviewHasCandidates, Retrieval!Plain, Retrieval!Note
  <2>3. QED
    BY <2>1, <2>2
<1>7. Retrieval!TriesInOrder'
  BY <1>1, <1>2, <1>4, Named DEF Retrieval!IInv, Retrieval!TriesInOrder, Retrieval!Completed
<1>8. Retrieval!ApplyInOrder'
  BY <1>2, <1>4 DEF Retrieval!IInv, Retrieval!ApplyInOrder, Retrieval!Plain, Retrieval!Note
<1>9. Retrieval!PicturesInOrder'
  <2> SUFFICES ASSUME ~mixed' PROVE Retrieval!PicturesInOrder'
    BY DEF Retrieval!PicturesInOrder
  <2>1. QED
    BY <1>1, <1>2, <1>4, Unmixed, Named DEF Retrieval!PicturesInOrder, Retrieval!OfTheRow,
       Retrieval!At
<1>10. Retrieval!ReceiptsAreTrue'
  <2>1. song.found => -song.tags # review.try /\ song.tags \in Int
    BY <1>1, RetrievalFacts, RecordsAssumption DEF Retrieval!IInv, Retrieval!TriesInOrder,
       Retrieval!Tags
  <2>2. ~Retrieval!InTheCatalogue'
    BY <1>1, <1>2, <2>1 DEF Retrieval!InTheCatalogue
  <2>3. QED
    BY <1>2, <2>2 DEF Retrieval!ReceiptsAreTrue
<1>11. QED
  BY <1>5, <1>6, <1>7, <1>8, <1>9, <1>10, SMTT(30) DEF Retrieval!IInv


LEMMA RetrievalStart == Retrieval!Init => Retrieval!IInv
<1> SUFFICES ASSUME Retrieval!Init PROVE Retrieval!IInv
  OBVIOUS
<1>1. Retrieval!TypeOK
  <2>1. Retrieval!Nothing \in Retrieval!Result
    BY RecordsAssumption DEF Retrieval!Nothing, Retrieval!Result
  <2>2. Retrieval!Off \in Retrieval!Apply
    BY <2>1, Named DEF Retrieval!Off, Retrieval!Apply
  <2>3. Retrieval!Plain("null") \in Retrieval!Message
    BY Named DEF Retrieval!Plain, Retrieval!Note, Retrieval!Message, Retrieval!Free
  <2>4. None \in Retrieval!Status
    BY DEF Retrieval!Status
  <2>5. review \in Retrieval!Row
    BY <2>1, <2>3, <2>4, RecordsAssumption DEF Retrieval!Init, Retrieval!Row
  <2>6. song \in Retrieval!Song
    BY Named, RecordsAssumption DEF Retrieval!Init, Retrieval!Song, Retrieval!Tags
  <2>7. applies \in [Requests -> Retrieval!Apply]
    BY <2>2 DEF Retrieval!Init
  <2>8. mishaps \in 0..MaxFaults
    <3>1. mishaps = 0
      BY DEF Retrieval!Init
    <3>2. QED
      BY <3>1, RecordsAssumption
  <2>9. QED
    BY <2>5, <2>6, <2>7, <2>8 DEF Retrieval!Init, Retrieval!TypeOK
<1>2. \A r \in Requests : /\ applies[r].at = "new" /\ applies[r].payload = None /\ applies[r].refreshed = None
                           /\ ~applies[r].retry
  BY DEF Retrieval!Init, Retrieval!Off
<1>3. /\ song.source = 0 /\ song.edits = 0 /\ ~song.found /\ song.cover = None
      /\ review.status = None /\ review.payload = None
      /\ review.note = Retrieval!Plain("null")
  BY DEF Retrieval!Init
<1>4. Retrieval!SourcesInOrder /\ Retrieval!TriesInOrder
  BY <1>2, <1>3, Named, RecordsAssumption DEF Retrieval!SourcesInOrder,
     Retrieval!TriesInOrder, Retrieval!Completed
<1>5. Retrieval!ApplyInOrder
  BY <1>2, <1>3 DEF Retrieval!ApplyInOrder, Retrieval!Plain, Retrieval!Note
<1>6. Retrieval!PicturesInOrder
  BY <1>2, <1>3, Named, RecordsAssumption DEF Retrieval!PicturesInOrder, Retrieval!At
<1>7. Retrieval!ReceiptsAreTrue /\ Retrieval!ReviewHasCandidates
  BY <1>3, RecordsAssumption
  DEF Retrieval!ReceiptsAreTrue, Retrieval!ReviewHasCandidates, Retrieval!Completed, Retrieval!InTheCatalogue
<1>8. QED
  BY <1>1, <1>4, <1>5, <1>6, <1>7 DEF Retrieval!IInv

LEMMA RetrievalStepKeeps == Retrieval!IInv /\ Retrieval!Next => Retrieval!IInv'
<1> SUFFICES ASSUME Retrieval!IInv, Retrieval!Next PROVE Retrieval!IInv'
  OBVIOUS
<1>1. Retrieval!Mixes
  BY DEF Retrieval!Next
<1>2. CASE Retrieval!Edits \/ Retrieval!dispatchRetrievalBatch \/ Retrieval!Claims \/ Retrieval!Fails \/ Retrieval!LeaseEnds
  BY <1>1, <1>2, EditsKeeps, dispatchRetrievalBatchKeeps, ClaimsKeeps, FailsKeeps,
     LeaseEndsKeeps
<1>3. ASSUME NEW r \in Requests, Retrieval!Submits(r) \/ Retrieval!ReviewReads(r) \/ Retrieval!RecoverReads(r)
      PROVE  Retrieval!IInv'
  BY <1>1, <1>3, SubmitsKeeps, ReadsKeep
<1>4. ASSUME NEW r \in Requests, Retrieval!Reviews(r) PROVE Retrieval!IInv'
  BY <1>1, <1>4, ReviewKeepsKeeps, ReviewRetriesKeeps, ReviewAppliesKeeps, ReviewGoneKeeps
     DEF Retrieval!Reviews
<1>5. ASSUME NEW r \in Requests, Retrieval!Applies(r) PROVE Retrieval!IInv'
  BY <1>1, <1>5, AcquiresKeeps, LooksKeeps, BatchesKeeps, CoverLooksKeeps, CoverPutsKeeps,
     PictureKeeps, ReceiptsKeep, SettlesKeep
  DEF Retrieval!Applies
<1>6. ASSUME NEW r \in Requests, Retrieval!CoverFails(r) \/ Retrieval!Dies(r) PROVE Retrieval!IInv'
  BY <1>1, <1>6, CoverFailsKeeps, DiesKeeps
<1>7. QED
  BY <1>2, <1>3, <1>4, <1>5, <1>6 DEF Retrieval!Next

LEMMA RetrievalStays == Retrieval!IInv /\ UNCHANGED retrievalVars => Retrieval!IInv'
<1> SUFFICES ASSUME Retrieval!IInv, UNCHANGED retrievalVars PROVE Retrieval!IInv'
  OBVIOUS
<1>1. song' = song /\ object' = object /\ review' = review /\ applies' = applies /\ mishaps' = mishaps /\ mixed' = mixed
  BY DEF retrievalVars
<1>2. Retrieval!TypeOK' /\ Retrieval!SourcesInOrder'
  BY <1>1 DEF Retrieval!IInv, Retrieval!TypeOK, Retrieval!SourcesInOrder
<1>3. Retrieval!TriesInOrder' /\ Retrieval!ApplyInOrder'
  BY <1>1 DEF Retrieval!IInv, Retrieval!TriesInOrder, Retrieval!ApplyInOrder,
     Retrieval!Completed
<1>4. Retrieval!PicturesInOrder'
  BY <1>1 DEF Retrieval!IInv, Retrieval!PicturesInOrder, Retrieval!OfTheRow, Retrieval!At
<1>5. Retrieval!ReceiptsAreTrue' /\ Retrieval!ReviewHasCandidates'
  BY <1>1 DEF Retrieval!IInv, Retrieval!ReceiptsAreTrue, Retrieval!ReviewHasCandidates,
     Retrieval!Completed, Retrieval!InTheCatalogue
<1>6. QED
  BY <1>2, <1>3, <1>4, <1>5 DEF Retrieval!IInv

-----------------------------------------------------------------------------
(* Invite codes and activations.                                           *)

\* The types of what a request looks at.
LEMMA ActivationFacts ==
    ASSUME IInv
    PROVE  /\ now \in 0..MaxTime /\ users \in [Users -> State \cup {None}] /\ stamp \in [Users -> State]
           /\ used \in [Codes -> Nat] /\ revoked \subseteq Codes /\ redeemed \subseteq Codes \X Users
           /\ paid \in [Users -> Nat] /\ deaths \in 0..MaxDeaths /\ overlap \in BOOLEAN /\ granted \subseteq Users
           /\ handler \in [Handlers -> Request]
           /\ \A h \in Handlers : /\ handler[h] \in Request /\ handler[h].user \in Users \cup {None}
                                  /\ handler[h].code \in Codes \cup {None} /\ handler[h].next \in State \cup {None}
           /\ \A h \in Handlers : RequestInOrder(h)
           /\ \A u \in Members : users[u] # None
           /\ \A s \in State : s.until \in Nat \cup {None} /\ s.status \in {"permanent", "active_until", "disabled"}
<1>1. handler \in [Handlers -> Request]
  BY DEF IInv, TypeOK
<1>2. ASSUME NEW h \in Handlers
      PROVE  /\ handler[h] \in Request /\ handler[h].user \in Users \cup {None}
             /\ handler[h].code \in Codes \cup {None} /\ handler[h].next \in State \cup {None}
  BY <1>1 DEF Request
<1>3. \A s \in State : s.until \in Nat \cup {None} /\ s.status \in {"permanent", "active_until", "disabled"}
  BY DEF State
<1>4. QED
  BY <1>1, <1>2, <1>3 DEF IInv, TypeOK, RequestsInOrder

LEMMA IdleIsOne ==
    /\ Idle \in Request /\ Idle.pc = "idle" /\ Idle.user = None /\ ~Idle.fresh
    /\ Disabled \in State /\ Disabled.status = "disabled" /\ Disabled.until = None
    /\ None \notin Users /\ None \notin Codes /\ None \notin Nat /\ None \notin State
<1>1. Idle \in Request
  BY DEF Idle, Request
<1>2. Disabled \in State
  BY DEF Disabled, State
<1>3. QED
  BY <1>1, <1>2, ActivationAssumption, RecordsAssumption DEF Idle, Disabled

\* A request that goes to another place.
LEMMA RequestGoes ==
    ASSUME IInv, NEW h \in Handlers, NEW pc \in {"create", "check", "read", "batch", "restamp", "undo"}, Goto(h, pc)
    PROVE  /\ handler' \in [Handlers -> Request] /\ \A g \in Handlers : g # h => handler'[g] = handler[g]
           /\ handler'[h].pc = pc /\ handler'[h].user = handler[h].user /\ handler'[h].code = handler[h].code
           /\ handler'[h].next = handler[h].next /\ (handler'[h].fresh <=> handler[h].fresh)
<1>1. handler \in [Handlers -> Request] /\ handler[h] \in Request
  BY ActivationFacts
<1>2. [handler[h] EXCEPT !.pc = pc] \in Request
  BY <1>1 DEF Request
<1>3. handler' = [handler EXCEPT ![h] = [handler[h] EXCEPT !.pc = pc]]
  BY <1>1 DEF Goto
<1>4. /\ handler' \in [Handlers -> Request] /\ \A g \in Handlers : g # h => handler'[g] = handler[g]
      /\ handler'[h] = [handler[h] EXCEPT !.pc = pc]
  BY <1>1, <1>2, <1>3
<1>5. QED
  BY <1>1, <1>4 DEF Request

\* A request that is over.
LEMMA RequestReturns ==
    ASSUME IInv, NEW h \in Handlers, Return(h)
    PROVE  /\ handler' \in [Handlers -> Request] /\ \A g \in Handlers : g # h => handler'[g] = handler[g]
           /\ handler'[h].pc = "idle" /\ ~handler'[h].fresh
<1>1. handler \in [Handlers -> Request]
  BY ActivationFacts
<1>2. QED
  BY <1>1, IdleIsOne DEF Return

\* A request that is refused is over, or takes the account back that it has made.
LEMMA RequestRefused ==
    ASSUME IInv, NEW h \in Handlers, Refuse(h)
    PROVE  /\ handler' \in [Handlers -> Request] /\ \A g \in Handlers : g # h => handler'[g] = handler[g]
           /\ \/ handler'[h].pc = "idle" /\ ~handler'[h].fresh
              \/ handler'[h].pc = "undo" /\ handler'[h].fresh /\ handler[h].fresh /\ handler'[h].user = handler[h].user
<1>1. CASE handler[h].fresh
  BY <1>1, RequestGoes DEF Refuse
<1>2. CASE ~handler[h].fresh
  BY <1>2, RequestReturns DEF Refuse
<1>3. QED
  BY <1>1, <1>2

\* A request that begins.
LEMMA RequestBegins ==
    ASSUME IInv, NEW h \in Handlers, NEW r \in Request, handler' = [handler EXCEPT ![h] = r]
    PROVE  handler' \in [Handlers -> Request] /\ handler'[h] = r /\ \A g \in Handlers : g # h => handler'[g] = handler[g]
BY ActivationFacts

\* Who is alone.
LEMMA ActivationAlone ==
    ASSUME IInv, Watch, ~overlap'
    PROVE  /\ ~overlap /\ \A h, g \in Handlers : handler'[h].pc # "idle" /\ handler'[g].pc # "idle" => h = g
           /\ \A h, g \in Handlers : handler[h].pc # "idle" /\ handler[g].pc # "idle" => h = g
<1>1. ~overlap /\ ~(Cardinality({h \in Handlers : handler'[h].pc # "idle"}) > 1)
  BY ActivationFacts DEF Watch
<1>2. IsFiniteSet({x \in Handlers : handler'[x].pc # "idle"})
  BY RecordsAssumption, FS_Subset
<1>3. QED
  BY <1>1, <1>2, AtMostOne DEF IInv, OneAtATime, UnderWay

\* What every step keeps.
LEMMA Watched ==
    ASSUME IInv, Watch
    PROVE  /\ overlap' \in BOOLEAN /\ (overlap => overlap') /\ OneAtATime'
           /\ granted' \subseteq Users /\ granted \subseteq granted'
<1>1. OneAtATime'
  BY ActivationAlone DEF OneAtATime, UnderWay
<1>2. QED
  BY <1>1, ActivationFacts DEF Watch

\* Counters stay true as long as nobody redeems and nobody new gets past the check.
LEMMA CountersStay ==
    ASSUME IInv, Watch, redeemed' = redeemed, used' = used, revoked \subseteq revoked',
           \A h \in Handlers : handler'[h].pc \in {"read", "batch"} =>
               handler[h].pc \in {"read", "batch"} /\ handler'[h].code = handler[h].code
    PROVE  CountersInOrder'
<1>1. \A c \in Codes : Redeemers(c)' = Redeemers(c)
  BY DEF Redeemers
<1>2. \A c \in Codes : Taking(c)' \subseteq Taking(c)
  BY DEF Taking, At
<1>3. ASSUME NEW c \in Codes
      PROVE  Cardinality(Taking(c)') <= Cardinality(Taking(c)) /\ Cardinality(Taking(c)') \in Nat
             /\ Cardinality(Taking(c)) \in Nat
  <2>1. IsFiniteSet(Taking(c))
    BY RecordsAssumption, FS_Subset DEF Taking
  <2>2. QED
    BY <1>2, <2>1, FS_Subset, FS_CardinalityType
<1>4. ASSUME NEW c \in Codes PROVE Cardinality(Redeemers(c)) \in Nat
  BY RecordsAssumption, FS_Subset, FS_CardinalityType DEF Redeemers
<1>5. Cardinality(Handlers) \in Nat
  BY RecordsAssumption, FS_CardinalityType
<1>6. \A c \in Codes : MaxUses[c] \in Nat
  BY ActivationAssumption
<1>7. ASSUME NEW c \in Codes
      PROVE  Cardinality(Redeemers(c)) + Cardinality(Taking(c)') <= MaxUses[c] - 1 + Cardinality(Handlers)
  BY <1>3, <1>4, <1>5, <1>6 DEF IInv, CountersInOrder
<1>8. QED
  BY <1>1, <1>2, <1>7, Watched DEF IInv, CountersInOrder

\* Terms stay long enough as long as no account changes and nobody new is about to write one.
LEMMA TermsStay ==
    ASSUME IInv, Watch, users' = users, paid' = paid,
           \A h \in Handlers : handler'[h].pc = "batch" => handler'[h] = handler[h],
           \A h \in Handlers : handler'[h].pc \in {"check", "read", "batch", "undo"} /\ handler'[h].fresh =>
               /\ handler[h].pc \in {"check", "read", "batch", "undo"} /\ handler[h].fresh
               /\ handler'[h].user = handler[h].user
    PROVE  TermsInOrder'
<1> SUFFICES ASSUME ~overlap'
             PROVE  /\ \A h \in Handlers : handler'[h].pc = "batch" => WritesAfter(h)'
                    /\ \A u \in Users \ granted' : HoldsThePaid(u)'
  BY DEF TermsInOrder, At
<1>1. /\ \A h \in Handlers : handler[h].pc = "batch" => WritesAfter(h)
      /\ \A u \in Users \ granted' : HoldsThePaid(u)
  BY Watched DEF IInv, TermsInOrder, At
<1>2. \A h \in Handlers : handler'[h].pc = "batch" => WritesAfter(h)'
  BY <1>1 DEF WritesAfter, Until
<1>3. \A u \in Users \ granted' : HoldsThePaid(u)'
  BY <1>1 DEF HoldsThePaid, Until, At
<1>4. QED
  BY <1>2, <1>3

\* Stamps stay right as long as no account that was there from the start changes and
\* nobody comes to the stamping, or leaves it.
LEMMA StampsStay ==
    ASSUME IInv, Watch, \A u \in Members : users'[u] = users[u], stamp' = stamp, deaths' = 0 => deaths = 0,
           \A h \in Handlers : handler'[h].pc = "restamp" => handler'[h] = handler[h],
           \A h \in Handlers : handler[h].pc = "restamp" => handler'[h] = handler[h]
    PROVE  StampsFollow'
<1> SUFFICES ASSUME ~overlap', deaths' = 0
             PROVE  /\ \A h \in Handlers : handler'[h].pc = "restamp" /\ handler'[h].user \in Members =>
                                         users'[handler'[h].user] = handler'[h].next
                    /\ \A u \in Members : \/ stamp'[u] = users'[u]
                                          \/ \E h \in Handlers : handler'[h].pc = "restamp" /\ handler'[h].user = u
  BY DEF StampsFollow, At
<1>1. /\ \A h \in Handlers : handler[h].pc = "restamp" /\ handler[h].user \in Members => users[handler[h].user] = handler[h].next
      /\ \A u \in Members : stamp[u] = users[u] \/ \E h \in Handlers : handler[h].pc = "restamp" /\ handler[h].user = u
  BY Watched DEF IInv, StampsFollow, At
<1>2. QED
  BY <1>1

\* One request moves.
LEMMA RequestsMove ==
    ASSUME IInv, NEW h \in Handlers, \A g \in Handlers : g # h => handler'[g] = handler[g], RequestInOrder(h)',
           \A u \in Members : users'[u] # None
    PROVE  RequestsInOrder'
<1>1. \A g \in Handlers : g # h => RequestInOrder(g)'
  BY ActivationFacts DEF RequestInOrder, UnderWay, At
<1>2. QED
  BY <1>1 DEF RequestsInOrder

\* The types, from those of what has changed.
LEMMA ActivationTypes ==
    ASSUME IInv, Watch, handler' \in [Handlers -> Request], now' \in 0..MaxTime, users' \in [Users -> State \cup {None}],
           stamp' \in [Users -> State], used' \in [Codes -> Nat], revoked' \subseteq Codes,
           redeemed' \subseteq Codes \X Users, paid' \in [Users -> Nat], deaths' \in 0..MaxDeaths
    PROVE  TypeOK'
BY Watched DEF TypeOK

\* A request moves without writing anything and without getting past the check, or it ends.
QuietRequest(h) ==
    /\ handler' \in [Handlers -> Request] /\ \A g \in Handlers : g # h => handler'[g] = handler[g]
    /\ now' = now /\ users' = users /\ stamp' = stamp /\ used' = used /\ revoked' = revoked /\ redeemed' = redeemed
    /\ paid' = paid /\ deaths' \in 0..MaxDeaths /\ (deaths' = 0 => deaths = 0 /\ handler[h].pc # "restamp")
    /\ RequestInOrder(h)' /\ handler'[h].pc \in {"idle", "create", "check", "undo"}
    /\ handler'[h].pc \in {"check", "undo"} /\ handler'[h].fresh =>
           /\ handler[h].pc \in {"check", "read", "batch", "undo"} /\ handler[h].fresh
           /\ handler'[h].user = handler[h].user

LEMMA QuietRequestKeeps ==
    ASSUME IInv, Watch, NEW h \in Handlers, QuietRequest(h)
    PROVE  IInv'
<1>1. TypeOK'
  BY ActivationTypes, ActivationFacts DEF QuietRequest
<1>2. RequestsInOrder'
  BY RequestsMove, ActivationFacts DEF QuietRequest
<1>3. CountersInOrder'
  BY CountersStay DEF QuietRequest
<1>4. TermsInOrder'
  BY TermsStay DEF QuietRequest
<1>5. StampsFollow'
  <2>1. CASE deaths' = 0
    BY <2>1, StampsStay DEF QuietRequest
  <2>2. CASE deaths' # 0
    BY <2>2 DEF StampsFollow
  <2>3. QED
    BY <2>1, <2>2
<1>6. QED
  BY <1>1, <1>2, <1>3, <1>4, <1>5, Watched DEF IInv

LEMMA RedeemKeeps ==
    ASSUME IInv, Watch, NEW h \in Handlers, NEW u \in Users, NEW c \in Codes, Redeem(h, u, c)
    PROVE  IInv'
<1> DEFINE r == [Idle EXCEPT !.pc = "check", !.user = u, !.code = c]
<1>1. r \in Request /\ r.pc = "check" /\ r.user = u /\ r.code = c /\ ~r.fresh
  BY IdleIsOne DEF Request
<1>2. handler' \in [Handlers -> Request] /\ handler'[h] = r /\ \A g \in Handlers : g # h => handler'[g] = handler[g]
  BY <1>1, RequestBegins DEF Redeem
<1>3. RequestInOrder(h)'
  BY <1>1, <1>2, IdleIsOne DEF RequestInOrder, UnderWay, At
<1>4. QuietRequest(h)
  BY <1>1, <1>2, <1>3, ActivationFacts DEF Redeem, QuietRequest
<1>5. QED
  BY <1>4, QuietRequestKeeps

LEMMA RegisterKeeps ==
    ASSUME IInv, Watch, NEW h \in Handlers, NEW u \in Users, NEW c \in Codes, Register(h, u, c)
    PROVE  IInv'
<1> DEFINE r == [Idle EXCEPT !.pc = "create", !.user = u, !.code = c, !.fresh = TRUE]
<1>1. r \in Request /\ r.pc = "create" /\ r.user = u /\ r.code = c /\ r.fresh
  BY IdleIsOne DEF Request
<1>2. handler' \in [Handlers -> Request] /\ handler'[h] = r /\ \A g \in Handlers : g # h => handler'[g] = handler[g]
  BY <1>1, RequestBegins DEF Register
<1>3. RequestInOrder(h)'
  BY <1>1, <1>2, IdleIsOne DEF RequestInOrder, UnderWay, At, Register
<1>4. QuietRequest(h)
  BY <1>1, <1>2, <1>3, ActivationFacts DEF Register, QuietRequest
<1>5. QED
  BY <1>4, QuietRequestKeeps

LEMMA RefusedKeeps ==
    ASSUME IInv, Watch, NEW h \in Handlers, handler[h].pc \in {"check", "read", "batch"}, Refuse(h),
           UNCHANGED <<now, users, stamp, used, revoked, redeemed, paid, deaths>>
    PROVE  IInv'
<1>1. /\ handler' \in [Handlers -> Request] /\ \A g \in Handlers : g # h => handler'[g] = handler[g]
      /\ \/ handler'[h].pc = "idle" /\ ~handler'[h].fresh
         \/ handler'[h].pc = "undo" /\ handler'[h].fresh /\ handler[h].fresh /\ handler'[h].user = handler[h].user
  BY RequestRefused
<1>2. RequestInOrder(h)'
  BY <1>1, ActivationFacts DEF RequestInOrder, UnderWay, At
<1>3. QuietRequest(h)
  BY <1>1, <1>2, ActivationFacts DEF QuietRequest
<1>4. QED
  BY <1>3, QuietRequestKeeps

LEMMA DieKeeps ==
    ASSUME IInv, Watch, NEW h \in Handlers, Die(h)
    PROVE  IInv'
<1>1. /\ handler' \in [Handlers -> Request] /\ \A g \in Handlers : g # h => handler'[g] = handler[g]
      /\ handler'[h].pc = "idle" /\ ~handler'[h].fresh
  BY RequestReturns DEF Die
<1>2. deaths' \in 0..MaxDeaths /\ deaths' # 0
  BY ActivationFacts, ActivationAssumption DEF Die
<1>3. RequestInOrder(h)'
  BY <1>1 DEF RequestInOrder, UnderWay, At
<1>4. QuietRequest(h)
  BY <1>1, <1>2, <1>3 DEF QuietRequest, Die
<1>5. QED
  BY <1>4, QuietRequestKeeps

LEMMA RevokeKeeps ==
    ASSUME IInv, Watch, NEW c \in Codes, Revoke(c)
    PROVE  IInv'
<1>1. /\ handler' = handler /\ users' = users /\ stamp' = stamp /\ used' = used /\ redeemed' = redeemed /\ paid' = paid
      /\ now' = now /\ deaths' = deaths /\ revoked' \subseteq Codes /\ revoked \subseteq revoked'
  BY ActivationFacts DEF Revoke
<1>2. TypeOK'
  BY <1>1, ActivationTypes, ActivationFacts
<1>3. RequestsInOrder'
  BY <1>1, ActivationFacts DEF RequestsInOrder, RequestInOrder, UnderWay, At
<1>4. CountersInOrder' /\ TermsInOrder' /\ StampsFollow'
  BY <1>1, CountersStay, TermsStay, StampsStay
<1>5. QED
  BY <1>2, <1>3, <1>4, Watched DEF IInv

LEMMA TickKeeps ==
    ASSUME IInv, Watch, Tick
    PROVE  IInv'
<1>1. /\ handler' = handler /\ users' = users /\ stamp' = stamp /\ used' = used /\ redeemed' = redeemed /\ paid' = paid
      /\ now' \in 0..MaxTime /\ deaths' = deaths /\ revoked' = revoked
  BY ActivationFacts, ActivationAssumption DEF Tick
<1>2. TypeOK'
  BY <1>1, ActivationTypes, ActivationFacts
<1>3. RequestsInOrder'
  BY <1>1, ActivationFacts DEF RequestsInOrder, RequestInOrder, UnderWay, At
<1>4. CountersInOrder' /\ TermsInOrder' /\ StampsFollow'
  BY <1>1, CountersStay, TermsStay, StampsStay
<1>5. QED
  BY <1>2, <1>3, <1>4, Watched DEF IInv

LEMMA CreateKeeps ==
    ASSUME IInv, Watch, NEW h \in Handlers, Create(h)
    PROVE  IInv'
<1>1. /\ handler[h].pc = "create" /\ now' = now /\ stamp' = stamp /\ used' = used /\ revoked' = revoked
      /\ redeemed' = redeemed /\ paid' = paid /\ deaths' = deaths
  BY DEF Create
<1>2. PICK u \in Users \ Members : u = handler[h].user /\ handler[h].fresh /\ handler[h].code # None
  BY <1>1, ActivationFacts DEF RequestInOrder, UnderWay, At
<1>3. CASE users[u] # None
  <2>1. Return(h) /\ users' = users
    BY <1>2, <1>3 DEF Create
  <2>2. /\ handler' \in [Handlers -> Request] /\ \A g \in Handlers : g # h => handler'[g] = handler[g]
        /\ handler'[h].pc = "idle" /\ ~handler'[h].fresh
    BY <2>1, RequestReturns
  <2>3. RequestInOrder(h)'
    BY <2>2 DEF RequestInOrder, UnderWay, At
  <2>4. QuietRequest(h)
    BY <1>1, <2>1, <2>2, <2>3, ActivationFacts DEF QuietRequest
  <2>5. QED
    BY <2>4, QuietRequestKeeps
<1>4. CASE users[u] = None
  <2>1. Goto(h, "check") /\ users' = [users EXCEPT ![u] = Disabled]
    BY <1>2, <1>4 DEF Create
  <2>2. /\ handler' \in [Handlers -> Request] /\ \A g \in Handlers : g # h => handler'[g] = handler[g]
        /\ handler'[h].pc = "check" /\ handler'[h].user = u /\ handler'[h].code = handler[h].code
        /\ (handler'[h].fresh <=> handler[h].fresh)
    BY <1>2, <2>1, RequestGoes
  <2>3. /\ users' \in [Users -> State \cup {None}] /\ users'[u] = Disabled
        /\ \A v \in Users : v # u => users'[v] = users[v]
    BY <1>2, <2>1, IdleIsOne, ActivationFacts
  <2>4. RequestsInOrder'
    <3>1. RequestInOrder(h)'
      BY <1>2, <2>2, IdleIsOne DEF RequestInOrder, UnderWay, At
    <3>2. \A v \in Members : users'[v] # None
      BY <1>2, <2>3, ActivationFacts, ActivationAssumption
    <3>3. QED
      BY <2>2, <3>1, <3>2, RequestsMove
  <2>5. TypeOK'
    BY <1>1, <2>2, <2>3, ActivationTypes, ActivationFacts
  <2>6. CountersInOrder'
    BY <1>1, <2>2, CountersStay
  <2>7. TermsInOrder'
    <3> SUFFICES ASSUME ~overlap'
                 PROVE  /\ \A g \in Handlers : handler'[g].pc = "batch" => WritesAfter(g)'
                        /\ \A v \in Users \ granted' : HoldsThePaid(v)'
      BY DEF TermsInOrder, At
    <3>1. \A g \in Handlers : g # h => handler'[g].pc = "idle"
      BY <2>2, ActivationAlone
    <3>2. ASSUME NEW v \in Users \ granted' PROVE HoldsThePaid(v)
      BY Watched DEF IInv, TermsInOrder
    <3>3. ASSUME NEW v \in Users \ granted', v # u PROVE HoldsThePaid(v)'
      BY <1>1, <2>2, <2>3, <3>1, <3>2, <3>3 DEF HoldsThePaid, Until, At
    <3>4. ASSUME u \notin granted' PROVE HoldsThePaid(u)'
      <4>1. paid'[u] = 0
        BY <1>1, <1>2, <1>4, <3>2, <3>4 DEF HoldsThePaid
      <4>2. Until(u)' = 0
        BY <2>3, IdleIsOne DEF Until
      <4>3. QED
        BY <2>3, <4>1, <4>2, IdleIsOne DEF HoldsThePaid
    <3>5. QED
      BY <2>2, <3>1, <3>3, <3>4
  <2>8. StampsFollow'
    BY <1>1, <1>2, <2>2, <2>3, ActivationAssumption, StampsStay
  <2>9. QED
    BY <2>4, <2>5, <2>6, <2>7, <2>8, Watched DEF IInv
<1>5. QED
  BY <1>3, <1>4

LEMMA CheckKeeps ==
    ASSUME IInv, Watch, NEW h \in Handlers, Check(h)
    PROVE  IInv'
<1>1. /\ handler[h].pc = "check" /\ now' = now /\ users' = users /\ stamp' = stamp /\ used' = used /\ revoked' = revoked
      /\ redeemed' = redeemed /\ paid' = paid /\ deaths' = deaths
  BY DEF Check
<1>2. CASE ~Redeemable(handler[h].code)
  BY <1>1, <1>2, RefusedKeeps DEF Check
<1>3. CASE Redeemable(handler[h].code)
  <2>0. PICK c \in Codes : c = handler[h].code
    BY <1>1, ActivationFacts DEF RequestInOrder, At
  <2>1. /\ handler' \in [Handlers -> Request] /\ \A g \in Handlers : g # h => handler'[g] = handler[g]
        /\ handler'[h].pc = "read" /\ handler'[h].user = handler[h].user /\ handler'[h].code = c
        /\ handler'[h].next = handler[h].next /\ (handler'[h].fresh <=> handler[h].fresh)
    BY <1>3, <2>0, RequestGoes DEF Check
  <2>2. used[c] < MaxUses[c] /\ c \notin revoked
    BY <1>3, <2>0 DEF Redeemable
  <2>3. TypeOK'
    BY <1>1, <2>1, ActivationTypes, ActivationFacts
  <2>4. RequestsInOrder'
    <3>1. RequestInOrder(h)'
      BY <1>1, <2>0, <2>1, IdleIsOne, ActivationFacts DEF RequestInOrder, UnderWay, At
    <3>2. QED
      BY <1>1, <2>1, <3>1, RequestsMove, ActivationFacts
  <2>5. TermsInOrder'
    BY <1>1, <2>1, TermsStay
  <2>6. StampsFollow'
    BY <1>1, <2>1, StampsStay
  <2>7. CountersInOrder'
    <3>1. \A d \in Codes : Redeemers(d)' = Redeemers(d)
      BY <1>1 DEF Redeemers
    <3>2. \A d \in Codes : d # c => Taking(d)' = Taking(d)
      BY <1>1, <2>1 DEF Taking, At
    <3>3. used[c] = Cardinality(Redeemers(c))
      BY <2>2, ActivationFacts, ActivationAssumption DEF IInv, CountersInOrder
    <3>4. Cardinality(Taking(c)') <= Cardinality(Handlers) /\ Cardinality(Taking(c)') \in Nat /\ Cardinality(Handlers) \in Nat
      BY RecordsAssumption, FS_Subset, FS_CardinalityType DEF Taking
    <3>5. used[c] \in Nat /\ MaxUses[c] \in Nat
      BY <2>2, ActivationFacts, ActivationAssumption
    <3>6. Cardinality(Redeemers(c)) < MaxUses[c]
          /\ Cardinality(Redeemers(c)) + Cardinality(Taking(c)') <= MaxUses[c] - 1 + Cardinality(Handlers)
      BY <2>2, <3>3, <3>4, <3>5
    <3>7. \A d \in Codes : /\ used[d] <= MaxUses[d] /\ used[d] <= Cardinality(Redeemers(d))
                           /\ used[d] = Cardinality(Redeemers(d)) \/ used[d] = MaxUses[d] \/ d \in revoked
                           /\ ~overlap => Cardinality(Redeemers(d)) <= MaxUses[d]
      BY DEF IInv, CountersInOrder
    <3>8. \A d \in Codes : d # c =>
             /\ Cardinality(Redeemers(d)) + Cardinality(Taking(d)) <= MaxUses[d] - 1 + Cardinality(Handlers)
             /\ ~overlap => (Taking(d) # {} => Cardinality(Redeemers(d)) < MaxUses[d])
      BY DEF IInv, CountersInOrder
    <3>9. QED
      BY <1>1, <3>1, <3>2, <3>6, <3>7, <3>8, Watched DEF CountersInOrder
  <2>8. QED
    BY <2>3, <2>4, <2>5, <2>6, <2>7, Watched DEF IInv
<1>4. QED
  BY <1>2, <1>3

\* What a code makes of an account holds what the account had and what the code adds.
LEMMA BoughtHolds ==
    ASSUME IInv, NEW u \in Users, NEW c \in Codes, users[u] # None
    PROVE  /\ Until(u) \in Nat /\ Bought(u, c) \in State
           /\ Bought(u, c).status # "permanent" =>
                  /\ Bought(u, c).status = "active_until" /\ Bought(u, c).until \in Nat
                  /\ Bought(u, c).until >= Until(u) + (IF Kind[c] = "duration" THEN Span[c] ELSE 0)
<1>1. Until(u) \in Nat
  BY ActivationFacts DEF Until
<1>2. now \in Nat /\ Span[c] \in Nat /\ Kind[c] \in {"window", "duration", "permanent"}
  BY ActivationFacts, ActivationAssumption
<1>3. CASE Kind[c] = "permanent"
  <2>1. Bought(u, c) = [status |-> "permanent", until |-> None]
    BY <1>3 DEF Bought
  <2>2. QED
    BY <1>1, <2>1 DEF State
<1>4. CASE Kind[c] = "window"
  <2>1. Bought(u, c) = [status |-> "active_until", until |-> Later(Until(u), Span[c])]
    BY <1>4 DEF Bought
  <2>2. Later(Until(u), Span[c]) \in Nat /\ Later(Until(u), Span[c]) >= Until(u)
    BY <1>1, <1>2 DEF Later
  <2>3. QED
    BY <1>1, <1>4, <2>1, <2>2 DEF State
<1>5. CASE Kind[c] = "duration"
  <2>1. Bought(u, c) = [status |-> "active_until", until |-> Later(now, Until(u)) + Span[c]]
    BY <1>5 DEF Bought
  <2>2. Later(now, Until(u)) + Span[c] \in Nat /\ Later(now, Until(u)) + Span[c] >= Until(u) + Span[c]
    BY <1>1, <1>2 DEF Later
  <2>3. QED
    BY <1>1, <1>5, <2>1, <2>2 DEF State
<1>6. QED
  BY <1>2, <1>3, <1>4, <1>5

LEMMA ReadKeeps ==
    ASSUME IInv, Watch, NEW h \in Handlers, Read(h)
    PROVE  IInv'
<1> DEFINE u == handler[h].user
           c == handler[h].code
           next == Bought(u, c)
<1>1. /\ handler[h].pc = "read" /\ now' = now /\ users' = users /\ stamp' = stamp /\ used' = used /\ revoked' = revoked
      /\ redeemed' = redeemed /\ paid' = paid /\ deaths' = deaths
  BY DEF Read
<1>2. CASE users[u] = None \/ users[u].status = "permanent"
  BY <1>1, <1>2, RefusedKeeps DEF Read
<1>3. CASE users[u] # None /\ users[u].status # "permanent"
  <2>1. u \in Users /\ c \in Codes
    BY <1>1, ActivationFacts DEF RequestInOrder, UnderWay, At
  <2>2. /\ Until(u) \in Nat /\ next \in State
        /\ next.status # "permanent" =>
               /\ next.status = "active_until" /\ next.until \in Nat
               /\ next.until >= Until(u) + (IF Kind[c] = "duration" THEN Span[c] ELSE 0)
    BY <1>3, <2>1, BoughtHolds
  <2> HIDE DEF next
  <2>3. handler' = [handler EXCEPT ![h].pc = "batch", ![h].next = next]
    BY <1>3 DEF Read, next
  <2>4. /\ handler' \in [Handlers -> Request] /\ \A g \in Handlers : g # h => handler'[g] = handler[g]
        /\ handler'[h].pc = "batch" /\ handler'[h].user = u /\ handler'[h].code = c /\ handler'[h].next = next
        /\ (handler'[h].fresh <=> handler[h].fresh)
    <3>1. handler \in [Handlers -> Request] /\ handler[h] \in Request
      BY ActivationFacts
    <3>2. [handler[h] EXCEPT !.pc = "batch", !.next = next] \in Request
      BY <2>2, <3>1 DEF Request
    <3>3. handler' = [handler EXCEPT ![h] = [handler[h] EXCEPT !.pc = "batch", !.next = next]]
      BY <2>3, <3>1
    <3>4. /\ handler' \in [Handlers -> Request] /\ \A g \in Handlers : g # h => handler'[g] = handler[g]
          /\ handler'[h] = [handler[h] EXCEPT !.pc = "batch", !.next = next]
      BY <3>1, <3>2, <3>3
    <3>5. QED
      BY <3>1, <3>4 DEF Request
  <2>5. TypeOK'
    BY <1>1, <2>4, ActivationTypes, ActivationFacts
  <2>6. RequestsInOrder'
    <3>1. RequestInOrder(h)'
      BY <1>1, <2>2, <2>4, IdleIsOne, ActivationFacts DEF RequestInOrder, UnderWay, At
    <3>2. QED
      BY <1>1, <2>4, <3>1, RequestsMove, ActivationFacts
  <2>7. CountersInOrder'
    BY <1>1, <2>4, CountersStay
  <2>8. StampsFollow'
    BY <1>1, <2>4, StampsStay
  <2>9. TermsInOrder'
    <3> SUFFICES ASSUME ~overlap'
                 PROVE  /\ \A g \in Handlers : handler'[g].pc = "batch" => WritesAfter(g)'
                        /\ \A v \in Users \ granted' : HoldsThePaid(v)'
      BY DEF TermsInOrder, At
    <3>1. \A g \in Handlers : g # h => handler'[g].pc = "idle"
      BY <2>4, ActivationAlone
    <3>2. Until(u)' = Until(u)
      BY <1>1, <2>4 DEF Until
    <3>3. WritesAfter(h)'
      BY <1>1, <1>3, <2>2, <2>4, <3>2, IdleIsOne DEF WritesAfter
    <3>4. ASSUME NEW v \in Users \ granted' PROVE HoldsThePaid(v)
      BY Watched DEF IInv, TermsInOrder
    <3>5. ASSUME NEW v \in Users \ granted' PROVE HoldsThePaid(v)'
      BY <1>1, <2>4, <3>1, <3>4 DEF HoldsThePaid, Until, At
    <3>6. QED
      BY <3>1, <3>3, <3>5
  <2>10. QED
    BY <2>5, <2>6, <2>7, <2>8, <2>9, Watched DEF IInv
<1>4. QED
  BY <1>2, <1>3

LEMMA BatchKeeps ==
    ASSUME IInv, Watch, NEW h \in Handlers, Batch(h)
    PROVE  IInv'
<1>1. /\ handler[h].pc = "batch" /\ now' = now /\ stamp' = stamp /\ revoked' = revoked /\ deaths' = deaths
  BY DEF Batch
<1>2. PICK u \in Users, c \in Codes, next \in State : u = handler[h].user /\ c = handler[h].code /\ next = handler[h].next
  BY <1>1, ActivationFacts DEF RequestInOrder, UnderWay, At
<1>3. CASE <<c, u>> \in redeemed
  BY <1>1, <1>2, <1>3, RefusedKeeps DEF Batch
<1>4. CASE <<c, u>> \notin redeemed
  <2>1. Set(u, next) /\ redeemed' = redeemed \cup {<<c, u>>} /\ Pays(c, u) /\ Count(c) /\ Goto(h, "restamp")
    BY <1>2, <1>4 DEF Batch
  <2>2. /\ handler' \in [Handlers -> Request] /\ \A g \in Handlers : g # h => handler'[g] = handler[g]
        /\ handler'[h].pc = "restamp" /\ handler'[h].user = u /\ handler'[h].code = c
        /\ handler'[h].next = next /\ (handler'[h].fresh <=> handler[h].fresh)
    BY <1>2, <2>1, RequestGoes
  <2>3. /\ users' \in [Users -> State \cup {None}] /\ \A v \in Users : v # u => users'[v] = users[v]
        /\ users'[u] = IF users[u] = None THEN None ELSE next
    BY <2>1, ActivationFacts DEF Set
  <2>4. /\ paid' \in [Users -> Nat] /\ \A v \in Users : v # u => paid'[v] = paid[v]
        /\ paid'[u] = paid[u] + (IF Kind[c] = "duration" THEN Span[c] ELSE 0)
    BY <2>1, ActivationFacts, ActivationAssumption DEF Pays
  <2>5. redeemed' \subseteq Codes \X Users
    BY <2>1, ActivationFacts
  <2>6. /\ used' \in [Codes -> Nat] /\ \A d \in Codes : d # c => used'[d] = used[d]
        /\ used'[c] = IF c \notin revoked /\ used[c] < MaxUses[c] THEN used[c] + 1 ELSE used[c]
    BY <2>1, ActivationFacts DEF Count
  <2>7. TypeOK'
    BY <1>1, <2>2, <2>3, <2>4, <2>5, <2>6, ActivationTypes, ActivationFacts
  <2>8. RequestsInOrder'
    <3>1. RequestInOrder(h)'
      BY <1>1, <1>2, <2>2, IdleIsOne, ActivationFacts DEF RequestInOrder, UnderWay, At
    <3>2. \A v \in Members : users'[v] # None
      BY <2>3, IdleIsOne, ActivationFacts, ActivationAssumption
    <3>3. QED
      BY <2>2, <3>1, <3>2, RequestsMove
  <2>9. CountersInOrder'
    <3>1. \A d \in Codes : d # c => Redeemers(d)' = Redeemers(d) /\ Taking(d)' = Taking(d)
      <4>1. \A d \in Codes : d # c => Redeemers(d)' = Redeemers(d)
        BY <2>1 DEF Redeemers
      <4>2. \A d \in Codes : d # c => Taking(d)' = Taking(d)
        BY <1>1, <1>2, <2>2 DEF Taking, At
      <4>3. QED
        BY <4>1, <4>2
    <3>2. Redeemers(c)' = Redeemers(c) \cup {u} /\ u \notin Redeemers(c)
      BY <1>4, <2>1 DEF Redeemers
    <3>3. Taking(c)' = Taking(c) \ {h} /\ h \in Taking(c)
      BY <1>1, <1>2, <2>2 DEF Taking, At
    <3>4. /\ Cardinality(Redeemers(c)) \in Nat
          /\ Cardinality(Redeemers(c)') = Cardinality(Redeemers(c)) + 1
      <4>1. IsFiniteSet(Redeemers(c))
        BY RecordsAssumption, FS_Subset DEF Redeemers
      <4>2. Cardinality(Redeemers(c) \cup {u}) = IF u \in Redeemers(c) THEN Cardinality(Redeemers(c)) ELSE Cardinality(Redeemers(c)) + 1
        BY <4>1, FS_AddElement
      <4>3. QED
        BY <3>2, <4>1, <4>2, FS_CardinalityType
    <3>5. /\ Cardinality(Taking(c)) \in Nat
          /\ Cardinality(Taking(c)') = Cardinality(Taking(c)) - 1
      <4>1. IsFiniteSet(Taking(c))
        BY RecordsAssumption, FS_Subset DEF Taking
      <4>2. Cardinality(Taking(c) \ {h}) = IF h \in Taking(c) THEN Cardinality(Taking(c)) - 1 ELSE Cardinality(Taking(c))
        BY <4>1, FS_RemoveElement
      <4>3. QED
        BY <3>3, <4>1, <4>2, FS_CardinalityType
    <3>6. used[c] \in Nat /\ MaxUses[c] \in Nat
      BY ActivationFacts, ActivationAssumption
    <3>7. \A d \in Codes : /\ used[d] <= MaxUses[d] /\ used[d] <= Cardinality(Redeemers(d))
                           /\ used[d] = Cardinality(Redeemers(d)) \/ used[d] = MaxUses[d] \/ d \in revoked
                           /\ Cardinality(Redeemers(d)) + Cardinality(Taking(d)) <= MaxUses[d] - 1 + Cardinality(Handlers)
                           /\ ~overlap => /\ Cardinality(Redeemers(d)) <= MaxUses[d]
                                          /\ Taking(d) # {} => Cardinality(Redeemers(d)) < MaxUses[d]
      BY DEF IInv, CountersInOrder
    <3>8. used'[c] <= MaxUses[c] /\ used'[c] <= Cardinality(Redeemers(c)')
      BY <2>6, <3>4, <3>6, <3>7
    <3>9. used'[c] = Cardinality(Redeemers(c)') \/ used'[c] = MaxUses[c] \/ c \in revoked'
      BY <1>1, <2>6, <3>4, <3>6, <3>7
    <3>10. Cardinality(Redeemers(c)') + Cardinality(Taking(c)') <= MaxUses[c] - 1 + Cardinality(Handlers)
      <4>1. Cardinality(Handlers) \in Nat
        BY RecordsAssumption, FS_CardinalityType
      <4>2. QED
        BY <3>4, <3>5, <3>6, <3>7, <4>1
    <3>11. ASSUME ~overlap' PROVE Cardinality(Redeemers(c)') <= MaxUses[c] /\ Taking(c)' = {}
      <4>1. Cardinality(Redeemers(c)') <= MaxUses[c]
        BY <3>3, <3>4, <3>6, <3>7, <3>11, Watched
      <4>2. \A g \in Handlers : g # h => handler'[g].pc = "idle"
        BY <2>2, <3>11, ActivationAlone
      <4>3. Taking(c)' = {}
        BY <2>2, <4>2 DEF Taking, At
      <4>4. QED
        BY <4>1, <4>3
    <3>12. QED
      BY <1>1, <2>6, <3>1, <3>7, <3>8, <3>9, <3>10, <3>11, Watched DEF CountersInOrder
  <2>10. TermsInOrder'
    <3> SUFFICES ASSUME ~overlap'
                 PROVE  /\ \A g \in Handlers : handler'[g].pc = "batch" => WritesAfter(g)'
                        /\ \A v \in Users \ granted' : HoldsThePaid(v)'
      BY DEF TermsInOrder, At
    <3>1. \A g \in Handlers : g # h => handler'[g].pc = "idle"
      BY <2>2, ActivationAlone
    <3>2. WritesAfter(h)
      BY <1>1, Watched DEF IInv, TermsInOrder, At
    <3>3. /\ users[u] # None /\ users[u].status # "permanent"
          /\ next.status # "permanent" =>
                 /\ next.status = "active_until" /\ next.until # None
                 /\ next.until >= Until(u) + (IF Kind[c] = "duration" THEN Span[c] ELSE 0)
      BY <1>2, <3>2 DEF WritesAfter
    <3>4. ASSUME NEW v \in Users \ granted' PROVE HoldsThePaid(v)
      BY Watched DEF IInv, TermsInOrder
    <3>5. ASSUME NEW v \in Users \ granted', v # u PROVE HoldsThePaid(v)'
      BY <2>2, <2>3, <2>4, <3>1, <3>4, <3>5 DEF HoldsThePaid, Until, At
    <3>6. ASSUME u \notin granted' PROVE HoldsThePaid(u)'
      <4>1. paid[u] <= Until(u) /\ paid[u] \in Nat /\ Until(u) \in Nat
        BY <3>3, <3>4, <3>6, ActivationFacts DEF HoldsThePaid, Until
      <4>2. users'[u] = next /\ users'[u] # None
        BY <2>3, <3>3, IdleIsOne
      <4>3. ASSUME next.status # "permanent" PROVE paid'[u] <= Until(u)'
        <5>1. Until(u)' = next.until /\ next.until \in Nat
          BY <3>3, <4>2, <4>3, ActivationFacts DEF Until
        <5>2. Span[c] \in Nat
          BY ActivationAssumption
        <5>3. QED
          BY <2>4, <3>3, <4>1, <4>3, <5>1, <5>2
      <4>4. QED
        BY <2>2, <3>1, <4>2, <4>3 DEF HoldsThePaid, At
    <3>7. QED
      BY <2>2, <3>1, <3>5, <3>6
  <2>11. StampsFollow'
    <3> SUFFICES ASSUME ~overlap', deaths' = 0
                 PROVE  /\ \A g \in Handlers : handler'[g].pc = "restamp" /\ handler'[g].user \in Members =>
                                             users'[handler'[g].user] = handler'[g].next
                        /\ \A v \in Members : \/ stamp'[v] = users'[v]
                                              \/ \E g \in Handlers : handler'[g].pc = "restamp" /\ handler'[g].user = v
      BY DEF StampsFollow, At
    <3>1. \A g \in Handlers : g # h => handler'[g].pc = "idle"
      BY <2>2, ActivationAlone
    <3>2. \A v \in Members : stamp[v] = users[v]
      BY <1>1, ActivationAlone DEF IInv, StampsFollow, At
    <3>3. u \in Members => users'[u] = next
      BY <2>3, ActivationFacts
    <3>4. QED
      BY <1>1, <2>2, <2>3, <3>1, <3>2, <3>3, ActivationAssumption
  <2>12. QED
    BY <2>7, <2>8, <2>9, <2>10, <2>11, Watched DEF IInv
<1>5. QED
  BY <1>3, <1>4

LEMMA RestampKeeps ==
    ASSUME IInv, Watch, NEW h \in Handlers, Restamp(h)
    PROVE  IInv'
<1>1. /\ handler[h].pc = "restamp" /\ now' = now /\ users' = users /\ used' = used /\ revoked' = revoked
      /\ redeemed' = redeemed /\ paid' = paid /\ deaths' = deaths
  BY DEF Restamp
<1>2. PICK u \in Users, next \in State : u = handler[h].user /\ next = handler[h].next
  BY <1>1, ActivationFacts DEF RequestInOrder, UnderWay, At
<1>3. /\ handler' \in [Handlers -> Request] /\ \A g \in Handlers : g # h => handler'[g] = handler[g]
      /\ handler'[h].pc = "idle" /\ ~handler'[h].fresh
  BY RequestReturns DEF Restamp
<1>4. stamp' \in [Users -> State] /\ stamp'[u] = next /\ \A v \in Users : v # u => stamp'[v] = stamp[v]
  BY <1>2, ActivationFacts DEF Restamp
<1>5. TypeOK'
  BY <1>1, <1>3, <1>4, ActivationTypes, ActivationFacts
<1>6. RequestsInOrder'
  <2>1. RequestInOrder(h)'
    BY <1>3 DEF RequestInOrder, UnderWay, At
  <2>2. QED
    BY <1>1, <1>3, <2>1, RequestsMove, ActivationFacts
<1>7. CountersInOrder'
  BY <1>1, <1>3, CountersStay
<1>8. TermsInOrder'
  BY <1>1, <1>3, TermsStay
<1>9. StampsFollow'
  <2> SUFFICES ASSUME ~overlap', deaths' = 0
               PROVE  /\ \A g \in Handlers : handler'[g].pc # "restamp"
                      /\ \A v \in Members : stamp'[v] = users'[v]
    BY DEF StampsFollow, At
  <2>1. \A g \in Handlers : g # h => handler[g].pc = "idle"
    BY <1>1, ActivationAlone
  <2>2. /\ u \in Members => users[u] = next
        /\ \A v \in Members : v # u => stamp[v] = users[v]
    BY <1>1, <1>2, <2>1, ActivationAlone DEF IInv, StampsFollow, At
  <2>3. QED
    BY <1>1, <1>3, <1>4, <2>1, <2>2, ActivationAssumption
<1>10. QED
  BY <1>5, <1>6, <1>7, <1>8, <1>9, Watched DEF IInv

LEMMA UndoKeeps ==
    ASSUME IInv, Watch, NEW h \in Handlers, Undo(h)
    PROVE  IInv'
<1>1. /\ handler[h].pc = "undo" /\ now' = now /\ stamp' = stamp /\ used' = used /\ revoked' = revoked
      /\ redeemed' = redeemed /\ paid' = paid /\ deaths' = deaths
  BY DEF Undo
<1>2. PICK u \in Users \ Members : u = handler[h].user /\ handler[h].fresh
  BY <1>1, ActivationFacts DEF RequestInOrder, UnderWay, At
<1>3. /\ handler' \in [Handlers -> Request] /\ \A g \in Handlers : g # h => handler'[g] = handler[g]
      /\ handler'[h].pc = "idle" /\ ~handler'[h].fresh
  BY RequestReturns DEF Undo
<1>4. users' \in [Users -> State \cup {None}] /\ users'[u] = None /\ \A v \in Users : v # u => users'[v] = users[v]
  BY <1>2, ActivationFacts DEF Undo
<1>5. TypeOK'
  BY <1>1, <1>3, <1>4, ActivationTypes, ActivationFacts
<1>6. RequestsInOrder'
  <2>1. RequestInOrder(h)'
    BY <1>3 DEF RequestInOrder, UnderWay, At
  <2>2. \A v \in Members : users'[v] # None
    BY <1>2, <1>4, ActivationFacts, ActivationAssumption
  <2>3. QED
    BY <1>3, <2>1, <2>2, RequestsMove
<1>7. CountersInOrder'
  BY <1>1, <1>3, CountersStay
<1>8. TermsInOrder'
  <2> SUFFICES ASSUME ~overlap'
               PROVE  /\ \A g \in Handlers : handler'[g].pc # "batch"
                      /\ \A v \in Users \ granted' : HoldsThePaid(v)'
    BY DEF TermsInOrder, At
  <2>1. \A g \in Handlers : handler'[g].pc = "idle"
    BY <1>1, <1>3, ActivationAlone
  <2>2. ASSUME NEW v \in Users \ granted' PROVE HoldsThePaid(v)
    BY Watched DEF IInv, TermsInOrder
  <2>3. ASSUME NEW v \in Users \ granted', v # u PROVE HoldsThePaid(v)'
    BY <1>1, <1>4, <2>1, <2>2, <2>3 DEF HoldsThePaid, Until, At
  <2>4. ASSUME u \notin granted' PROVE HoldsThePaid(u)'
    <3>1. paid[u] = 0
      BY <1>1, <1>2, <2>2, <2>4 DEF HoldsThePaid, At
    <3>2. QED
      BY <1>1, <1>4, <3>1 DEF HoldsThePaid
  <2>5. QED
    BY <2>1, <2>3, <2>4
<1>9. StampsFollow'
  BY <1>1, <1>2, <1>3, <1>4, ActivationAssumption, StampsStay
<1>10. QED
  BY <1>5, <1>6, <1>7, <1>8, <1>9, Watched DEF IInv

LEMMA AdminSetKeeps ==
    ASSUME IInv, Watch, NEW h \in Handlers, NEW u \in Users, AdminSet(h, u)
    PROVE  IInv'
<1>1. /\ handler[h].pc = "idle" /\ now' = now /\ stamp' = stamp /\ used' = used /\ revoked' = revoked
      /\ redeemed' = redeemed /\ paid' = paid /\ deaths' = deaths /\ u \in granted'
  BY DEF AdminSet, Watch
<1>2. PICK s \in State : /\ users' = [users EXCEPT ![u] = s]
                         /\ handler' = [handler EXCEPT ![h] = [Idle EXCEPT !.pc = "restamp", !.user = u, !.next = s]]
  <2>1. \A s \in AdminStates : s \in State
    <3>1. [status |-> "permanent", until |-> None] \in State
      BY DEF State
    <3>2. ASSUME NEW t \in Untils PROVE [status |-> "active_until", until |-> t] \in State
      BY ActivationAssumption DEF State
    <3>3. QED
      BY <3>1, <3>2, IdleIsOne DEF AdminStates
  <2>2. QED
    BY <2>1 DEF AdminSet
<1> DEFINE r == [Idle EXCEPT !.pc = "restamp", !.user = u, !.next = s]
<1>3. r \in Request /\ r.pc = "restamp" /\ r.user = u /\ r.next = s /\ ~r.fresh
  BY IdleIsOne DEF Request
<1>4. handler' \in [Handlers -> Request] /\ handler'[h] = r /\ \A g \in Handlers : g # h => handler'[g] = handler[g]
  BY <1>2, <1>3, RequestBegins
<1> HIDE DEF r
<1>5. users' \in [Users -> State \cup {None}] /\ users'[u] = s /\ \A v \in Users : v # u => users'[v] = users[v]
  BY <1>2, ActivationFacts
<1>6. TypeOK'
  BY <1>1, <1>4, <1>5, ActivationTypes, ActivationFacts
<1>7. RequestsInOrder'
  <2>1. RequestInOrder(h)'
    BY <1>3, <1>4, IdleIsOne DEF RequestInOrder, UnderWay, At
  <2>2. \A v \in Members : users'[v] # None
    BY <1>5, IdleIsOne, ActivationFacts, ActivationAssumption
  <2>3. QED
    BY <1>4, <2>1, <2>2, RequestsMove
<1>8. CountersInOrder'
  BY <1>1, <1>3, <1>4, CountersStay
<1>9. TermsInOrder'
  <2> SUFFICES ASSUME ~overlap'
               PROVE  /\ \A g \in Handlers : handler'[g].pc # "batch"
                      /\ \A v \in Users \ granted' : HoldsThePaid(v)'
    BY DEF TermsInOrder, At
  <2>1. \A g \in Handlers : g # h => handler'[g].pc = "idle"
    BY <1>3, <1>4, ActivationAlone
  <2>2. ASSUME NEW v \in Users \ granted' PROVE HoldsThePaid(v) /\ v # u
    BY <1>1, Watched DEF IInv, TermsInOrder
  <2>3. ASSUME NEW v \in Users \ granted' PROVE HoldsThePaid(v)'
    BY <1>1, <1>3, <1>4, <1>5, <2>1, <2>2 DEF HoldsThePaid, Until, At
  <2>4. QED
    BY <1>3, <1>4, <2>1, <2>3
<1>10. StampsFollow'
  <2> SUFFICES ASSUME ~overlap', deaths' = 0
               PROVE  /\ \A g \in Handlers : handler'[g].pc = "restamp" /\ handler'[g].user \in Members =>
                                           users'[handler'[g].user] = handler'[g].next
                      /\ \A v \in Members : \/ stamp'[v] = users'[v]
                                            \/ \E g \in Handlers : handler'[g].pc = "restamp" /\ handler'[g].user = v
    BY DEF StampsFollow, At
  <2>1. \A g \in Handlers : g # h => handler'[g].pc = "idle"
    BY <1>3, <1>4, ActivationAlone
  <2>2. \A v \in Members : stamp[v] = users[v]
    <3>1. \A g \in Handlers : handler[g].pc = "idle"
      BY <1>1, <1>4, <2>1
    <3>2. QED
      BY <1>1, <3>1, ActivationAlone DEF IInv, StampsFollow, At
  <2>3. QED
    BY <1>1, <1>3, <1>4, <1>5, <2>1, <2>2, ActivationAssumption
<1>11. QED
  BY <1>6, <1>7, <1>8, <1>9, <1>10, Watched DEF IInv

LEMMA ActivationStart == Init => IInv
<1> SUFFICES ASSUME Init PROVE IInv
  OBVIOUS
<1>1. /\ now = 0 /\ users = [u \in Users |-> IF u \in Members THEN Disabled ELSE None]
      /\ stamp = [u \in Users |-> Disabled] /\ used = [c \in Codes |-> 0] /\ revoked = {} /\ redeemed = {}
      /\ paid = [u \in Users |-> 0] /\ handler = [h \in Handlers |-> Idle] /\ deaths = 0 /\ overlap = FALSE /\ granted = {}
  BY DEF Init
<1>2. handler \in [Handlers -> Request] /\ \A h \in Handlers : handler[h].pc = "idle" /\ ~handler[h].fresh
  BY <1>1, IdleIsOne
<1>3. /\ users \in [Users -> State \cup {None}] /\ stamp \in [Users -> State] /\ used \in [Codes -> Nat]
      /\ paid \in [Users -> Nat]
  BY <1>1, IdleIsOne
<1>4. TypeOK
  <2>1. 0 \in 0..MaxTime /\ 0 \in 0..MaxDeaths
    BY ActivationAssumption
  <2>2. QED
    BY <1>1, <1>2, <1>3, <2>1 DEF TypeOK
<1>5. OneAtATime
  BY <1>2 DEF OneAtATime, UnderWay
<1>6. RequestsInOrder
  BY <1>1, <1>2, IdleIsOne, ActivationAssumption DEF RequestsInOrder, RequestInOrder,
     UnderWay, At
<1>7. CountersInOrder
  <2>1. \A c \in Codes : Redeemers(c) = {} /\ Taking(c) = {}
    BY <1>1, <1>2 DEF Redeemers, Taking, At
  <2>2. Cardinality({}) = 0 /\ Cardinality(Handlers) \in Nat
    BY RecordsAssumption, FS_EmptySet, FS_CardinalityType
  <2>3. \A c \in Codes : MaxUses[c] \in Nat \ {0} /\ used[c] = 0
    BY <1>1, ActivationAssumption
  <2>4. \A c \in Codes : Cardinality(Redeemers(c)) = 0 /\ Cardinality(Taking(c)) = 0
    BY <2>1, <2>2
  <2>5. \A c \in Codes : \A n1, n2, n3 : n1 = 0 /\ n2 = 0 /\ n3 \in Nat =>
          /\ used[c] <= MaxUses[c] /\ used[c] <= n1 /\ used[c] = n1
          /\ n1 + n2 <= MaxUses[c] - 1 + n3 /\ n1 <= MaxUses[c] /\ n1 < MaxUses[c]
    BY <2>3
  <2>6. QED
    BY <2>2, <2>4, <2>5 DEF CountersInOrder
<1>8. TermsInOrder
  <2>1. \A u \in Users : users[u] \in {Disabled, None} /\ paid[u] = 0
    BY <1>1
  <2>2. \A u \in Users : HoldsThePaid(u)
    BY <1>2, <2>1, IdleIsOne DEF HoldsThePaid, Until, At
  <2>3. QED
    BY <1>2, <2>2 DEF TermsInOrder, At
<1>9. StampsFollow
  BY <1>1, <1>2, ActivationAssumption DEF StampsFollow, At
<1>10. QED
  BY <1>4, <1>5, <1>6, <1>7, <1>8, <1>9 DEF IInv

LEMMA ActivationStepKeeps == IInv /\ Next => IInv'
<1> SUFFICES ASSUME IInv, Next PROVE IInv'
  OBVIOUS
<1>1. Watch
  BY DEF Next
<1>2. ASSUME NEW h \in Handlers, NEW u \in Users, NEW c \in Codes, Redeem(h, u, c) \/ Register(h, u, c) PROVE IInv'
  BY <1>1, <1>2, RedeemKeeps, RegisterKeeps
<1>3. ASSUME NEW h \in Handlers, Create(h) \/ Check(h) \/ Read(h) \/ Batch(h) PROVE IInv'
  BY <1>1, <1>3, CreateKeeps, CheckKeeps, ReadKeeps, BatchKeeps
<1>4. ASSUME NEW h \in Handlers, Restamp(h) \/ Undo(h) \/ Die(h) PROVE IInv'
  BY <1>1, <1>4, RestampKeeps, UndoKeeps, DieKeeps
<1>5. ASSUME NEW h \in Handlers, NEW u \in Users, AdminSet(h, u) PROVE IInv'
  BY <1>1, <1>5, AdminSetKeeps
<1>6. ASSUME (\E c \in Codes : Revoke(c)) \/ Tick PROVE IInv'
  BY <1>1, <1>6, RevokeKeeps, TickKeeps
<1>7. QED
  BY <1>2, <1>3, <1>4, <1>5, <1>6 DEF Next

LEMMA ActivationStays == IInv /\ UNCHANGED vars => IInv'
<1> SUFFICES ASSUME IInv, UNCHANGED vars PROVE IInv'
  OBVIOUS
<1>1. /\ now' = now /\ users' = users /\ stamp' = stamp /\ used' = used /\ revoked' = revoked
      /\ redeemed' = redeemed /\ paid' = paid /\ handler' = handler /\ deaths' = deaths /\ overlap' = overlap
      /\ granted' = granted
  BY DEF vars
<1>2. TypeOK' /\ OneAtATime' /\ StampsFollow'
  BY <1>1 DEF IInv, TypeOK, OneAtATime, UnderWay, StampsFollow, At
<1>3. RequestsInOrder'
  BY <1>1 DEF IInv, RequestsInOrder, RequestInOrder, UnderWay, At
<1>4. CountersInOrder'
  <2>1. \A c \in Codes : Redeemers(c)' = Redeemers(c) /\ Taking(c)' = Taking(c)
    BY <1>1 DEF Redeemers, Taking, At
  <2>2. QED
    BY <1>1, <2>1 DEF IInv, CountersInOrder
<1>5. TermsInOrder'
  <2>1. \A h \in Handlers : WritesAfter(h) => WritesAfter(h)'
    BY <1>1 DEF WritesAfter, Until
  <2>2. \A u \in Users : HoldsThePaid(u) => HoldsThePaid(u)'
    BY <1>1 DEF HoldsThePaid, Until, At
  <2>3. QED
    BY <1>1, <2>1, <2>2, ActivationFacts DEF IInv, TermsInOrder, At
<1>6. QED
  BY <1>2, <1>3, <1>4, <1>5 DEF IInv

\* Without an overlap a permanent activation outlives every redemption.
LEMMA BatchKeepsPermanents == IInv => KeepsPermanents
<1> SUFFICES ASSUME IInv, ~overlap, NEW h \in Handlers, NEW u \in Users, Batch(h), users[u] # None,
                    users[u].status = "permanent"
             PROVE  users'[u] = users[u]
  BY DEF KeepsPermanents
<1>1. handler[h].pc = "batch" /\ WritesAfter(h)
  BY DEF IInv, TermsInOrder, At, Batch
<1>2. handler[h].user # u
  BY <1>1 DEF WritesAfter
<1>3. QED
  BY <1>2, ActivationFacts DEF Batch, Set

\* Of the steps, those that change the activation of an account there is.
LEMMA OnlyBuyingChanges == IInv /\ Next => BuysActivations
<1> SUFFICES ASSUME IInv, Next, NEW u \in Users, users'[u] # users[u], users[u] # None, users'[u] # None
             PROVE  \/ \E c \in Codes : <<c, u>> \in redeemed' \ redeemed
                    \/ \E h \in Handlers : AdminSet(h, u)
  BY DEF BuysActivations
<1>1. users' # users
  OBVIOUS
<1>2. ASSUME NEW h \in Handlers, Create(h) PROVE FALSE
  BY <1>2, ActivationFacts DEF Create
<1>3. ASSUME NEW h \in Handlers, Undo(h) PROVE FALSE
  BY <1>3, ActivationFacts DEF Undo
<1>4. ASSUME NEW h \in Handlers, Batch(h) PROVE \E c \in Codes : <<c, u>> \in redeemed' \ redeemed
  <2>1. PICK v \in Users, c \in Codes : v = handler[h].user /\ c = handler[h].code
    BY <1>4, ActivationFacts DEF Batch, RequestInOrder, UnderWay, At
  <2>2. <<c, v>> \notin redeemed /\ redeemed' = redeemed \cup {<<c, v>>} /\ Set(v, handler[h].next)
    BY <1>1, <1>4, <2>1 DEF Batch
  <2>3. u = v
    BY <2>2, ActivationFacts DEF Set
  <2>4. QED
    BY <2>2, <2>3
<1>5. ASSUME NEW h \in Handlers, NEW v \in Users, AdminSet(h, v) PROVE AdminSet(h, u)
  <2>1. u = v
    BY <1>5, ActivationFacts DEF AdminSet
  <2>2. QED
    BY <1>5, <2>1
<1>6. ASSUME NEW h \in Handlers, NEW v \in Users, NEW c \in Codes, Redeem(h, v, c) \/ Register(h, v, c) PROVE FALSE
  BY <1>1, <1>6 DEF Redeem, Register
<1>7. ASSUME NEW h \in Handlers, Check(h) \/ Read(h) \/ Restamp(h) \/ Die(h) PROVE FALSE
  BY <1>1, <1>7 DEF Check, Read, Restamp, Die
<1>8. ASSUME NEW c \in Codes, Revoke(c) PROVE FALSE
  BY <1>1, <1>8 DEF Revoke
<1>9. ~Tick
  BY <1>1 DEF Tick
<1>10. QED
  BY <1>2, <1>3, <1>4, <1>5, <1>6, <1>7, <1>8, <1>9 DEF Next

\* The records of accounts and codes.
LEMMA ActivationSafe == IInv => EveryDayCounts /\ CountsAgree /\ CredentialsFollow
<1> SUFFICES ASSUME IInv PROVE EveryDayCounts /\ CountsAgree /\ CredentialsFollow
  OBVIOUS
<1>1. EveryDayCounts
  BY DEF IInv, TermsInOrder, HoldsThePaid, EveryDayCounts
<1>2. CountsAgree
  <2> SUFFICES ASSUME NEW c \in Codes
               PROVE  /\ used[c] <= MaxUses[c] /\ used[c] <= Cardinality(Redeemers(c))
                      /\ used[c] = Cardinality(Redeemers(c)) \/ used[c] = MaxUses[c] \/ c \in revoked
                      /\ Cardinality(Redeemers(c)) <= MaxUses[c] + (IF overlap THEN Cardinality(Handlers) - 1 ELSE 0)
    BY DEF CountsAgree
  <2>1. /\ used[c] <= MaxUses[c] /\ used[c] <= Cardinality(Redeemers(c))
        /\ used[c] = Cardinality(Redeemers(c)) \/ used[c] = MaxUses[c] \/ c \in revoked
        /\ Cardinality(Redeemers(c)) + Cardinality(Taking(c)) <= MaxUses[c] - 1 + Cardinality(Handlers)
        /\ ~overlap => Cardinality(Redeemers(c)) <= MaxUses[c]
    BY DEF IInv, CountersInOrder
  <2>2. MaxUses[c] \in Nat /\ Cardinality(Handlers) \in Nat /\ Cardinality(Taking(c)) \in Nat /\ Cardinality(Redeemers(c)) \in Nat
    <3>1. IsFiniteSet(Taking(c)) /\ IsFiniteSet(Redeemers(c))
      BY RecordsAssumption, FS_Subset DEF Taking, Redeemers
    <3>2. QED
      BY <3>1, RecordsAssumption, ActivationAssumption, FS_CardinalityType
  <2>3. \A a, b, k, l : a \in Nat /\ b \in Nat /\ k \in Nat /\ l \in Nat /\ a + b <= k - 1 + l => a <= k + (l - 1)
    OBVIOUS
  <2>4. CASE overlap
    BY <2>1, <2>2, <2>3, <2>4
  <2>5. CASE ~overlap
    BY <2>1, <2>2, <2>5
  <2>6. QED
    BY <2>4, <2>5
<1>3. CredentialsFollow
  BY DEF IInv, StampsFollow, At, CredentialsFollow
<1>4. QED
  BY <1>1, <1>2, <1>3

-----------------------------------------------------------------------------
(* The suite.                                                              *)

LEMMA UpdateAlways == RecordsSpec => []Update!IInv
<1>1. RecordsInit => Update!IInv
  BY UpdateStart DEF RecordsInit
<1>2. Update!IInv /\ [RecordsNext]_recordVars => Update!IInv'
  <2> SUFFICES ASSUME Update!IInv, [RecordsNext]_recordVars PROVE Update!IInv'
    OBVIOUS
  <2>1. Update!Next \/ UNCHANGED updateVars
    BY DEF RecordsNext, recordVars, updateVars
  <2>2. QED
    BY <2>1, UpdateNext, UpdateStepKeeps, UpdateExpires, UpdateStays
<1>3. QED
  BY <1>1, <1>2, PTL DEF RecordsSpec

(* Until a lock expires under a running update, updates run one at a time; what the
   state row reports is the last holder's own; a patch runs once, and before the
   Worker it belongs to is deployed (autoupdate.ts:440). *)
THEOREM UpdatesRunInTurn == RecordsSpec => []UpdatesKeepOrder
<1>1. Update!IInv => UpdatesKeepOrder
  BY UpdateSafe DEF UpdatesKeepOrder
<1>2. QED
  BY <1>1, UpdateAlways, PTL

\* Only edits and the batch write the song's tags, and the batch compares first.
LEMMA EditsAreKept == Retrieval!IInv /\ Retrieval!Next => Retrieval!KeepsEdits
<1> SUFFICES ASSUME Retrieval!IInv, Retrieval!Next, song'.tags # song.tags, song'.edits = song.edits
             PROVE  \E r \in Requests : Retrieval!At(r, "batch") /\ applies[r].payload = Retrieval!Snapshot
  BY DEF Retrieval!KeepsEdits
<1>1. song \in Retrieval!Song /\ song.edits \in Nat
  BY RetrievalFacts
<1>2. ASSUME Retrieval!Edits PROVE FALSE
  <2>1. song'.edits = song.edits + 1
    BY <1>1, <1>2 DEF Retrieval!Edits, Retrieval!Song
  <2>2. QED
    BY <1>1, <2>1
<1>3. ASSUME NEW r \in Requests, Retrieval!Batches(r)
      PROVE  Retrieval!At(r, "batch") /\ applies[r].payload = Retrieval!Snapshot
  BY <1>3 DEF Retrieval!Batches, Retrieval!BatchHits, Retrieval!Current
<1>4. ASSUME NEW r \in Requests, Retrieval!CoverLinks(r) PROVE FALSE
  <2>1. song'.tags = song.tags
    BY <1>1, <1>4 DEF Retrieval!CoverLinks, Retrieval!Song
  <2>2. QED
    BY <2>1
<1>5. ASSUME Retrieval!dispatchRetrievalBatch \/ Retrieval!Claims \/ Retrieval!Fails \/ Retrieval!LeaseEnds PROVE FALSE
  BY <1>5, SMTT(30) DEF Retrieval!dispatchRetrievalBatch, Retrieval!Claims, Retrieval!Fails,
     Retrieval!LeaseEnds
<1>6. \A r \in Requests : Retrieval!Submits(r) => song' = song
  BY DEF Retrieval!Submits
<1>7. \A r \in Requests : Retrieval!ReviewReads(r) \/ Retrieval!RecoverReads(r) => song' = song
  BY DEF Retrieval!ReviewReads, Retrieval!RecoverReads
<1>8. \A r \in Requests : Retrieval!CoverFails(r) \/ Retrieval!Dies(r) => song' = song
  <2>1. \A r \in Requests : Retrieval!CoverFails(r) => song' = song
    BY DEF Retrieval!CoverFails
  <2>2. \A r \in Requests : Retrieval!Dies(r) => song' = song
    BY SMTT(30) DEF Retrieval!Dies
  <2>3. QED
    BY <2>1, <2>2
<1>9. \A r \in Requests : Retrieval!Reviews(r) => song' = song
  BY DEF Retrieval!Reviews, Retrieval!ReviewKeeps, Retrieval!ReviewRetries,
     Retrieval!ReviewApplies, Retrieval!ReviewGone
<1>10. \A r \in Requests : Retrieval!Acquires(r) \/ Retrieval!Looks(r) \/ Retrieval!CoverLooks(r) => song' = song
  BY DEF Retrieval!Acquires, Retrieval!Looks, Retrieval!CoverLooks
<1>11. \A r \in Requests :
          Retrieval!CoverPuts(r) \/ Retrieval!CoverDeletes(r) \/ Retrieval!Receipts(r) \/ Retrieval!Settles(r) => song' = song
  BY DEF Retrieval!CoverPuts, Retrieval!CoverDeletes, Retrieval!Receipts, Retrieval!Settles
<1>12. QED
  BY <1>2, <1>3, <1>4, <1>5, <1>6, <1>7, <1>8, <1>9, <1>10, <1>11 DEF Retrieval!Next,
     Retrieval!Applies

LEMMA RetrievalAlways == RecordsSpec => []Retrieval!IInv
<1>1. RecordsInit => Retrieval!IInv
  BY RetrievalStart DEF RecordsInit
<1>2. Retrieval!IInv /\ [RecordsNext]_recordVars => Retrieval!IInv'
  <2> SUFFICES ASSUME Retrieval!IInv, [RecordsNext]_recordVars PROVE Retrieval!IInv'
    OBVIOUS
  <2>1. Retrieval!Next \/ UNCHANGED retrievalVars
    BY DEF RecordsNext, recordVars, retrievalVars
  <2>2. QED
    BY <2>1, RetrievalStepKeeps, RetrievalStays
<1>3. QED
  BY <1>1, <1>2, PTL DEF RecordsSpec

\* A picture follows the tags it came with, and a task that waits for a review has
\* candidates to review, wherever the applies were interrupted
\* (workMetadataRetrieval.ts:529).
THEOREM PicturesFollowTags == RecordsSpec => []CoverFollows
<1>1. Retrieval!IInv => CoverFollows
  <2> SUFFICES ASSUME Retrieval!IInv PROVE CoverFollows
    OBVIOUS
  <2>1. Retrieval!CoverFollows
    <3>1. Retrieval!Plain("null").kind = "null"
      BY DEF Retrieval!Plain, Retrieval!Note
    <3>2. QED
      BY <3>1 DEF Retrieval!IInv, Retrieval!PicturesInOrder, Retrieval!ReceiptsAreTrue,
         Retrieval!InTheCatalogue,
         Retrieval!CoverFollows
  <2>2. QED
    BY <2>1 DEF Retrieval!IInv, CoverFollows
<1>2. QED
  BY <1>1, RetrievalAlways, PTL

LEMMA CronAlways == RecordsSpec => []Cron!IInv
<1>1. RecordsInit => Cron!IInv
  BY CronStart DEF RecordsInit
<1>2. Cron!IInv /\ [RecordsNext]_recordVars => Cron!IInv'
  <2> SUFFICES ASSUME Cron!IInv, [RecordsNext]_recordVars PROVE Cron!IInv'
    OBVIOUS
  <2>1. Cron!Next \/ UNCHANGED cronVars
    BY DEF RecordsNext, recordVars, cronVars
  <2>2. QED
    BY <2>1, CronStepKeeps, CronStays
<1>3. QED
  BY <1>1, <1>2, PTL DEF RecordsSpec

\* Unless requests overlapped or the secret was not written, what a super administrator's
\* login applies after a deploy is the schedule the administrator applied last, whichever
\* other call failed (cf.ts:314).
THEOREM RecoveryRestoresTheChoice == RecordsSpec => RestoresTheChoice
<1>1. Cron!IInv => Cron!RestoresIt
  <2> SUFFICES ASSUME Cron!IInv, ~both, Cron!Never({"secret"}), choice \notin {None, Cleared},
                      NEW h \in Handlers, Cron!PutCrons(h), login[h].kind = "login"
               PROVE  live' \in {choice, live}
    BY DEF Cron!RestoresIt, Cron!AppliesTheChoice
  <2>1. login[h].pc = "put" => login[h].crons = choice
    BY DEF Cron!IInv, Cron!ChoiceIsKept
  <2>2. QED
    BY <2>1 DEF Cron!PutCrons
<1>2. Cron!IInv => [part = "cron" => Cron!RestoresIt]_recordVars
  BY <1>1
<1>3. QED
  BY <1>2, CronAlways, PTL DEF RestoresTheChoice

\* When no request is under way a record of the deployed build is of the schedule that runs,
\* unless requests overlapped, a call failed or a deploy kept the version (cronRecovery.ts:181).
THEOREM RecordsAreOfWhatRuns == RecordsSpec => [](part = "cron" => Cron!RecordIsLive)
<1>1. Cron!IInv => Cron!RecordIsLive
  BY DEF Cron!IInv, Cron!RecordsAreLive, Cron!RecordIsLive, Cron!Recording
<1>2. QED
  BY <1>1, CronAlways, PTL

LEMMA ActivationAlways == RecordsSpec => []IInv
<1>1. RecordsInit => IInv
  BY ActivationStart DEF RecordsInit
<1>2. IInv /\ [RecordsNext]_recordVars => IInv'
  <2> SUFFICES ASSUME IInv, [RecordsNext]_recordVars PROVE IInv'
    OBVIOUS
  <2>1. Next \/ UNCHANGED vars
    BY DEF RecordsNext, recordVars, vars
  <2>2. QED
    BY <2>1, ActivationStepKeeps, ActivationStays
<1>3. QED
  BY <1>1, <1>2, PTL DEF RecordsSpec

\* However requests overlap, an account's activation changes only with a redemption of its
\* own that is new or by the administrator; and unless they overlap no redemption ends a
\* permanent one (activation.ts:195).
THEOREM ActivationsCostACode == RecordsSpec => ActivationsAreEarned
<1>1. IInv /\ [RecordsNext]_recordVars => [part = "activation" => KeepsPermanents /\ BuysActivations]_recordVars
  <2> SUFFICES ASSUME IInv, RecordsNext, part = "activation" PROVE KeepsPermanents /\ BuysActivations
    OBVIOUS
  <2>1. Next
    BY DEF RecordsNext
  <2>2. QED
    BY <2>1, BatchKeepsPermanents, OnlyBuyingChanges
<1>2. QED
  BY <1>1, ActivationAlways, PTL DEF RecordsSpec, ActivationsAreEarned

\* What the records say is so.  Accounts: every day of every duration code is in the term
\* unless requests overlapped, each counter is the redemptions until its code is spent, and
\* stamps follow (activation.ts:148); the schedule: a record of the deployed build is of
\* what runs (cronRecovery.ts:181).
THEOREM RecordsTellTheTruth == RecordsSpec => []RecordsAgree
<1>1. IInv /\ (part = "cron" => Cron!RecordIsLive) => RecordsAgree
  BY ActivationSafe DEF RecordsAgree
<1>2. QED
  BY <1>1, ActivationAlways, RecordsAreOfWhatRuns, PTL

================================================================================
