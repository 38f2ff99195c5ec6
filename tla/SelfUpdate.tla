----------------------------- MODULE SelfUpdate -----------------------------
(***************************************************************************)
(* The Worker replaces itself: an update reads the running version, locks  *)
(* the state row, downloads and verifies a release, runs its database      *)
(* patch, uploads an immutable Worker version, deploys it, asks the new    *)
(* Worker for its version and goes back when it does not answer.  The lock *)
(* is the row's status with the time of its last change: fifteen minutes   *)
(* without a change and another update takes it, whether the first is dead *)
(* or only slow.  An update's Worker version is named after it.            *)
(***************************************************************************)
EXTENDS Integers, FiniteSets

CONSTANTS
    Updates,      \* requests to update
    Releases,     \* release numbers above the first, all of one major
    First,        \* the Worker version installed at first, of release 0
    None

VARIABLES
    row,          \* autoupdate_state
    patches,      \* autoupdate_patches
    ran,          \* how often each release's patch has run
    active,       \* the deployed Worker version
    crons,        \* whether its schedules are there
    upd,
    late          \* a lock has expired under an update that was still running

updateVars == <<row, patches, ran, active, crons, upd, late>>

Busy == {"resolving", "downloading", "patching", "uploading", "deploying"}
Ended == {"new", "done", "failed", "dead"}

Init ==
    /\ row = [status |-> None, op |-> None, target |-> None, version |-> None, expired |-> FALSE]
    /\ patches = {} /\ ran = [v \in Releases |-> 0]
    /\ active = First /\ crons = TRUE
    /\ upd = [o \in Updates |-> [at |-> "new", base |-> 0, target |-> None, prev |-> None, crons |-> FALSE]]
    /\ late = FALSE

ReleaseOf(w) == IF w = First THEN 0 ELSE upd[w].target
Running(o) == upd[o].at \notin Ended \cup {"lock"}
At(o, at) == upd[o].at = at
Goto(o, at) == upd' = [upd EXCEPT ![o].at = at]

\* classifyVersionUpdate against the version this request runs in
UpdateStarts(o, v) ==
    /\ At(o, "new") /\ v > ReleaseOf(active)
    /\ upd' = [upd EXCEPT ![o] = [@ EXCEPT !.at = "lock", !.base = ReleaseOf(active), !.target = v]]
    /\ UNCHANGED <<row, patches, ran, active, crons, late>>

\* Mutant: deploying is missing from the statuses that keep the lock.
LockIsFreeAny == row.status \notin (Busy \ {"deploying"}) \/ row.expired

LockIsFree == row.status \notin Busy \/ row.expired

acquireUpdateLock(o) ==
    /\ At(o, "lock")
    /\ IF LockIsFree
       THEN /\ row' = [status |-> "resolving", op |-> o, target |-> upd[o].target, version |-> None, expired |-> FALSE]
            /\ Goto(o, "download")
       ELSE Goto(o, "failed") /\ UNCHANGED row
    /\ UNCHANGED <<patches, ran, active, crons, late>>

\* Mutant: the state is written whoever has the row.
updateStateAny(o, status, version) ==
    row' = [row EXCEPT !.status = status, !.version = IF version = None THEN @ ELSE version, !.expired = FALSE]

\* The row, while it is this operation's; a version stays when none is given
updateState(o, status, version) ==
    row' = IF row.op # o THEN row
           ELSE [row EXCEPT !.status = status, !.version = IF version = None THEN @ ELSE version, !.expired = FALSE]

UpdateDownloads(o) ==
    /\ At(o, "download") /\ updateState(o, "downloading", None) /\ Goto(o, "read")
    /\ UNCHANGED <<patches, ran, active, crons, late>>

\* The version to go back to, and the schedules
UpdateReads(o) ==
    /\ At(o, "read")
    /\ upd' = [upd EXCEPT ![o] = [@ EXCEPT !.at = "look", !.prev = active, !.crons = crons]]
    /\ updateState(o, "patching", None)
    /\ UNCHANGED <<patches, ran, active, crons, late>>

UpdateLooks(o) ==
    /\ At(o, "look")
    /\ Goto(o, IF upd[o].target \in patches THEN "upload" ELSE "patch")
    /\ UNCHANGED <<row, patches, ran, active, crons, late>>

\* Mutant: the patch and its record are not one transaction.
RunPatchUnrecorded(o) ==
    /\ ran' = [ran EXCEPT ![upd[o].target] = @ + 1]
    /\ patches' = patches \cup {upd[o].target}
    /\ Goto(o, "upload") /\ UNCHANGED row

\* The patch and its record in one transaction: the second to run it is refused
RunPatch(o) ==
    IF upd[o].target \in patches
    THEN Goto(o, "failed") /\ updateState(o, "error", None) /\ UNCHANGED <<patches, ran>>
    ELSE /\ ran' = [ran EXCEPT ![upd[o].target] = @ + 1]
         /\ patches' = patches \cup {upd[o].target}
         /\ Goto(o, "upload") /\ UNCHANGED row

applyPatch(o) == At(o, "patch") /\ RunPatch(o) /\ UNCHANGED <<active, crons, late>>

UpdateUploads(o) ==
    /\ At(o, "upload") /\ updateState(o, "uploading", None) /\ Goto(o, "uploaded")
    /\ UNCHANGED <<patches, ran, active, crons, late>>

UpdateUploaded(o) ==
    /\ At(o, "uploaded") /\ updateState(o, "deploying", o) /\ Goto(o, "deploy")
    /\ UNCHANGED <<patches, ran, active, crons, late>>

\* A deployment normally keeps the schedules
UpdateDeploys(o) ==
    /\ At(o, "deploy")
    /\ active' = o /\ crons' \in {crons, FALSE}
    /\ Goto(o, "check")
    /\ UNCHANGED <<row, patches, ran, late>>

\* healthCheck: the version that answers is the one expected, or the update goes back
UpdateChecks(o, healthy) ==
    /\ At(o, "check") /\ (healthy => ReleaseOf(active) = upd[o].target)
    /\ Goto(o, IF healthy THEN "restore" ELSE "back")
    /\ UNCHANGED <<row, patches, ran, active, crons, late>>

\* The earlier version is deployed, or that fails too; an error either way
UpdateGoesBack(o, ok) ==
    /\ At(o, "back")
    /\ active' = IF ok THEN upd[o].prev ELSE active
    /\ updateState(o, "error", o) /\ Goto(o, "failed")
    /\ UNCHANGED <<patches, ran, crons, late>>

\* restoreCrons, whose failure is ignored
UpdateEnds(o, ok) ==
    /\ At(o, "restore")
    /\ crons' = (crons \/ (ok /\ upd[o].crons))
    /\ updateState(o, "success", o) /\ Goto(o, "done")
    /\ UNCHANGED <<patches, ran, active, late>>

\* A download, a checksum, an upload, the API
UpdateFails(o) ==
    /\ upd[o].at \in {"read", "look", "uploaded", "deploy"}
    /\ updateState(o, "error", IF At(o, "deploy") THEN o ELSE None) /\ Goto(o, "failed")
    /\ UNCHANGED <<patches, ran, active, crons, late>>

UpdateDies(o) ==
    /\ Running(o) /\ Goto(o, "dead")
    /\ UNCHANGED <<row, patches, ran, active, crons, late>>

LockExpires ==
    /\ row.status \in Busy /\ ~row.expired
    /\ row' = [row EXCEPT !.expired = TRUE]
    /\ late' = (late \/ Running(row.op))
    /\ UNCHANGED <<patches, ran, active, crons, upd>>

Next ==
    \/ \E o \in Updates :
         \/ \E v \in Releases : UpdateStarts(o, v)
         \/ acquireUpdateLock(o) \/ UpdateDownloads(o) \/ UpdateReads(o) \/ UpdateLooks(o) \/ applyPatch(o)
         \/ UpdateUploads(o) \/ UpdateUploaded(o) \/ UpdateDeploys(o)
         \/ \E ok \in BOOLEAN : UpdateChecks(o, ok) \/ UpdateGoesBack(o, ok) \/ UpdateEnds(o, ok)
         \/ UpdateFails(o) \/ UpdateDies(o)
    \/ LockExpires

Spec == Init /\ [][Next]_updateVars

Patched == {"upload", "uploaded", "deploy", "check", "back", "restore"}
Request == [at : Ended \cup Patched \cup {"lock", "download", "read", "look", "patch"},
            base : Releases \cup {0}, target : Releases \cup {None},
            prev : Updates \cup {First, None}, crons : BOOLEAN]
State == [status : Busy \cup {"success", "error", None}, op : Updates \cup {None},
          target : Releases \cup {None}, version : Updates \cup {None}, expired : BOOLEAN]

TypeOK ==
    /\ row \in State /\ upd \in [Updates -> Request]
    /\ patches \subseteq Releases /\ ran \in [Releases -> Nat]
    /\ active \in Updates \cup {First} /\ crons \in BOOLEAN /\ late \in BOOLEAN

(* Updates run one at a time as long as none takes fifteen minutes for a step:
   a dead one gives the lock back, a live one keeps it to its last step. *)
OneUpdateRuns == late \/ Cardinality({o \in Updates : Running(o)}) <= 1

(* What the administrator reads is the last update's own: also when the lock was
   taken from a slow one, its late success, error or version never shows. *)
ReportIsItsOwn ==
    /\ row.status = "success" => upd[row.op].at = "done" /\ row.version = row.op
    /\ row.status = "error" => upd[row.op].at = "failed"
    /\ row.version \in {None, row.op}

(* Even when two updates run, a patch runs once, and no Worker is deployed whose
   patch has not run. *)
PatchedOnceBefore ==
    /\ \A v \in Releases : ran[v] <= 1
    /\ active # First => ReleaseOf(active) \in patches

-----------------------------------------------------------------------------
(* What the three hold by, in every step.                                   *)

\* A release is named when the update begins, and patched before its upload.
TargetsArePatched ==
    \A o \in Updates : /\ At(o, "new") <=> upd[o].target = None
                       /\ upd[o].at \in Patched => upd[o].target \in patches

\* A Worker version that may be deployed: the first, or one whose patch has run.
Deployable(w) == w = First \/ (w \in Updates /\ upd[w].target \in patches)

DeploysThePatched ==
    /\ Deployable(active)
    /\ \A o \in Updates : upd[o].at \in Patched \cup {"look", "patch"} => Deployable(upd[o].prev)

PatchesAreRecorded == \A v \in Releases : ran[v] = IF v \in patches THEN 1 ELSE 0

\* Until a lock expires under it, who runs holds it.
RunnerHoldsTheLock ==
    late \/ \A o \in Updates : Running(o) => row.op = o /\ row.status \in Busy /\ ~row.expired

OutcomeIsSomebodys == row.status \in {"success", "error"} => row.op \in Updates

IInv ==
    /\ TypeOK /\ TargetsArePatched /\ DeploysThePatched /\ PatchesAreRecorded
    /\ RunnerHoldsTheLock /\ OutcomeIsSomebodys /\ ReportIsItsOwn

(* "Downgrades and same-version updates are rejected" (docs/WORKER_SELF_UPDATE.md:70):
   what is deployed is newer than what runs. *)
OnlyNewer == [][\A o \in Updates : (At(o, "deploy") /\ active' = o /\ active # o) => upd[o].target > ReleaseOf(active)]_updateVars
=============================================================================
