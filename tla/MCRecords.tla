------------------------------ MODULE MCRecords ------------------------------
(***************************************************************************)
(* Small instances of five components that keep a record true over several *)
(* statements, and do not interact here: invite codes and activations, the *)
(* recovery of the cron schedule, self-update, what an upload brings with  *)
(* it, and what the metadata sources know of a song.  part says which one  *)
(* a behaviour is about, and the others rest.                              *)
(***************************************************************************)
EXTENDS Activation, TLC

CONSTANTS
    m, n, new, once, days, more, win, perm, h1, h2,
    Schedules, Default, Cleared, Calls, MaxFaults, SameBuild, MaxDeploys, MaxSets,   \* of CronRecovery
    Updates, Releases, First,                                                        \* of SelfUpdate
    MaxUploads, Kinds, Storages,                                                     \* of UploadMetadata
    Requests, MaxEdits, MaxTries                                                     \* of MetadataRetrieval

VARIABLES part,
          live, build, secret, d1, login, deploys, sets, failed, choice, both, redeployed,
          row, patches, ran, active, crons, upd, late,
          inPlace, bytes, inst, covered, marker, task, up, direct, apply, enq, job, older, faults,
          song, object, review, applies, mishaps, mixed

Cron == INSTANCE CronRecovery WITH Faults <- Calls, handler <- login, overlap <- both
Update == INSTANCE SelfUpdate
Uploads == INSTANCE UploadMetadata
Retrieval == INSTANCE MetadataRetrieval WITH task <- review, apply <- applies, faults <- mishaps

cronVars == <<live, build, secret, d1, login, deploys, sets, failed, choice, both, redeployed>>
updateVars == <<row, patches, ran, active, crons, upd, late>>
uploadVars == <<inPlace, bytes, inst, covered, marker, task, up, direct, apply, enq, job, older, faults>>
retrievalVars == <<song, object, review, applies, mishaps, mixed>>

\* None is nobody, no release, no status and no stage.
ASSUME RecordsAssumption ==
    /\ None \notin Updates /\ None \notin Releases /\ None \notin Requests
    /\ None \notin {"success", "error", "own", "found", "cover", "done", "queued", "claimed", "completed", "login"}
    /\ None \notin Retrieval!Payload
    /\ Default \in Schedules /\ Cleared \in Schedules /\ Default # Cleared
    /\ None \notin Schedules /\ None \notin Cron!State /\ None \notin State
    /\ IsFiniteSet(Handlers) /\ IsFiniteSet(Users)
    /\ MaxUploads \in Nat \ {0} /\ Kinds \subseteq {"direct", "queued"} /\ Storages \subseteq BOOLEAN
    /\ None \notin Int /\ None \notin Kinds /\ None \notin Uploads!Instance /\ None \notin Uploads!Marker
    /\ None \notin Uploads!Task
    /\ MaxEdits \in Nat /\ MaxTries \in Nat /\ MaxFaults \in Nat /\ MaxDeploys \in Nat /\ MaxSets \in Nat

recordVars == <<part, now, users, stamp, used, revoked, redeemed, paid, handler, deaths, overlap, granted,
                 live, build, secret, d1, login, deploys, sets, failed, choice, both, redeployed,
                 row, patches, ran, active, crons, upd, late,
                 inPlace, bytes, inst, covered, marker, task, up, direct, apply, enq, job, older, faults,
                 song, object, review, applies, mishaps, mixed>>

RecordsInit ==
    /\ part \in {"activation", "cron", "update", "upload", "retrieval"}
    /\ Init /\ Cron!Init /\ Update!Init /\ Uploads!Init /\ Retrieval!Init
    /\ part # "upload" /\ TRUE \in Storages => inPlace

RecordsNext ==
    /\ UNCHANGED part
    /\ IF part = "activation" THEN Next ELSE UNCHANGED vars
    /\ IF part = "cron" THEN Cron!Next ELSE UNCHANGED cronVars
    /\ IF part = "update" THEN Update!Next ELSE UNCHANGED updateVars
    /\ IF part = "upload" THEN Uploads!Next ELSE UNCHANGED uploadVars
    /\ IF part = "retrieval" THEN Retrieval!Next ELSE UNCHANGED retrievalVars

RecordsSpec == RecordsInit /\ [][RecordsNext]_recordVars

MCKind == [c \in Codes |-> IF c = win THEN "window" ELSE IF c = perm THEN "permanent" ELSE "duration"]
MCSpan == [c \in Codes |-> IF c = days THEN 2 ELSE 1]
MCMaxUses == [c \in Codes |-> IF c = days THEN 2 ELSE 1]
MCSymmetry == Permutations(Handlers) \cup Permutations(Updates) \cup Permutations(Requests)

CodesInUse == {c \in Codes : (\E h \in Handlers : handler[h].code = c) \/ used[c] > 0 \/ c \in revoked}

\* One request at a time of two users: all codes of all kinds but one, two days pass.
Serial ==
    /\ ~overlap /\ once \notin CodesInUse /\ granted = {} /\ deaths = 0
    /\ \A h \in Handlers : handler[h].user # n

\* Two at once, among them the administrator's or one that ends midway: a single
\* code and two accounts, or three as long as nothing else happens.
Race ==
    /\ now = 0 /\ CodesInUse \subseteq {once}
    /\ granted = {} \/ deaths = 0
    /\ \/ n \notin granted /\ (\A h \in Handlers : handler[h].user # n) /\ <<once, n>> \notin redeemed
       \/ granted = {} /\ revoked = {} /\ deaths = 0

\* Two requests at once around one failure, one deploy and one save, or one
\* request at a time.
CronCorner ==
    both => /\ deploys <= 1 /\ sets <= 1 /\ ~redeployed
            /\ MapThenSumSet(LAMBDA c : failed[c], Calls) <= 1

\* Either storage with failures and the queue alone; or no failure, a URI that does
\* not survive an overwrite (README: the late marker), and a direct upload that is
\* overwritten by a queued one, or by a direct one as long as nothing is queued.
UploadCorner ==
    \/ \A g \in Uploads!Gens : up[g].kind # "direct"
    \/ ~inPlace /\ faults = 0 /\ (up[2].kind = "direct" => up[1].kind = "direct" /\ task = None)

Corner ==
    CASE part = "activation" -> Serial \/ Race [] part = "cron" -> CronCorner
      [] part = "upload" -> UploadCorner [] part \in {"update", "retrieval"} -> TRUE

-----------------------------------------------------------------------------
\* The type invariants of the modules.
TypesOK == CASE part = "activation" -> TypeOK [] part = "cron" -> Cron!TypeOK [] part = "update" -> Update!TypeOK
             [] part = "upload" -> Uploads!TypeOK [] part = "retrieval" -> Retrieval!TypeOK

\* What the records say is so: terms hold every day bought, counters the redemptions,
\* stamps the activation (activation.ts:148), and the record of the running build the
\* schedule that runs (cronRecovery.ts:181).
RecordsAgree ==
    /\ part = "activation" => EveryDayCounts /\ CountsAgree /\ CredentialsFollow
    /\ part = "cron" => Cron!RecordIsLive

\* No activation is bought without a code or lost to one (activation.ts:195).
ActivationsAreEarned == [][part = "activation" => KeepsPermanents /\ BuysActivations]_recordVars

\* Recovery restores the administrator's choice (cf.ts:314).
RestoresTheChoice == [][part = "cron" => Cron!RestoresIt]_recordVars

\* Updates run one at a time, each is reported as it went, and each patch runs once
\* (autoupdate.ts:440).
UpdatesKeepOrder ==
    part = "update" => Update!OneUpdateRuns /\ Update!ReportIsItsOwn /\ Update!PatchedOnceBefore

\* Tags that count as parsed are those of the bytes (uploadMetadataQueue.ts:51).
TagsOfBytes == part = "upload" => Uploads!TagsOfBytes

\* The picture follows the tags, wherever an apply is interrupted, and a task that
\* waits for a review has candidates (workMetadataRetrieval.ts:561).
CoverFollows == part = "retrieval" => Retrieval!CoverFollows /\ Retrieval!ReviewHasCandidates

\* Work never undoes what is newer: no marker of a file that waits for its tags is
\* lost, and no result of the metadata sources overwrites what was edited after it
\* was asked for (uploadMetadata.ts; workMetadataRetrieval.ts:670).
NewerStays ==
    [][ /\ part = "upload" => Uploads!KeepsMarker
        /\ part = "retrieval" => Retrieval!KeepsEdits ]_recordVars
=============================================================================
