# EdgeSonic in TLA+

EdgeSonic is a music server on Cloudflare Workers: a Worker (`worker/`) with a D1
database, R2 buckets and two Durable Objects, and a Vue application (`web/`) whose
browsers also do the server's heavy work. This directory holds TLA+ models of the
parts of it in which several requests, objects, browsers and failures meet, TLC
runs that check them on small instances, and TLAPS proofs about the queue, the
coordinator, KTV rooms and codes, and the records of accounts, schedules, updates,
uploads and retrieved metadata.

Three facts about the platform shape every model:

- A request handler runs alone between two `await`s and may be overtaken at each of
  them. A D1 statement is atomic, a `DB.batch` is a transaction, and nothing else is.
  So a model's step is the code between two awaits (merged when no other actor can
  see the difference), and everything read earlier is a local of the handler's
  record.
- A handler may throw at any await or simply end (an isolate is evicted, `waitUntil`
  work is cut off). Such failures are actions of their own, counted by a constant
  (`MaxFaults`, `MaxDeaths`, ...), and what is caught where is part of the action.
- The page is the same with one thread: its handlers of events, timers and answers
  run to their next await, and what they had started before a change (a fetch, a
  media element's load, a socket) still answers after it.

`PROJECT.json` lists components, runs, mutants (for each property of a passing run a
plausible bug that violates it), the source lines of each definition, findings,
hazards and theorems. Operators commented "Mutant" or "Mutation" are those bugs:
nothing but the mutant uses them.

## The system

| Component | State | Operations | What is hard | Model |
|---|---|---|---|---|
| Work queue (`endpoints/edgesonic/work.ts`, `utils/workReclaim.ts`) | rows of `work_queue` | enqueue, upsert, claim, heartbeat, submit, release, cancel, sweep, reset | a claim is a lease; submits are late; two sweeps; row ids are reused | `WorkRows`, `WorkQueue`, `WorkLease` |
| Coordinator (`coordinator/workCoordinator.ts`) | attachments of the sockets, the alarm | connect, message, close, notify, alarm, dispatch | awaits inside handlers of one object; private copies written back; wakes lost | `WorkCoordinator` |
| Browser worker (`stores/workSocket.ts`, `lib/taskRunner.ts`) | socket, timers, tasks running, budget | start, stop, connect, drop, run, finish, ping | events of sockets that are no longer the current one; awaits before a socket is opened | `WorkSocket`, `WorkCoordinator` |
| Upload metadata (`utils/uploadMetadata*.ts`, `work_upload.ts`, `files.ts`) | `song_instances`, markers, leases, tasks and their notes | upload, direct submit, queue, apply, recover, sweep | overwrites race with parses of the old bytes; every prefix of an apply may be the last | `UploadMetadata` |
| Metadata retrieval (`workMetadataRetrieval.ts`) | a song, its task with a note, candidates, receipts | restart, dispatch, claim, submit, review, apply, recover | an apply over several stores; edits and a second request in between | `MetadataRetrieval` |
| Files in R2 (`storage/files.ts`, `migrate.ts`, `work_lossless.ts`, `tag/write.ts`) | objects, `storage_objects`, entries, instances, the conversion's row | upload, overwrite, delete, copy, move, mirror, migrate, retire, tag edit, switch to FLAC | snapshots compared, awaits, batches; two stores without a transaction | `R2Files` |
| Storage scan (`storage/scan.ts`, `utils/scheduledScan.ts`) | the source's listing, instances, scan jobs, tasks | scan by hand or schedule, list, compare, hide, restore | the listing, the rows read and the writes are of different moments | `StorageScan` |
| Hot cache (`utils/hotcache.ts`, `utils/cacheTiers.ts`) | `song_instances` of the cache source, the bucket | claim, evict, copy, show, undo, sweep | bytes and rows are two stores; lists are stale | `HotCache` |
| Catalogue merge, dedupe (`utils/catalogMerge.ts`, `historicalSongDedupe.ts`, `diagnostics.ts`) | songs, instances, annotations, playlist entries | merge, remove surplus copies, dedupe | requests that chose their survivors at different moments | `CatalogMerge` |
| KTV rooms (`ktv/room.ts`) | one room per Durable Object | open, join, request, prepare, play, rotate, close | the room is read, awaited on and saved; fair turns and a look-ahead | `KtvRoom` |
| KTV invitations (`ktv/room.ts`, `ktv/routes.ts`) | codes in `kv_store` shared by all rooms | draw, register, rotate, delete | DELETEs that arrive late or never | `KtvInvite` |
| Activation (`utils/activation.ts`, `auth.ts`, `endpoints/edgesonic/activation.ts`) | users' terms, codes, redemptions, stamped credentials | redeem, register, set, revoke | checks before a batch that does not repeat them | `Activation` |
| Cron recovery (`utils/cronRecovery.ts`, `cf.ts`) | Cloudflare's schedules, a secret and a D1 row | save, default, login's recovery, deploy | two best-effort copies, a build compared instead of the schedule | `CronRecovery` |
| Self-update (`utils/autoupdate.ts`) | a lock with a TTL, a state row, patches, the deployed version | lock, patch, deploy, verify, roll back, report | the lock may lapse under its holder; any step may be the last | `SelfUpdate` |
| Peer sync (`utils/peerSync.ts`, `subsonic/annotation.ts`, `playlists.ts`) | stars and playlists of two servers, snapshots | push a change, hourly pull | lost pushes, runs cut off before the snapshot is saved | `PeerSync` |
| Cloning (`views/Tools.vue`, `clone.ts`) | the page's run, its saved progress, the id map, songs, objects, playlists | metadata, audio, playlist chunks, cancel, reload | what is skipped on a second run; retried chunks; lists renamed meanwhile | `Clone` |
| Player (`stores/player.ts`) | queue, modes, two audio elements, recovery | play, move, preload, swap, recover, restore | late answers and events of an element that has other work by now | `Player` |
| Request budget, prefetch (`lib/requestBudget.ts`, `trackPrefetch.ts`, `requestEpoch.ts`) | slots, queues, shared loads, cached results | acquire, time out, abort, share, expire | one load with many callers, each with a signal of its own | `RequestBudget` |
| Transcode engines, upload pipeline, podcasts, video sessions | rows, tokens, retries | | | not modelled |
| Sessions, OIDC, login protection, MCP OAuth | credentials, counters, one-time codes | log in, lock, exchange | one-time use | registration only |
| Permissions, shares, bookmarks, tags' formats, albums | rows | CRUD and single statements | little concurrency | not modelled |
| Adapters, messages, e-mail, Studio relay, views, installer, schema | none of their own | I/O, presentation | | not modelled |

How they interact: `dispatchWork` inserts a row and wakes the coordinator; the
coordinator claims rows for the sockets with free slots and sends them; a browser
runs a task, heartbeats it over HTTP and submits it over HTTP; submit finishes the
claim and, for metadata, applies the result to the catalogue under a lease; a sweep
(from the object's alarm and from the hourly cron) takes back rows whose heartbeat is
older than the TTL. Uploads, scans, the retrieval of metadata, the recovery job,
maintenance and the lossless batch are the queue's enqueuers. The hourly cron drives
the sweeps, the hot cache's eviction, scheduled scans, the pull from the peer and the
recovery jobs, which is why a lost schedule (cron recovery) matters to all of them.
Scans, uploads, the switch to FLAC, clones and merges all write `song_instances`;
each is modelled with the others' writes as changes it has to survive. Rooms, the hot cache
and activation share only the database with the rest.

## The modules

`WorkRows` has the statements of `work_queue` as functions from a row to a row: who
may claim, what a claim, release, error, result, cancellation, sweep and redispatch
leaves behind. `WorkQueue` makes them a state machine with a clock, and
`WorkCoordinator` uses the same row functions under sockets and an alarm.

**WorkQueue.** `row` is the table, `leases` the claims that browsers still believe in,
`submits` the requests between their read and their UPDATE, `sweep` the reclaim passes
between their SELECT and their two UPDATEs (each with the cutoff it was started with).
`claims` counts the claims made on a row, `finisher` is the claim whose result it
holds; both are history. One action per route or statement; a submit and a sweep
are split at their awaits. Time is `now`, in seconds as in the table: claims are told
apart by user, attempts and second, so the granularity is part of the model.

**WorkLease** is what a task is promised, without rows, seconds and sweeps: it is free,
held, or over; holds follow one another, only the holder finishes it, and each may fail
it or lose it. `WorkQueue` implements it for the rows that are never redispatched:
`Promise` in `WorkQueue` is the INSTANCE with the mapping from a row, `KeepsThePromise`
the property of the run, and `WorkQueueProofs` has the proof.

**WorkCoordinator.** `att` and the handlers' private copies of it are separate, since
the code reads a socket's attachment, awaits, and writes it back. The dispatch loop
has a program counter at each await (feature flag, candidate SELECT, one UPDATE per
row, send). Tabs have a socket at most, running tasks and a budget; connections
carry messages in order and may drop. A lapse of the TTL is an event (`Lapse`, where
`heartbeatAt` becomes 0) rather than a clock. Rows are handed out in the order of `Rank`,
the order of the SELECT; `Foremost` is the first that `Ranked` finds, and the tasks are
finitely many, since a SELECT returns finitely many rows.

**WorkSocket** is the page's side, with what `WorkCoordinator` abstracts from: the
question whether this account may work, the socket that is tracked and those that
are only still open, the timers for reconnection, keepalive and grace, and the tasks
with their AbortController. A `close` event of any socket runs the same handler.

**UploadMetadata.** One path, up to `MaxUploads` contents ("generations"). `inst` is
the file's row, `marker` the pending or lease row of that file, `task` its queue row
with the note of an unfinished apply; `up`, `direct`, `enq`, `apply` and `job` are the handlers.
`inPlace`, chosen at the start, tells storage whose URI survives an overwrite from
storage that gives a new one. A generation's tags are its number, so "tags of these bytes" is
an equation. One apply runs at a time: the note admits one.

**MetadataRetrieval.** One song with its `object` (the cover) and one row of the queue
with the receipt, the lease and the note of an apply. A request is a handler at each of
its awaits; `apply` in particular writes the tags, the cover, the link, the receipt and
the note in that order and may end after each. The recovery that the cron and the next
submit run takes the note up where it stands.

**R2Files.** Two paths and a directory of what lies under them: objects with their
content, `storage_objects`, `source_files` entries, `song_instances`, and the row of a
conversion. Each operation is a request with its reads as locals. Contents are ids, so
an instance that plays another song's bytes is visible. A batch is one step. Files that
an operation writes are named after its request, as their keys are after random ids;
the foreign keys refuse an entry or an instance whose object has no row.

**StorageScan.** `disk` is the source (a file's version, 0 if away), `instances` the
rows with fingerprint, visibility and state of the tags, `scan` the jobs with the part
of the listing seen and the rows read. Sources of the three kinds differ in what is
compared and in when something counts as missing.

**HotCache.** Rows `missing = 1` are claims. `Procs` are copies (`Writers`) and cron
sweeps; each keeps the `list` it read while it deletes object and row by row.
Budget and TTL are one source's. The order of victims (LRU) is left open: any order
the list allows may happen.

**Clone.** The page's run (`run`), the worker on a song (`work`), what it has saved in the
session (`saved`) and the server's rows. A run is cancelled or lost with the page; the
next one starts from `saved` and from the id map. A playlist goes in chunks, each with
a request that may be refused, fail, or fail after it was done.

**CatalogMerge.** Songs with their instances, files and plays; requests of three kinds
between their reads and their batch. Foreign keys are modelled as what they do to a batch: it
is refused. A play may be of any song at any time, as the scrobble handler does not look
whether the song is there; `late` counts those of songs that were merged away.

**KtvRoom.** A request is admitted against the room it read, may await (an
invitation, a song query), and then acts on what is saved. `Act` stands for the
whole `action()` with its trailing `ordered`/`advance`/`save`; `Prepare` and its
failure end a preparation. `Before` and `Ordered` are the turn order as a relation
and a sorted sequence, `Advance` what the stage takes next. **KtvInvite** has the
statements on `kv_store` that registration, rotation and closing send, each
executed some time after it was sent or lost.

**Activation.** A redemption is `Check`, `Read`, `Batch`, `Restamp`, as the code
awaits them; registration creates the account, redeems and takes the account back
when refused. Codes have the four kinds' effects: a fixed window, a duration (two of
them), permanence. Days are integers.

**CronRecovery.** `live` is Cloudflare's list, `secret` and `d1` the two copies. A
request keeps the secret and the build its isolate was started with. A deploy
clears `live` and usually changes `build`.

**SelfUpdate.** `row` is the one state row that is lock, progress and report at once;
`late` says that its TTL has passed. Each update has a program counter at the writes that
renew it. `active` is the version Cloudflare runs, `patches` the migrations done.

**PeerSync.** Both servers have the handlers; `Configured` says which of them
synchronizes. A star or an edit of a playlist makes a push; `run` is an hourly pull with
the peer's state as read, and `saved` the snapshot that the next run compares with.

**Player.** `media` holds the two elements with their loads, seeks and recoveries, what
is preloaded, and `tasks`, the awaited work with the generation it was started for.
Each media event is an action that an element may take whenever its state allows. An
empty queue is a state like any other: the element is left as it is, and goes on.

**RequestBudget.** Two lanes of slots (the idle one narrower while music plays), jobs
that acquire them, and loads that several prefetches share: a load ends with its own
controller, its callers with theirs.

## The runs

Components that do not interact share a run: a `suite` has one variable `part` that
picks the component a behaviour is about, and the others rest. (`MCKtv`, `MCMetadata`,
`MCSettles`, `MCStorage`, `MCRecords`, `MCClient`.) The states are those of the single
models one after the other, not their product; a property of a suite is, per part, the
property of that part's module, and related promises share a name:
`CopiesAddUp`, for example, is about the copies in the cache and those of merged songs.

A model's interesting situations do not all fit into one instance of its constants;
instead of many instances, a run has one with room for all of them and a `CONSTRAINT`
(`Corner`, or `Small` for the queue) in its MC module, a disjunction of corners: each
bounds what the others leave free. A behaviour that leaves every corner is not followed.

Some promises hold only as long as something does not happen. The models then record
in a history variable that it has happened, and the property says so: `overlap` (two
requests were under way at once), `failed` (how often each kind of call has failed),
`redeployed`, `granted`, `changed`, `late` (a lock expired under a running update),
`mixed` (a request at work is not of the row's result). No action reads one. Two more
are ghosts that a promise is about: `paid`, the days an account has bought (Activation),
and `told`, that the host has been told the room's present code (KtvInvite).

Passing runs (each property has a mutant that breaks it):

| Run | Parts and bounds | Checks |
|---|---|---|
| `work_queue` | a plain, an upserted and a lossless row, one of them in use; two users, two sweepers, TTL 1 | `TypeOK`, `ResultFromLastClaim`, `OneHolder`, `FailsOnlyWhenSpent`, `SweepSparesLive`, `ResultsAreFinal`, `KeepsThePromise` (refinement of `WorkLease`) |
| `work_coordinator` | two handlers; a tab that reconnects (on the row's second claim both at work only while nothing waits), or one failing call, switch flip, new budget or deleted account, or two rows for one tab | `TypeOK`, `AlarmArmed`, `KeepsWhatItRuns` |
| `coordinator_live` | two handlers, one row that is claimed twice by a tab with two slots; before its first claim is over a lost wake, a failing call, a switch flip (not in the middle of two handlers) or a connection that drops | `EveryRowIsHandedOut`, `SlotsComeBack` (liveness) |
| `ktv` | room: three people and three requests, or two people and four, one handler and one preparation at a time; two requests in flight in one room; two rooms one after the other. invite: two objects, two codes, late and lost DELETEs | `TypesOK`, `StageIsFair`, `RequestsAreKept`, `AnnouncedLeadsHome` |
| `metadata_live` | upload: one direct upload, one failure. retrieval: two requests, one death | `TagsArrive` (liveness) |
| `settles` | cron: a deploy, a save, one failing call of each kind. requests: a prefetch and an image, nobody obliged to answer. peers: one song, one list, one change, a push and runs that may be lost. cache: a copy and the sweep, any fault. worker: three sockets, two upsets, no tasks | `EveryRequestSettles`, `PeersAgree`, `CopiesSettle`, `ComesBack` (liveness; the parts but the peers are typed in `storage`, `records`, `client`) |
| `storage` | cache: two songs with three files, one too large; a copy and the sweep with two faults, or two copies with none. r2: two paths, three requests of which two overlap and one may die. scan: two files, two scans, one change. clone: two songs, two runs, one upset. merge: three songs, four copies, two requests, one play | `TypesOK`, `CopiesAddUp`, `FilesKeepTheirSongs`, `ClonesAreTrue`, `ScansTellTheTruth` |
| `records` | activation: one request at a time, three accounts, codes of all kinds, two days; or two requests over a single code, the administrator, a revocation, a death. cron: two requests at once around one deploy, one save and one failing call. update: two updates that may die. upload: an upload and its overwrite, either storage; queued with two failures, or direct too with none where the URI changes. retrieval: two requests, an edit, a death | `TypesOK`, `RecordsAgree`, `ActivationsAreEarned`, `RestoresTheChoice`, `UpdatesKeepOrder`, `TagsOfBytes`, `CoverFollows`, `NewerStays` |
| `client` | player: three tracks, all modes; recoveries only in sequence, of two ranges, and one at a time. requests: two prefetches of one key, an image, the viewer. worker: two starts, two sockets, three tasks handed out, one upset | `TypesOK`, `RequestsHold`, `ElementsFollowTheQueue`, `NothingStartsUnshown`, `RecoveryNeverHangs`, `WorkGoesOn` |

What the suites' properties stand for, by module:

| Property | Parts |
|---|---|
| `StageIsFair` | KtvRoom `TakesTurns`, `IdleOnlyForPreparation` |
| `RequestsAreKept` | KtvRoom `ShownIsPlayed`, `KeepsAccepted`, `OnlyItsOwnRoom`, `AcceptsTheInvited` |
| `TagsArrive` | UploadMetadata `EveryUploadIsParsed`, MetadataRetrieval `ResultsSettle` |
| `CopiesSettle` | HotCache `ClaimsResolve`, `ExpiredGoes` |
| `ComesBack` | `CronComesBack`, WorkSocket `Reconnects` |
| `CopiesAddUp` | HotCache `WithinBudget`, `BytesAccounted`, `PlayableHasBytes`; CatalogMerge `PlaysAddUp`, `LastCopyStays` |
| `FilesKeepTheirSongs` | R2Files `SongsHaveBytes`, `KeepsItsSong` |
| `ClonesAreTrue` | Clone `SkippedHaveArrived`, `ListsArrive`, `OthersStay` |
| `ScansTellTheTruth` | StorageScan `HidesTheMissing`, `LeavesTheTruth` |
| `RecordsAgree` | Activation `EveryDayCounts`, `CountsAgree`, `CredentialsFollow`; CronRecovery `RecordIsLive` |
| `ActivationsAreEarned` | Activation `KeepsPermanents`, `BuysActivations` |
| `UpdatesKeepOrder` | SelfUpdate `OneUpdateRuns`, `ReportIsItsOwn`, `PatchedOnceBefore` |
| `CoverFollows` | MetadataRetrieval `CoverFollows`, `ReviewHasCandidates` |
| `NewerStays` | UploadMetadata `KeepsMarker`, MetadataRetrieval `KeepsEdits` |
| `RequestsHold` | RequestBudget `SlotsAddUp`, `NoDoomedEntry`, `ShowsCurrent` |
| `ElementsFollowTheQueue` | Player `SoundsAsShown`, `PreparedIsNext` |
| `NothingStartsUnshown` | Player `StartsNothing` |
| `RecoveryNeverHangs` | Player `RecoveryMoves` |
| `WorkGoesOn` | WorkSocket `NeverStranded`, `Watched`, `SlotsAreBusy` |

Why the bounds suffice to be interesting. What goes wrong in a lease needs a loser, a
winner and a sweep: two users, three claims and a TTL of one second in a clock of
three give each of them every order. Two handlers are the least that interleave and two
generations the least that can be confused; each model has a corner with exactly
that. Faults are limited to one or two: one breaks a sequence of statements anywhere,
the second hits what repairs it. Two merges that chose opposite survivors need three songs
to be joined by a third request. Nothing guarantees that a third handler adds nothing;
that is what the proofs are for.

Deadlock is checked except where an instance really ends: in the suites, a part has used
up its requests, uploads, runs or faults; the queue's and the coordinator's cfgs run
out of time and claims.

### Where the code does not do what it says

Three runs expect a violation. Each checks one property that a comment states, and TLC
finds a behaviour of the model against it; PROJECT.json quotes the statement.

| Run | Property | What happens |
|---|---|---|
| `activation_uses` | `RacedOutIsRefused` | two redemptions pass the check of the last use; both batches succeed, the counter's condition matching nothing in the second |
| `peer_pushes` | `PushesEnd` | two servers that are each configured to synchronize push one star back and forth for ever: the handler that receives a push pushes it, without comparing |
| `clone_audio` | `ClonedAudioIsRegistered` | the instance of cloned audio is inserted before the `storage_objects` row it references; the foreign key refuses it, the error is swallowed and the page counts the song as done |

The modelling met more behaviours that a comment or a test rules out, or that a reader
would not expect. They are behaviours of these models too unless marked "not
modelled"; no run shows them, and the conditions of the properties above, and their
instances, are what excludes them.

Work queue, coordinator, page:

| Where | What happens | What excludes it |
|---|---|---|
| `work.ts:372` | a canceled and redispatched row is claimed again by the same user in the same second; the first claim's submit finishes the second | `Plain` in `ResultFromLastClaim` and `OneHolder` |
| `workCoordinator.ts:355` | a row is claimed for a socket that closed after the list of open sockets was taken | not stated |
| `workCoordinator.ts:350` | a full agent's tasks fill the candidate window; an idle agent gets none | not stated; needs four rows |
| `workCoordinator.ts:200` | closing a socket leaves its rows claimed until the TTL, though `workSocket.ts:356` says they are released | not stated |
| `workSocket.ts:236` | a stale socket's late close clears the newer socket and reconnects: two are open | not stated |
| `workSocket.ts:194` | stop() during connect()'s await, then start(): two sockets, of which the first is untracked, not closed by the next stop() and still executing tasks | not stated |
| `workSocket.ts:198` | connect() replaces the AbortController, so stop() does not abort what began before the last reconnect, though line 356 says in-flight tasks are abandoned | not stated |
| `workSocket.ts:363` | stop() empties `running` while tasks still run, and a task handed out twice has one entry: more than the budget may run | `SlotsAreBusy` counts entries |
| `workSocket.ts:300` | a budget changed while the socket connects never arrives | not stated |
| `workSocket.ts:201` | refused while an untracked socket is still open: when that one dies silently, nothing reconnects | `Corner` of `settles` |

Metadata and files:

| Where | What happens | What excludes it |
|---|---|---|
| `work.ts:92` | a queued apply replaces the tags of a direct parse made since it looked | not stated: the tags are the bytes' either way |
| `files.ts:554` (the late marker) | where the URI stays, an older upload's late marker replaces that of an overwrite, and the older tags count for the newer bytes | `UploadCorner`: no direct uploads in place |
| `work.ts:84` | a lease row left by the failed apply of an API upload makes each retry give up | `Kinds` in `metadata_live` |
| `uploadMetadataQueue.ts:162` | the previous content's recovery attempt counts against the overwrite | `MaxUploads = 1` in `metadata_live` |
| `work.ts:67` | an apply without a nonce reads the instance before an overwrite registers; the overwrite's direct submission writes its tags, the job deletes the marker, and the apply then gets the lease and writes the tags of the old bytes over the new file | `UploadCorner`; `NobodyOvertakes` in the theorem |
| `workMetadataRetrieval.ts:561` | of two recoveries one overtakes the other and is overtaken again; nothing need settle | SF of the recovery in `metadata_live` |
| `workMetadataRetrieval.ts:787` | a recovery that read an older result of the row takes the receipt of the newer one and closes it without its picture | `mixed` in `CoverFollows` |
| `workMetadataRetrieval.ts:525` | a slow request about an older source deletes the picture that a request about the newer one is about to link | `mixed` in `CoverFollows` |
| `files.ts:380` | overwriting a path deletes the bytes of the row it read, although the file has been moved away meanwhile and its instance still names them; where the path's file has no instance the old bytes stay for ever | `SongsHaveBytes` is about stable objects only |
| `tag/write.ts` | tags edited between the switch's look at the object and its batch are lost with the WAV | not stated |
| `files.ts:1318` | a mirrored file is inserted before its object's row, as in `clone_audio`; it is never registered | happens in the model (`MirrorRegisters`); no property is about it |
| `scan.ts:485` | a file that changed but keeps its size and date counts as parsed (comment at 477); `metadataApply.ts:184` writes the fingerprint of the row, not of the bytes parsed | not stated |
| `scan.ts:1232` | a directory that could not be read leaves `complete` true, and what lies in it is hidden as missing | named as the exception in `HidesTheMissing` (`hidden`) |
| `cacheTiers.ts:138` | two copies each find room and exceed the budget together | `~overlap` in `WithinBudget` |
| `cacheTiers.ts:102` | a stale list deletes the claim of a newer copy; its bytes stay for ever | `~overlap` in `BytesAccounted` |
| `hotcache.ts:107` | a copy shows the row a newer copy of another file has claimed, after its own object was evicted | songs with one file in `PlayableHasBytes` |
| `cacheTiers.ts:101` | the object is deleted, the row's DELETE throws | `Never` in `PlayableHasBytes` |
| `hotcache.ts:86` | a copy cut off leaves a claim that nothing lists | `Never({"die"})` in `ClaimsResolve` |
| `catalogMerge.ts:329` | a copy is removed as surplus although a scan has hidden the one that was kept; a removal between a dedupe's read and its batch takes the last one | not modelled; `MergeCorner` |
| `diagnostics.ts:333` | a ghost song's annotations are deleted unguarded, although the song itself has instances again and stays | not modelled |
| `queries.ts:698` | a play scrobbled after its song was merged away (it is still in a player's queue) is counted at the id that went, which no song shows | `late` in `PlaysAddUp` |
| `catalogMerge.ts:71` | the play queues are rewritten outside the batch, over a queue saved meanwhile | not modelled |

Rooms, accounts, deployment, other servers, player:

| Where | What happens | What excludes it |
|---|---|---|
| `room.ts:206` | an answer to a registration is compared by its code only: where the same code is drawn again two rotations later, the late answer of the older generation announces it, and that generation's late DELETE removes it | `told` counts answers about the present generation |
| `activation.ts:186` | two duration codes redeemed at once count once | `~overlap` in `EveryDayCounts` |
| `activation.ts:191` | a duration code computed earlier overwrites permanence | `~overlap` in `KeepsPermanents` |
| `activation.ts:205` | credentials keep the horizon of the change that stamped last | `~overlap` in `CredentialsFollow` |
| `cronRecovery.ts:145` | the secret's write failed at the last save: after a deploy the older schedule in it is preferred to D1's | `Never({"secret"})` in `RestoresIt` |
| `cronRecovery.ts:182` | a redeploy of the same version is taken for no deploy | `redeployed` in `RecordIsLive` and `CronComesBack` |
| `cronRecovery.ts:202` | a detached recovery overwrites a schedule saved meanwhile | `~overlap` in `RestoresIt` |
| `autoupdate.ts:550` | an update may install an older version than the running one (against docs/WORKER_SELF_UPDATE.md:70) when another update came between its check and its lock (`OnlyNewer`) | not run |
| `peerSync.ts:447` | a change and its opposite within one hour whose pushes are lost stay unseen; a playlist deleted between two reads aborts the list phase and the partial snapshot is saved, so vanished lists stay | one change in `PeersAgree` |
| `clone.ts:778` | a list that was given a name of the form `pl-clone-…` by its owner is overwritten by the next clone, against the comment "must never overwrite" | `OthersStay` is about other names |
| `Tools.vue:1282` | a failing ping leaves the run marked as running: the button is dead until the page is reloaded | not stated |
| `player.ts:1166` | setQueue with an empty list loads nothing, and so does not stop the element: a room that cannot be recovered after a reload (`KtvHost.vue:215`) may leave a track sounding that is nowhere shown and that no control stops; next() then even says that nothing plays | `SoundsAsShown` is about a current track; `NothingStartsUnshown` says that nothing else begins |
| `player.ts:1005` | the pause event that precedes `ended` drops the prepared track, so it is not swapped in (against the comment at 1133; `PreparedIsSwappedIn`) | not run |
| `player.ts:1330` | a saved position may be restored to another track (`RestoresOwnPosition`); a track queued to play next while shuffling may play later (`PlaysNext`) | not run |

### Fairness

- Coordinator: a handler that started proceeds (WF; the object's isolate runs it). The
  alarm, a wake, a connect and a message's delivery are SF: Cloudflare retries alarms and
  a frame in a live socket is delivered, but each may be disabled again and again by other handlers
  occupying the object. Browsers finish what they run, and the hourly cron sweeps (WF).
  `EveryRowIsHandedOut` needs no wake to arrive: the alarm dispatches too. Accounts are
  not deleted and budgets do not change in `coordinator_live`; its
  ACTION_CONSTRAINT `Gently` says when failures and drops may come, which are steps no
  fairness is about. A slot is only resurrected where a second claim of the row is
  delivered from a copy older than the first one's "done": that is what
  the row's second claim is for, and the mutant of `SlotsComeBack`, a reconciliation
  that trusts connected agents, is broken by just that.
- Upload: each handler continues unless a fault ends it; tasks, the notes' retries, the
  job and the lease sweep run again and again, because they are started by the cron.
  WF only: none of them assumes another to be lucky.
- Retrieval: handlers go on and the lease runs out (WF). The recovery is started by the
  cron and by each submit, and may be disabled in between by a request that holds the
  lease: SF on its read and on its write.
- Hot cache: copies and sweeps take their steps. Claims resolve only if isolates are
  not killed.
- Cron recovery: requests go on, and a super administrator logs in again and again,
  which is an assumption about a person and the only trigger there is.
- Peers: pushes and the hourly run happen (WF); how many are lost is bounded.
- Requests: only what the page itself times is fair (`Timely`: its timeouts, its freed
  slots and the fetches' own ends after an abort), not that a server answers.
- Page: timers fire, the browser reports a socket as open or closed, the server answers
  the question and a ping on a live socket is answered (WF).

In the suites each fairness condition is that of one module under `part = ...`. The other
specifications claim no liveness and have no fairness.

## Proofs

A run checks an instance; the theorems hold for any sets of rows, people, codes,
requests, connections, ..., and any bounds. Each follows from an inductive invariant
`IInv`, which stands at the end of the module it is about under "Why" or "What these
hold by", and which TLC checked on an instance before it was proved. `IInv` holds
initially, each action preserves it (one lemma per action), and it implies the property.

| Module | Theorems | About |
|---|---|---|
| `WorkQueueProofs` | `TypeCorrect`, `Inductive`, `ResultIsTheLastClaims`, `OneHolderAtATime`, `BudgetIsSpent`, `CompletedStays`, `SweepsSpareTheLive`, `QueueKeepsThePromise` | WorkQueue, and that it implements WorkLease |
| `WorkCoordinatorProofs` | `TypeCorrect`, `SweepIsOnItsWay`, `OneClaimOnePlace`, `WorkIsKept` | WorkCoordinator |
| `KtvProofs` | `KtvTypes`, `TurnsAreTaken`, `CodesLeadHome`, `RequestsStay` | MCKtv: KtvRoom, KtvInvite |
| `RecordsProofs` | `UpdatesRunInTurn`, `PicturesFollowTags`, `RecoveryRestoresTheChoice`, `RecordsAreOfWhatRuns`, `ActivationsCostACode`, `RecordsTellTheTruth` | MCRecords: SelfUpdate, MetadataRetrieval, CronRecovery, Activation |
| `UploadProofs` | `TagsAreOfTheBytes`, `NothingNewerIsUndone`, `RecordsAreTyped` | MCRecords: UploadMetadata, and what needs all five parts |
| `ClientProofs` | `PageKeepsWorking`, `RequestsAreServed` | MCClient: WorkSocket, RequestBudget |
| `PlayerProofs` | `TheQueueIsFollowed`, `RecoveriesNeverHang`, `ClientIsTyped` | MCClient: Player, and the types of all three parts |
| `StorageProofs` | `ScansAreTruthful`, `CloningIsFaithful` | MCStorage: StorageScan, Clone |

For a suite the theorems are about the suite's specification (`KtvSpec`, `RecordsSpec`,
`ClientSpec`, `StorageSpec`),
that is, about each part's `Init` and `Next` with the others at rest, and without the
run's `CONSTRAINT`: what holds in a corner of a run holds here everywhere, unless a
hypothesis says otherwise.

Assumptions. The constants are as each module assumes: the null value is not among the
values it stands for, a row has a kind, the TTL is positive, codes have spans and uses.
Users of codes and handlers are finite sets (`RecordsAssumption`), because the counters
of Activation are compared with a number of redemptions; rows are finite because a
SELECT is. `RecordsAssumption` also repeats what the parts assume of the constants the
suite hands them, since an instance's assumptions are not facts here; so do
`ClientAssumption` (finitely many jobs, told apart from the viewer's asks, positive
ceilings) and `StorageAssumption` (finitely many changes of a source, the null value
none of the states or ids, playlists of songs).

**Work queue.** None of the safety properties is inductive alone: the guards compare a
user, a number of attempts and a second, not a claim. What makes these triples identify
a claim is time. `LosersAreBehind`, the heart of `IInv`, says of each lease still
believed in: if it is not the row's last claim, it was made in a strictly earlier second
than the present claim, and while the row is queued or failed, earlier than now. A row
that is requeued by a sweep has been silent for a TTL of at least a second
(`CutoffsInThePast` carries that through the sweep's awaits, and is also why a sweep
spares whom it should); one given back by its own
holder has no believer left (`HeldOnce`: a claim is either a lease or a submit under
way); an error's requeue is decided in the submit (`RetriesDecided`). `SerialsUsed` and
`SerialsDistinct` make the history numbers identify claims. Redispatch and cancellation
break the argument, since they requeue at once and reset the attempts: hence `Plain`,
the rows that are never upserted: without it the theorem is false (see the table above).
`RowsMayChange` is the lemma that the actions share: a step that makes no claim and
moves no clock preserves `IInv` if every row is `Kept` or `Changed` in a permitted way.
The refinement uses two consequences of `IInv`: who passes the guard is the last claim
(`HolderIsLast`), so the abstract task is finished by its holder, and a submit's choice
between retry and failure is the one its row allows (`RetriesDecided`).

**Coordinator.** `AlarmArmed` is inductive together with `IdleIsNoAlarm`: a handler of
the alarm ends only in its finally block, which arms the next. For `KeepsWhatItRuns` the
invariant is that a claim is in one place: being delivered, run by one tab, or on its
way back in one message (`ClaimsAreInOnePlace`), and that the row has counted it
(`ClaimsAreCounted`), so that a claim made now differs from all of them. A release or a
result then never concerns a claim that somebody else runs.

**Rooms and codes.** Fair turns: whoever was passed by q still waits and was served
before q (`TurnsCounted`), so q comes on stage again only after them; the stage is empty
only while something is prepared because what counts as being prepared has a preparation
under way (`BeingPrepared`). Requests: whoever was admitted to the present generation
has a token (`AdmittedHaveTokens`). Codes: each answer of a registration that succeeded
for the present generation is still true (`AnswersAreTrue`), since a DELETE on its way
is of an earlier generation (`DeletesComeLate`) and so does not match the row.
`HandlersComeLater` gives each DELETE that is sent its age.

**Records.** *Self-update*: until a lock expires under a running update, who runs holds
the lock (`RunnerHoldsTheLock`); what is deployed is the first version or one whose
patch ran (`DeploysThePatched`). *Cron*: with one request at a time, the administrator's
last choice is in the secret or in the request about to write it (`ChoiceIsKept`), and a
record of the present build is of what runs or its successor is on the way
(`RecordsAreLive`). *Activation*: one who redeems without overlap writes a term that
holds every day paid (`TermsInOrder`, with the ghost `paid`, since the sum over the
codes is out of the prover's reach); a counter lags behind only where the code is spent or revoked
(`CountersInOrder`); a stamp is the account's activation or a request is about to write
it (`StampsFollow`). *Retrieval*: while the requests at work are of one result
(`~mixed`), a result in the catalogue has its picture, its receipt, or a request that is
about to write it (`PicturesInOrder`, `ReceiptsAreTrue`).

**Uploads.** `IInv` follows one nonce through the marker, the lease, the task, the
submission, the apply and the job, and says of each what the upload of that nonce has
done by then (`MarkerInOrder`, `UploadInOrder`, `DirectInOrder`, `TaskInOrder`,
`ApplyInOrder`, `EnqueueInOrder`, `JobInOrder`). It has no condition, and that no upload's marker
is deleted while its file waits for its tags follows for every behaviour. `TagsOfBytes`
does not: two races break it (the late marker and the apply without a nonce in the table
above), so `TagsAreOfTheBytes` says that the tags are those of the bytes as long as
`NobodyOvertakes`. That condition names just these two, at the step where they happen:
(1) no direct submission that is sure of its lease is about to write while an apply
without a nonce is between its read and its lease; (2) in place, the first marker of a
new file is not so late that an overwrite has come and gone. It admits what the run's
`UploadCorner` leaves out otherwise: any number of uploads, both kinds and storages,
faults. TLC confirms on two uploads and a fault that `TagsInOrder`, the invariant behind
the theorem, needs no more.

**Page.** What `WorkGoesOn` says is inductive with the types: whatever leaves the page
without a socket starts a question or a timer (`NeverStranded`), a socket becomes
open only with a keepalive, a close that stops the pings leaves nothing tracked, whichever
socket closed (`Watched`), and a slot is taken with a task under way and given back when
it ends, or by a stop (`SlotsAreBusy`).

**Requests.** The slots add up because a job is in one place of one line (`QueuedOnce`)
and a job whose timeout gave its slot back has nothing left to give when its abort
settles (`AbortedAreOver`); what is counted is a finite set, with one element moved
per step. Nobody joins a doomed load since an entry in the cache is of a load that
has a caller (`LoadsOfCallers`, `BegunWaits`), and the viewer shows what it was last turned to
because every earlier ask has been aborted (`AsksInTurn`).

**Player.** The active element has the current track or nothing (`ShowsIn`) because every
step that makes a track the current one empties or refills that element, and an answer
that comes back late compares what it was started for. Without a current track it may
have any, which is why the conditions on recoveries hold only of a current track. What is prepared is in the other element and
is given up by every step that moves the queue (`PreparedIn`: at most one preparation
counts). The hard part is recovery. Only the active element recovers, and none is left
over while its source is looked up anew (`RecoversAlone`); a recovery is of the current
track, and an element that may still begin one has no task of an earlier one
(`StateInOrder`); tasks follow the phase, and at most one range or conversion counts at
a time (`TasksInOrder`). With these, `MovesIn` is inductive: while an element recovers
and `fallbackInFlight` is set, a range or its conversion is under way; once the source is
over and nobody has paused, an answer is to come; and a recovery in its last phase has a
download or its conversion. All are stated of a record `media` and a track, because one
handler does several steps of it: the lemmas are about those steps (`Cleared`,
`PlayBlob`, `GivenUp`, `continueRecovery`), and an action's lemma composes them. Assumed
of the constants: queues are sequences of tracks, and `None` is none of the values it
stands beside (`PlayerAssumption`).

**Scans.** The promise is of a scan that was not overtaken (`calm`), and the invariant
says what that means: it is the only one that runs and what it has covered of the listing
is what is there (`CalmIsAlone`), the rows it has dealt with are as the source has them,
those it has not are as it read them, and those outside its listing are hidden
(`CalmRowsStand`). That a scan hides only what is missing needs no calm:
what a listing has covered and not found was away then or has gone since
(`UnfoundWasGone`, `GoneIsKnown`).

**Cloning.** A song is skipped later only if it was counted as done, and it is counted
after its object was written (`WrittenIsThere`) by the run that holds it
(`StageHasItsWork`); what the session storage has, the running page knows
(`SavedIsKnown`). The list that a run writes to holds exactly what was sent since the
first chunk chose it (`ListHolds`, `TargetComesFirst`). The matched songs are a
sequence in the order upstream; that it is one, with each song's id at its rank, is the
lemma about ranks that the proof needs (`RankedMember`).

What stays with TLC, and why:

- All liveness, and `ENABLED`: the prover has no rule for fairness.
- `ShownIsPlayed` of KtvRoom (in `RequestsAreKept`): `Ordered` and its look-ahead are
  recursive over the queue, and what a recursive definition computes for every input
  needs an induction the prover cannot instantiate. `RequestsStay` is the other half of
  that property.
- Of `storage`, the cache, the files and the merge (`TypesOK`, `CopiesAddUp`,
  `FilesKeepTheirSongs`). Bytes and plays are sums over finite sets, that is folds, whose
  values need the same induction. `LastCopyStays` is moreover not a theorem about all
  constants: a dedupe whose list of doubled instances was read before another request
  merged and retired could, with ranks to suit, delete the only copy which that one
  kept. `MergeCorner` leaves such a pair out.
- `NothingStartsUnshown`.

## What is left out of the modelled parts

- Work queue: listing and preferences; the payloads; permissions. `/work/applyMetadata`
  is in UploadMetadata.
- Coordinator: more than one tab per connection URL, hibernation beyond what the
  attachment restores, ping frames. Page: backoff lengths, the account's permission
  (the route is guarded by it), `nudge` and `reset`, which nothing calls.
- Upload: `acquireUploadPathLease`, file rows deleted midway, permissions and the
  capability's expiry, the administrator's completed-backfill, cover bytes in R2,
  `/tag/submit`. Faults are explored with queued uploads, direct submissions
  where the URI changes: in place they meet the late marker.
- Retrieval: matching of candidates, fields beyond title and cover.
- R2 files: folders, batch operations (loops over these), source settings, the window of
  a hundred candidates of the lossless batch.
- Scan: videos, album counts, the import of lyrics, the cadence of the schedule, an
  upload over WebDAV while it is scanned.
- Merge: albums, play queues, the diagnostics' other fixes.
- KTV: wire format, lyrics, catalogue queries, avatars.
- Hot cache: several sources, LRU order, `registerR2Object`'s catalogue rows, tier parsing.
- Activation: creating and listing codes, e-mail verification, clamping of session terms.
- Cron recovery: missing Cloudflare credentials (everything is skipped), what the cron runs.
- Self-update: signatures, assets, the release check. The patches' `BEGIN`/`COMMIT` in one
  `exec` is taken for one transaction.
- Peers: lists of one name, custom scopes, other users' lists, several songs per push.
  Updates of a list are atomic; the empty list on the peer, which is not created, is not used.
- Clone: stars, albums and artists, "all users" (whose `INSERT OR REPLACE` of a user
  deletes, by cascade, what that user has), edits within a chunk's request, two tabs,
  lists of one name upstream.
- Player: volume, covers, stars, scrobbling, lock screen, and the count of pauses the
  player itself causes; a media error while a lookup is awaited; pauses by the system
  rather than the user.
- Requests: the audio cache.

## Not modelled

Whole components without a module, and why: permissions and features (decision tables
over rows), adapters, e-mail, the Studio relay (I/O, no state), views (presentation), the
installer (run once by a person), the schema (its tables are the modules' variables), video
sessions (proxying). Those that have something to model are in the plan.

## Plan

Done: work queue, coordinator and page, KTV, upload metadata, metadata retrieval, R2
files with the lossless switch, scans, hot cache, merge, activation, cron recovery,
self-update, peers, cloning, player, requests; the proofs about the queue and its
refinement of a lease, the coordinator, rooms and codes, the five parts of the
records, the page, the requests, the player, scans and cloning.

Next, theorems: `PlayableHasBytes` of HotCache without faults, and `SongsHaveBytes` of
R2Files while no two requests are about one path.

Next, modules: the upload pipeline's retries; `LoginProtection`, OIDC state rows and
the MCP OAuth store (one-time use); the pre-bake and the browser pool of the transcode
engines; podcasts; the audio cache; albums in merges.

Next, an abstract specification: `Playlist` (an order of requests that turns consume) for
`KtvRoom`.
