------------------------------ MODULE PeerSync ------------------------------
(***************************************************************************)
(* A user's favourites and playlists on this server and on one other       *)
(* server.  A change is pushed to the peer at once, by a task that runs    *)
(* after the answer and may fail unseen; every hour the peer's stars and   *)
(* playlists are pulled, and what has changed since the snapshot of the    *)
(* last run is applied here.  The peer may be a server of this kind that   *)
(* is configured the same way, so that a push starts a push there.         *)
(*                                                                         *)
(* Songs and playlists stand for their names: the servers' ids differ and  *)
(* every call looks the name up.                                           *)
(***************************************************************************)
EXTENDS Integers, FiniteSets, Sequences

CONSTANTS
    Here, Peer,   \* the two servers
    Songs, Lists,
    Configured,   \* who may have sync enabled: sets of servers
    MaxChanges,   \* BOUND: changes the users make of each song's star and of each playlist
    MaxFaults,    \* BOUND: pushes that are lost, peer calls that fail, and runs that are cut off
    None

VARIABLES
    stars,        \* by server, the starred songs
    lists,        \* by server and name, the entries of the user's playlist
    synced,       \* servers whose user has sync enabled
    pushes,       \* what waitUntil still runs (alike ones in flight count as one)
    saved,        \* by server, sync_peer_snapshot
    run,          \* by server, the run that pulls
    changed,      \* by song and playlist, how often a user has changed it
    faults,
    failed        \* history: something was given up (a push, or the playlists of a run)

peerVars == <<stars, lists, synced, pushes, saved, run, changed, faults, failed>>

Servers == {Here, Peer}
Other(s) == IF s = Here THEN Peer ELSE Here

\* entryKeys: the keys of a playlist's songs, sorted, that is, without their order
KeysOf(list) == [k \in Songs |-> Cardinality({i \in DOMAIN list : list[i] = k})]
NoKeys == [k \in Songs |-> 0]

Idle == [at |-> "off", theirs |-> {}, todo |-> {}, list |-> None, entries |-> None, next |-> [l \in Lists |-> None]]

\* An earlier run has seen the peer as it is, and both are alike.
Init ==
    /\ \E begin \in SUBSET Songs : stars = [s \in Servers |-> begin]
    /\ \E begin \in [Lists -> {None} \cup {<<k>> : k \in Songs}] : lists = [s \in Servers |-> begin]
    /\ synced \in Configured
    /\ saved = [s \in Servers |-> [stars |-> stars[s], lists |-> [l \in Lists |-> IF lists[s][l] = None THEN None ELSE KeysOf(lists[s][l])]]]
    /\ pushes = {} /\ run = [s \in Servers |-> Idle]
    /\ changed = [i \in Songs \cup Lists |-> 0] /\ faults = 0 /\ failed = FALSE

-----------------------------------------------------------------------------
\* The handlers: the change is made, then its push begins if sync is enabled.

PushOf(s, kind, item) ==
    IF s \in synced THEN {[from |-> s, kind |-> kind, item |-> item, at |-> "read", songs |-> None, entries |-> None]} ELSE {}

Starred(s, k, kind) == [stars EXCEPT ![s] = IF kind = "star" THEN @ \cup {k} ELSE @ \ {k}]

Changes(item) == changed[item] < MaxChanges /\ changed' = [changed EXCEPT ![item] = @ + 1]

starHandler(s, k) ==
    /\ Changes(k)
    /\ LET kind == IF k \in stars[s] THEN "unstar" ELSE "star"
       IN stars' = Starred(s, k, kind) /\ pushes' = pushes \cup PushOf(s, kind, k)
    /\ UNCHANGED <<lists, synced, saved, run, faults, failed>>

\* createPlaylist and updatePlaylist
updatePlaylist(s, l) ==
    /\ Changes(l)
    /\ \E k \in Songs : lists' = [lists EXCEPT ![s][l] = IF @ = None THEN <<k>> ELSE Append(@, k)]
    /\ pushes' = pushes \cup PushOf(s, "upsert", l)
    /\ UNCHANGED <<stars, synced, saved, run, faults, failed>>

deletePlaylist(s, l) ==
    /\ Changes(l) /\ lists[s][l] # None
    /\ lists' = [lists EXCEPT ![s][l] = None]
    /\ pushes' = pushes \cup PushOf(s, "delete", l)
    /\ UNCHANGED <<stars, synced, saved, run, faults, failed>>

-----------------------------------------------------------------------------
\* Outbound.

\* pushStars: the peer's own handler stars the song, and goes on as any handler.
StarArrives(p) ==
    /\ p.kind \in {"star", "unstar"}
    /\ stars' = Starred(Other(p.from), p.item, p.kind)
    /\ pushes' = (pushes \ {p}) \cup PushOf(Other(p.from), p.kind, p.item)
    /\ UNCHANGED lists

\* pushPlaylistDeleted
DeleteArrives(p) ==
    LET to == Other(p.from)
    IN /\ p.kind = "delete"
       /\ lists' = [lists EXCEPT ![to][p.item] = None]
       /\ pushes' = (pushes \ {p}) \cup (IF lists[to][p.item] = None THEN {} ELSE PushOf(to, "delete", p.item))
       /\ UNCHANGED stars

\* pushPlaylistUpsert: the entries as they are by now ...
UpsertReads(p) ==
    /\ p.kind = "upsert" /\ p.at = "read"
    /\ pushes' = (pushes \ {p}) \cup
         (IF lists[p.from][p.item] = None THEN {} ELSE {[p EXCEPT !.at = "look", !.songs = lists[p.from][p.item]]})
    /\ UNCHANGED <<stars, lists>>

\* ... the number of entries the peer has, getPlaylists and getPlaylist ...
UpsertLooks(p) ==
    /\ p.kind = "upsert" /\ p.at = "look"
    /\ LET theirs == lists[Other(p.from)][p.item]
       IN pushes' = (pushes \ {p}) \cup {[p EXCEPT !.at = "write", !.entries = IF theirs = None THEN None ELSE Len(theirs)]}
    /\ UNCHANGED <<stars, lists>>

\* removeSongsFromPlaylist of the first entries, then addSongsToPlaylist
Replaced(list, n, songs) == SubSeq(list, n + 1, Len(list)) \o songs

\* ... and one call that removes so many and adds these, or creates the list.
UpsertWrites(p) ==
    LET to == Other(p.from)  theirs == lists[to][p.item]
        gone == p.entries # None /\ theirs = None
    IN /\ p.kind = "upsert" /\ p.at = "write"
       /\ lists' = IF gone THEN lists
                   ELSE [lists EXCEPT ![to][p.item] = IF p.entries = None THEN p.songs
                                                      ELSE Replaced(theirs, p.entries, p.songs)]
       /\ pushes' = (pushes \ {p}) \cup (IF gone THEN {} ELSE PushOf(to, "upsert", p.item))
       /\ UNCHANGED stars

Pushes ==
    /\ \E p \in pushes : StarArrives(p) \/ DeleteArrives(p) \/ UpsertReads(p) \/ UpsertLooks(p) \/ UpsertWrites(p)
    /\ UNCHANGED <<synced, saved, run, changed, faults, failed>>

Fault == faults < MaxFaults /\ faults' = faults + 1

\* best-effort: whatever fails, no song is found, or the isolate ends
PushFails ==
    /\ Fault /\ \E p \in pushes : pushes' = pushes \ {p}
    /\ failed' = TRUE
    /\ UNCHANGED <<stars, lists, synced, saved, run, changed>>

-----------------------------------------------------------------------------
\* Inbound: runInboundSync.

At(s, at) == run[s].at = at

Fetched(s) ==
    LET theirs == stars[Other(s)]
    IN run' = [run EXCEPT ![s] = [Idle EXCEPT !.at = "stars", !.theirs = theirs,
                                    !.todo = (theirs \ saved[s].stars) \cup (saved[s].stars \ theirs)]]

\* Mutant: the snapshot is saved before it is applied.
RunStartsSaved(s) ==
    /\ At(s, "off") /\ s \in synced
    /\ Fetched(s)
    /\ saved' = [saved EXCEPT ![s].stars = stars[Other(s)]]
    /\ UNCHANGED <<stars, lists, failed>>

\* loadSnapshot and getStarred2
RunStarts(s) ==
    /\ At(s, "off") /\ s \in synced
    /\ Fetched(s)
    /\ UNCHANGED <<stars, lists, saved, failed>>

\* The write of a run, which does not go through the handlers and pushes nothing
localStarWrite(s, k) == Starred(s, k, IF k \in run[s].theirs THEN "star" ELSE "unstar")

\* One song after the other
RunStars(s) ==
    /\ At(s, "stars")
    /\ IF run[s].todo = {} THEN run' = [run EXCEPT ![s].at = "index"] /\ UNCHANGED stars
       ELSE \E k \in run[s].todo :
              /\ stars' = localStarWrite(s, k)
              /\ run' = [run EXCEPT ![s].todo = @ \ {k}]
    /\ UNCHANGED <<lists, saved, failed>>

\* getPlaylists
RunIndex(s) ==
    /\ At(s, "index")
    /\ run' = [run EXCEPT ![s].at = "lists", ![s].todo = {l \in Lists : lists[Other(s)][l] # None}]
    /\ UNCHANGED <<stars, lists, saved, failed>>

\* getPlaylist, which throws if the playlist is gone by now: the others are given up
RunReads(s) ==
    /\ At(s, "lists")
    /\ \E l \in run[s].todo :
         IF lists[Other(s)][l] = None
         THEN run' = [run EXCEPT ![s].at = "save"] /\ failed' = TRUE
         ELSE /\ run' = [run EXCEPT ![s].at = "mirror", ![s].list = l, ![s].todo = @ \ {l},
                                    ![s].entries = lists[Other(s)][l], ![s].next[l] = KeysOf(lists[Other(s)][l])]
              /\ UNCHANGED failed
    /\ UNCHANGED <<stars, lists, saved>>

\* localPlaylistMirror, unless the entries are those of the snapshot
RunMirrors(s) ==
    LET l == run[s].list  before == IF saved[s].lists[l] = None THEN NoKeys ELSE saved[s].lists[l]
    IN /\ At(s, "mirror")
       /\ lists' = IF before = KeysOf(run[s].entries) THEN lists ELSE [lists EXCEPT ![s][l] = run[s].entries]
       /\ run' = [run EXCEPT ![s].at = "lists"]
       /\ UNCHANGED <<stars, saved, failed>>

\* In the snapshot and no longer on the peer
Vanished(s) == {l \in Lists : saved[s].lists[l] # None /\ run[s].next[l] = None}

\* localPlaylistDeleteIfOwned
RunDeletes(s) ==
    /\ At(s, "lists") /\ run[s].todo = {}
    /\ lists' = [lists EXCEPT ![s] = [l \in Lists |-> IF l \in Vanished(s) THEN None ELSE @[l]]]
    /\ run' = [run EXCEPT ![s].at = "save"]
    /\ UNCHANGED <<stars, saved, failed>>

\* saveSnapshot
RunSaves(s) ==
    /\ At(s, "save")
    /\ saved' = [saved EXCEPT ![s] = [stars |-> run[s].theirs, lists |-> run[s].next]]
    /\ run' = [run EXCEPT ![s] = Idle]
    /\ UNCHANGED <<stars, lists, failed>>

Runs(s) ==
    /\ RunStarts(s) \/ RunStars(s) \/ RunIndex(s) \/ RunReads(s) \/ RunMirrors(s) \/ RunDeletes(s) \/ RunSaves(s)
    /\ UNCHANGED <<synced, pushes, changed, faults>>

\* The playlists are given up when a call fails; the stars were applied already.
RunGivesUp(s) ==
    /\ run[s].at \in {"index", "lists"} /\ Fault
    /\ run' = [run EXCEPT ![s].at = "save"] /\ failed' = TRUE
    /\ UNCHANGED <<stars, lists, synced, pushes, saved, changed>>

\* A run is cut off anywhere: the isolate ends, or a call before the playlists throws.
RunDies(s) ==
    /\ run[s].at # "off" /\ Fault
    /\ run' = [run EXCEPT ![s] = Idle]
    /\ UNCHANGED <<stars, lists, synced, pushes, saved, changed, failed>>

Next ==
    \/ Pushes \/ PushFails
    \/ \E s \in Servers :
         \/ \E k \in Songs : starHandler(s, k)
         \/ \E l \in Lists : updatePlaylist(s, l) \/ deletePlaylist(s, l)
         \/ Runs(s) \/ RunGivesUp(s) \/ RunDies(s)

Spec == Init /\ [][Next]_peerVars

\* What waitUntil was given runs, and the cron job pulls every hour.
LiveSpec == Spec /\ WF_peerVars(Pushes) /\ \A s \in Servers : WF_peerVars(Runs(s))

-----------------------------------------------------------------------------
Entries(s, l) == IF lists[s][l] = None THEN <<>> ELSE lists[s][l]
Alike == stars[Here] = stars[Peer] /\ \A l \in Lists : Entries(Here, l) = Entries(Peer, l)

\* Whichever of the two users changes something, the servers become alike in the
\* end, however often the run that pulls is cut off: as long as no push was lost
\* and no run has given the playlists up, with one change per song and playlist
\* and sync enabled on one side.
PeersAgree == Cardinality(synced) = 1 => <>failed \/ <>[]Alike

\* A push comes to an end: a change that came from the peer is not sent back for ever.
PushesEnd == <>[](pushes = {})

=============================================================================
