-------------------------------- MODULE MCKtv --------------------------------
(***************************************************************************)
(* Small instances of a karaoke room and of the registration of its codes. *)
(* They do not interact: part says which one a behaviour is about, and the *)
(* other rests.                                                            *)
(*                                                                         *)
(* No single history needs many people, many requests, many handlers and   *)
(* many rooms at once: Corner admits the states that are large in one of   *)
(* these ways.                                                             *)
(***************************************************************************)
EXTENDS KtvRoom, TLC

CONSTANTS
    g1, g2,
    Rooms, Codes, Attempts, MaxOver, MaxHandlers  \* of KtvInvite

VARIABLES part, rooms, opened, over, kv, handlers, deletes, told

Invite == INSTANCE KtvInvite WITH room <- rooms, born <- opened

inviteVars == <<rooms, opened, over, kv, handlers, deletes, told>>
ktvVars == <<part, room, born, toggles, lapsed, flight, preparing, passed,
             rooms, opened, over, kv, handlers, deletes, told>>

\* An entry of the table is no absence of one, and a code is tried at least once.
ASSUME InviteAssumption == None \notin Invite!Entry /\ Attempts \in Nat \ {0}

KtvInit == part \in {"room", "invite"} /\ Init /\ Invite!Init

KtvNext ==
    /\ UNCHANGED part
    /\ IF part = "room" THEN Next ELSE UNCHANGED vars
    /\ IF part = "invite" THEN Invite!Next ELSE UNCHANGED inviteVars

KtvSpec == KtvInit /\ [][KtvNext]_ktvVars

\* Two guests; or two objects, which are permuted together with them.
MCPair == {g1, g2}
MCSymmetry == Permutations(MCPair) \cup Permutations(Codes)

\* Those in the room, those whose requests are being handled, and the requests.
Size(people, requests) ==
    /\ Cardinality((IF room = None THEN {} ELSE room.people) \cup {q.who : q \in flight}) <= people
    /\ room # None => room.seq <= requests

\* Handlers and preparations under way.
Busy(n) == Cardinality(flight) + Cardinality(preparing) <= n

OneByOne ==
    /\ born <= 1 /\ toggles = 0 /\ Cardinality(flight) <= 1
    /\ room # None => room.gen = 0

Fair == room # None => room.mode = "fair"

Turns == OneByOne /\ Fair /\ ~lapsed /\ Cardinality(preparing) <= 1 /\ Size(3, 3)
LookAhead == OneByOne /\ Fair /\ ~lapsed /\ Busy(1) /\ Size(2, 4)
Overlap == born <= 1 /\ toggles = 0 /\ Busy(2) /\ Size(2, IF lapsed THEN 1 ELSE 2)
Reopened == Fair /\ Busy(2) /\ (toggles > 0 => Cardinality(flight) <= 1) /\ Size(2, 1)

\* In a room that takes turns one handler at a time and more people or more
\* requests, or two rooms one after the other; or handlers that overlap in one room.
RoomCorner == Turns \/ LookAhead \/ Overlap \/ Reopened

\* Registrations and DELETEs under way: three until a code is rotated or a room is
\* over, two after either, one after both.
Rotations == \E o \in Rooms : rooms[o] # None /\ rooms[o].gen > 0
InviteCorner ==
    Cardinality(handlers) + Cardinality(deletes) <=
        CASE over = {} /\ ~Rotations -> 3 [] over # {} /\ Rotations -> 1 [] OTHER -> 2

Corner == IF part = "room" THEN RoomCorner ELSE InviteCorner

-----------------------------------------------------------------------------
\* The type invariants of both modules.
TypesOK == IF part = "room" THEN TypeOK ELSE Invite!TypeOK

\* What the stage promises: turns are taken, and it is empty only for a preparation
\* (room.ts 368, 377, 456, 465).
StageIsFair == part = "room" => TakesTurns /\ IdleOnlyForPreparation

\* No step loses a request, changes another room than its own, or lets in a
\* request of somebody invited earlier.
KeepsRequests == part = "room" => KeepsAccepted /\ OnlyItsOwnRoom /\ AcceptsTheInvited

\* What a request is promised: it comes on stage in the order everybody is shown,
\* stays once accepted, changes no other room than its own, and nobody of an
\* earlier invitation gets one in (room.ts 95-126, 249, 451, 452).
RequestsAreKept == [](part = "room" => ShownIsPlayed) /\ [][KeepsRequests]_ktvVars

\* A code the host was told leads to its room (room.ts 173-213).
AnnouncedLeadsHome == part = "invite" => Invite!AnnouncedLeadsHome
=============================================================================
