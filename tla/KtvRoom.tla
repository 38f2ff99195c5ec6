------------------------------- MODULE KtvRoom --------------------------------
(***************************************************************************)
(* One karaoke room: a Durable Object that keeps the whole room as one     *)
(* JSON value, the requests of its host and guests, and the preparations   *)
(* it runs for requested songs.                                            *)
(*                                                                         *)
(* A handler reads the room again after every await and saves it whole.    *)
(* A request is two or three steps: it arrives and the owner's settings    *)
(* are read; it is admitted (its token is checked); it acts, once its body *)
(* has been read.  A preparation starts with the request and ends whenever *)
(* it likes, possibly in another room of the same player.                  *)
(*                                                                         *)
(* Abstracted: names, titles, comments and the playback position; a person *)
(* is the identity one join creates; the queue is a set, as its order is   *)
(* that of the sequence numbers; the clock, which decides when the room    *)
(* has lapsed (heartbeats put that off) and who has asked too often in a   *)
(* minute.  Invitation codes are in KtvInvite.                             *)
(***************************************************************************)
EXTENDS Integers, FiniteSets

CONSTANTS
    Guests,      \* identities guests may be given
    Host,        \* the host's
    None,
    PerPerson,   \* requests one person may have in the queue (20)
    Capacity,    \* requests the queue may hold (200)
    MaxPeople,   \* participants a room may have (64)
    MaxSeq,      \* bound: requests ever made in a room
    MaxRooms,    \* bound: rooms opened in this object
    MaxGen,      \* bound: rotations of the invitation
    MaxToggles,  \* bound: how often the owner switches karaoke off or on
    MaxFlight    \* bound: requests being handled at once

People == Guests \cup {Host}

ASSUME HostAssumption == Host \notin Guests /\ None \notin People /\ None \notin Int
ASSUME LimitsAssumption == /\ PerPerson \in Nat /\ Capacity \in Nat /\ MaxPeople \in Nat
                           /\ MaxRooms \in Nat /\ MaxToggles \in Nat

VARIABLES
    room,      \* the saved room, or None
    born,      \* rooms opened so far: the present one's controller
    toggles,   \* changes of the owner's ktv_enabled, which starts out on
    lapsed,    \* the lease or the twelve hours are over
    flight,    \* requests being handled
    preparing, \* preparations under way
    passed     \* history: how often q went on stage while p waited

vars == <<room, born, toggles, lapsed, flight, preparing, passed>>

Item == [seq : Nat, by : People, status : {"resolving", "queued", "failed", "playing"}]

ASSUME StageAssumption == None \notin Item

Room == [gen : Nat, mode : {"fair", "fifo"}, people : SUBSET People, tokens : SUBSET Guests,
         lastServed : [People -> Nat], turn : Nat, queue : SUBSET Item,
         current : Item \cup {None}, autoplay : BOOLEAN, seq : Nat]

Ops == {"join", "enqueue", "remove", "next", "mode", "rotate", "close", "disable"}

GuestOps == {"enqueue", "remove"}

\* enabled: what the settings were when they were read; target: the item a
\* "remove" or "next" names, 0 for none; gen: the generation of the invitation a
\* guest joins with, or the one in which a request was admitted.
Request == [op : Ops, who : People, born : Nat, phase : {"arrived", "admitted"},
            enabled : BOOLEAN, gen : Nat, target : Nat]

\* Requests are told apart by their numbers; people in the room made them, and
\* its guests have the tokens.
Consistent(r) ==
    /\ r.tokens \subseteq r.people /\ Host \in r.people
    /\ \A i \in r.queue \cup ({r.current} \ {None}) : i.by \in r.people /\ i.seq \in 1..r.seq
    /\ \A i \in r.queue : /\ i.status # "playing"
                          /\ r.current # None => i.seq # r.current.seq
                          /\ \A j \in r.queue \ {i} : j.seq # i.seq

TypeOK == /\ room \in Room \cup {None}
          /\ room # None => Consistent(room)
          /\ born \in 0..MaxRooms
          /\ toggles \in 0..MaxToggles /\ lapsed \in BOOLEAN
          /\ flight \subseteq Request
          /\ preparing \subseteq [born : Nat, seq : Nat]
          /\ passed \in [People -> [People -> Nat]]

Enabled == toggles % 2 = 0

NobodyPassed == [p \in People |-> [q \in People |-> 0]]

Init == /\ room = None /\ born = 0 /\ toggles = 0 /\ lapsed = FALSE
        /\ flight = {} /\ preparing = {} /\ passed = NobodyPassed

-----------------------------------------------------------------------------
(* The queue.                                                              *)

Waiting(r) == {i \in r.queue : i.status # "failed"}

Requester(r, p) == \E i \in Waiting(r) : i.by = p

\* Who was served longest ago comes first, then who asked first.
Before(mode, served, i, j) ==
    IF mode = "fair" /\ served[i.by] # served[j.by]
    THEN served[i.by] < served[j.by]
    ELSE i.seq < j.seq

First(mode, served, items) ==
    CHOOSE i \in items : \A j \in items \ {i} : Before(mode, served, i, j)

\* Mutant: the look-ahead of ordered() forgets who it has placed.
OrderedOnce(r) ==
    LET before(i) == {j \in Waiting(r) \ {i} : Before(r.mode, r.lastServed, j, i)}
    IN [k \in 1..Cardinality(Waiting(r)) |->
          (CHOOSE i \in Waiting(r) : Cardinality(before(i)) = k - 1).seq]

\* ordered(): the order of the queue as everybody is shown it.
Ordered(r) ==
    LET n == Cardinality(Waiting(r))
        line[k \in 0..n] ==
            IF k = 0
            THEN [rest |-> Waiting(r), served |-> r.lastServed, order |-> [x \in {} |-> 0]]
            ELSE LET before == line[k - 1]
                     i == First(r.mode, before.served, before.rest)
                 IN [rest   |-> before.rest \ {i},
                     served |-> [before.served EXCEPT ![i.by] = r.turn + k],
                     order  |-> [x \in 1..k |-> IF x = k THEN i.seq ELSE before.order[x]]]
    IN line[n].order

\* Mutant: the song that goes on stage stays in the queue.
AdvanceCopies(r) ==
    IF r.current # None \/ Waiting(r) = {} THEN r
    ELSE LET i == First(r.mode, r.lastServed, Waiting(r)) IN
         IF i.status # "queued" THEN r
         ELSE [r EXCEPT !.current = [i EXCEPT !.status = "playing"],
                        !.turn = @ + 1, !.lastServed[i.by] = r.turn + 1]

\* Mutant: who was served is not remembered.
AdvanceForgets(r) ==
    IF r.current # None \/ Waiting(r) = {} THEN r
    ELSE LET i == First(r.mode, r.lastServed, Waiting(r)) IN
         IF i.status # "queued" THEN r
         ELSE [r EXCEPT !.queue = @ \ {i}, !.current = [i EXCEPT !.status = "playing"]]

\* advance(): the first request goes on an empty stage, if it is ready.
Advance(r) ==
    IF r.current # None \/ Waiting(r) = {} THEN r
    ELSE LET i == First(r.mode, r.lastServed, Waiting(r)) IN
         IF i.status # "queued" THEN r
         ELSE [r EXCEPT !.queue = @ \ {i}, !.current = [i EXCEPT !.status = "playing"],
                        !.turn = @ + 1, !.lastServed[i.by] = r.turn + 1]

Autoplay(r) == IF r.autoplay THEN Advance(r) ELSE r

\* With the room saved as r a song of p goes on stage.
GoesOn(r, p) == r.current # None /\ r.current # room.current /\ r.current.by = p

\* save(), and the history of who went on stage past whom.
Save(r) ==
    /\ room' = r
    /\ passed' = IF room = None \/ r.mode # room.mode THEN NobodyPassed
                 ELSE [p \in People |-> [q \in People |->
                        IF Requester(room, p) /\ Requester(r, p) /\ ~GoesOn(r, p)
                        THEN passed[p][q] + (IF GoesOn(r, q) THEN 1 ELSE 0)
                        ELSE 0]]

Closed == room' = None /\ passed' = NobodyPassed

-----------------------------------------------------------------------------
(* Opening and the end of a room.                                          *)

\* create(): a live room is returned as it is, a lapsed one is closed first.
Create(mode) ==
    /\ Enabled /\ born < MaxRooms
    /\ room = None \/ lapsed
    /\ Save([gen |-> 0, mode |-> mode, people |-> {Host}, tokens |-> {},
             lastServed |-> [p \in People |-> 0], turn |-> 0, queue |-> {},
             current |-> None, autoplay |-> FALSE, seq |-> 0])
    /\ born' = born + 1
    /\ lapsed' = FALSE
    /\ UNCHANGED <<toggles, flight, preparing>>

Lapse == /\ room # None /\ ~lapsed
         /\ lapsed' = TRUE
         /\ UNCHANGED <<room, born, toggles, flight, preparing, passed>>

\* alarm(), at the deadline.
Alarm == /\ room # None /\ lapsed
         /\ Closed
         /\ UNCHANGED <<born, toggles, lapsed, flight, preparing>>

\* PUT /settings.
Enable == /\ ~Enabled /\ toggles < MaxToggles /\ toggles' = toggles + 1
          /\ UNCHANGED <<room, born, lapsed, flight, preparing, passed>>

\* It also posts /disable to the room, which arrives sooner or later.
Disable == /\ Enabled /\ toggles < MaxToggles /\ toggles' = toggles + 1
           /\ Cardinality(flight) < MaxFlight
           /\ flight' = flight \cup {[op |-> "disable", who |-> Host, born |-> born, phase |-> "admitted",
                                      enabled |-> TRUE, gen |-> 0, target |-> 0]}
           /\ UNCHANGED <<room, born, lapsed, preparing, passed>>

-----------------------------------------------------------------------------
(* Requests.                                                               *)

Standing == room # None /\ ~lapsed

\* A handler that closes the room, whichever it is by now, and ends.
EndsClosing(q) == /\ flight' = flight \ {q}
                     /\ IF room # None THEN Closed ELSE UNCHANGED <<room, passed>>

\* A request is sent and reaches the room, and enabled() reads the settings.
Arrive(op, p, target) ==
    /\ Standing /\ Cardinality(flight) < MaxFlight
    /\ flight' = flight \cup {[op |-> op, who |-> p, born |-> born, phase |-> "arrived",
                               enabled |-> Enabled, gen |-> room.gen, target |-> target]}
    /\ UNCHANGED <<room, born, toggles, lapsed, preparing, passed>>

\* Mutant: whose the object is decides, not which room it holds.
KnownByOwner(q) == TRUE

Known(q) == q.born = born

\* identity(): the host's controller token, or a guest's token.  Joins need none.
Admitted(q) == \/ q.op = "join"
               \/ q.who = Host /\ Known(q)
               \/ q.who \in room.tokens /\ Known(q)

Admit(q) ==
    /\ q.phase = "arrived"
    /\ IF ~q.enabled \/ ~Standing THEN EndsClosing(q)
       ELSE /\ flight' = IF Admitted(q)
                         THEN (flight \ {q}) \cup
                              {[q EXCEPT !.phase = "admitted",
                                         !.gen = IF q.op = "join" THEN q.gen ELSE room.gen]}
                         ELSE flight \ {q}
            /\ UNCHANGED <<room, passed>>
    /\ UNCHANGED <<born, toggles, lapsed, preparing>>

\* Mutant: who was admitted before the invitation changed still acts.
MayActUnchecked(q) == Known(q) /\ (q.who = Host \/ q.op \in GuestOps)

\* The checks of action(): the person is of this room, of this generation.
MayAct(q) == /\ Known(q) /\ q.who \in room.people /\ q.gen = room.gen
             /\ q.who = Host \/ q.op \in GuestOps

Named(q) == {i \in room.queue : i.seq = q.target}

Refuses(q) ==
    CASE q.op = "join" ->
            ~Known(q) \/ q.gen # room.gen \/ q.who \in room.people \/ Cardinality(room.people) >= MaxPeople
      [] q.op = "enqueue" ->
            \/ ~MayAct(q)
            \/ Cardinality({i \in room.queue : i.by = q.who}) >= PerPerson
            \/ Cardinality(room.queue) >= Capacity
            \/ room.seq >= MaxSeq
      [] q.op = "remove" ->
            ~MayAct(q) \/ Named(q) = {} \/ (q.who # Host /\ \E i \in Named(q) : i.by # q.who)
      [] q.op = "next" ->
            ~MayAct(q) \/ q.target # (IF room.current = None THEN 0 ELSE room.current.seq)
      [] q.op = "rotate" -> ~MayAct(q) \/ room.gen >= MaxGen
      [] q.op = "disable" -> FALSE
      [] OTHER -> ~MayAct(q)

\* What an accepted request makes of the room.
Joined(p) == [room EXCEPT !.people = @ \cup {p}, !.tokens = @ \cup {p}, !.lastServed[p] = room.turn]

Enqueued(p) == [room EXCEPT !.queue = @ \cup {[seq |-> room.seq + 1, by |-> p, status |-> "resolving"]},
                            !.seq = @ + 1]

Removed(q) == Autoplay([room EXCEPT !.queue = @ \ Named(q)])

Advanced == Advance([room EXCEPT !.current = None, !.autoplay = TRUE])

Rotated == [room EXCEPT !.gen = @ + 1, !.tokens = {}]

Switched == [room EXCEPT !.mode = IF @ = "fair" THEN "fifo" ELSE "fair"]

\* The request is carried out, in one go after its last await.
Act(q) ==
    /\ q.phase = "admitted"
    /\ Standing /\ ~Refuses(q)
    /\ flight' = flight \ {q}
    /\ CASE q.op = "join"    -> Save(Joined(q.who))
         [] q.op = "enqueue" -> Save(Enqueued(q.who))
         [] q.op = "remove"  -> Save(Removed(q))
         [] q.op = "next"    -> Save(Advanced)
         [] q.op = "mode"    -> Save(Switched)
         [] q.op = "rotate"  -> Save(Rotated)
         [] OTHER            -> Closed
    /\ preparing' = IF q.op = "enqueue" THEN preparing \cup {[born |-> born, seq |-> room.seq + 1]}
                                        ELSE preparing
    /\ UNCHANGED <<born, toggles, lapsed>>

Refuse(q) ==
    /\ q.phase = "admitted"
    /\ IF ~Standing THEN EndsClosing(q)
       ELSE /\ Refuses(q)
            /\ flight' = flight \ {q}
            /\ UNCHANGED <<room, passed>>
    /\ UNCHANGED <<born, toggles, lapsed, preparing>>

-----------------------------------------------------------------------------
(* Preparations.                                                           *)

WithStatus(x, status) ==
    [room EXCEPT !.queue = {IF i.seq = x.seq THEN [i EXCEPT !.status = status] ELSE i : i \in room.queue}]

Concerned(x) == room # None /\ x.born = born /\ \E i \in room.queue : i.seq = x.seq

\* Mutant: the room is saved as it was when the preparation started.
PrepareFromCopy(x) ==
    /\ preparing' = preparing \ {x}
    /\ IF Concerned(x) /\ ~lapsed
       THEN Save([WithStatus(x, "queued") EXCEPT !.queue = {i \in @ : i.seq <= x.seq}])
       ELSE UNCHANGED <<room, passed>>
    /\ UNCHANGED <<born, toggles, lapsed, flight>>

\* prepare() succeeds: the request is ready.  active() closes a lapsed room.
Prepare(x) ==
    /\ preparing' = preparing \ {x}
    /\ IF room # None /\ lapsed THEN Closed
       ELSE IF Concerned(x) THEN Save(Autoplay(WithStatus(x, "queued")))
       ELSE UNCHANGED <<room, passed>>
    /\ UNCHANGED <<born, toggles, lapsed, flight>>

\* Mutant: a failure is recorded, and that is all.
PrepareFailsQuietly(x) ==
    /\ preparing' = preparing \ {x}
    /\ IF Concerned(x) THEN Save(WithStatus(x, "failed")) ELSE UNCHANGED <<room, passed>>
    /\ UNCHANGED <<born, toggles, lapsed, flight>>

\* prepare() fails: the request steps aside.
PrepareFails(x) ==
    /\ preparing' = preparing \ {x}
    /\ IF Concerned(x) THEN Save(Autoplay(WithStatus(x, "failed"))) ELSE UNCHANGED <<room, passed>>
    /\ UNCHANGED <<born, toggles, lapsed, flight>>

Targets(op) == CASE op = "remove" -> {i.seq : i \in room.queue}
                 [] op = "next"   -> {IF room.current = None THEN 0 ELSE room.current.seq}
                 [] OTHER         -> {0}

Next == \/ \E mode \in {"fair", "fifo"} : Create(mode)
        \/ Lapse \/ Alarm \/ Enable \/ Disable
        \/ \E op \in Ops \ {"disable"}, p \in People :
              /\ room # None
              /\ IF op = "join" THEN p \in Guests \ room.people ELSE p \in room.people
              /\ op \notin GuestOps \cup {"join"} => p = Host
              /\ \E n \in Targets(op) : Arrive(op, p, n)
        \/ \E q \in flight : Admit(q) \/ Act(q) \/ Refuse(q)
        \/ \E x \in preparing : Prepare(x) \/ PrepareFails(x)

Spec == Init /\ [][Next]_vars

-----------------------------------------------------------------------------
\* In a room that takes turns nobody is on stage twice while somebody who asked
\* still waits, whoever joins, fails or leaves the queue in the meantime
\* ("Participants take turns after each accepted request.", en.json).
TakesTurns == room # None /\ room.mode = "fair" => \A p, q \in People : p # q => passed[p][q] <= 1

\* Once the host has started it, the stage is empty only while somebody's song is
\* still being prepared: every way to free or to fill the queue's head goes on
\* to the next song (room.ts 368, 377, 456, 465).
IdleOnlyForPreparation ==
    room # None /\ room.autoplay /\ room.current = None /\ Waiting(room) # {} =>
        \E i \in Waiting(room) : i.status = "resolving" /\ [born |-> born, seq |-> i.seq] \in preparing

\* A request that was accepted stays until it is played or removed: no handler
\* saves a room it read before somebody else's request (rooms are saved whole).
KeepsAccepted ==
    room # None /\ room' # None /\ born' = born =>
        \A i \in room.queue :
           \/ \E j \in room'.queue : j.seq = i.seq
           \/ room'.current # None /\ room'.current.seq = i.seq
           \/ \E q \in flight : q.op = "remove" /\ q.target = i.seq /\ Act(q)

AcceptedStay == [][KeepsAccepted]_vars

\* A request or a preparation of an earlier room never changes the room the same
\* player has opened since: the object, the owner and the host are the same, only
\* the controller and the generation differ (room.ts 184, 292, 326, 452).
OnlyItsOwnRoom ==
    room # None /\ room' # None /\ born' = born /\ room' # room =>
        /\ \A q \in flight \ flight' : q.born = born
        /\ \A x \in preparing \ preparing' : x.born = born

StaysInItsRoom == [][OnlyItsOwnRoom]_vars

\* Only guests of the present invitation get requests into the queue, also when
\* the invitation is rotated between the check of their token and their action.
AcceptsTheInvited ==
    room # None /\ room' # None /\ born' = born /\ room'.seq > room.seq =>
        \E i \in room'.queue : i.seq = room'.seq /\ i.by \in room.tokens \cup {Host}

OnlyTheInvited == [][AcceptsTheInvited]_vars

\* The order everybody is shown is the order in which the songs come on stage if
\* nothing else happens: ordered() looks ahead by itself at what advance() will
\* do one song at a time.
ShownIsPlayed ==
    room # None /\ (\A i \in Waiting(room) : i.status = "queued") =>
        LET n == Cardinality(Waiting(room))
            stage[k \in 0..n] == IF k = 0 THEN room
                                 ELSE Advance([stage[k - 1] EXCEPT !.current = None])
        IN \A k \in 1..n : stage[k].current.seq = Ordered(room)[k]

-----------------------------------------------------------------------------
(* Why: the inductive invariant.                                           *)

\* Who was passed by q still waits, and was served before q was.
TurnsCounted ==
    room # None =>
        /\ \A p \in People : room.lastServed[p] <= room.turn
        /\ room.mode = "fair" =>
             \A p, q \in People : p # q /\ passed[p][q] # 0 =>
                /\ passed[p][q] = 1
                /\ room.lastServed[p] < room.lastServed[q]
                /\ Requester(room, p)

\* What is being prepared really is.
BeingPrepared ==
    room # None =>
        \A i \in room.queue : i.status = "resolving" => [born |-> born, seq |-> i.seq] \in preparing

\* Who was admitted to the present room has a token, as long as the invitation
\* has not changed since.
AdmittedHaveTokens ==
    \A q \in flight :
        /\ q.born <= born
        /\ room # None /\ q.born = born =>
             /\ q.gen <= room.gen
             /\ q.phase = "admitted" /\ q.op \in GuestOps /\ q.gen = room.gen =>
                  q.who \in room.tokens \cup {Host}

IInv == TypeOK /\ TurnsCounted /\ BeingPrepared /\ IdleOnlyForPreparation /\ AdmittedHaveTokens
=============================================================================
