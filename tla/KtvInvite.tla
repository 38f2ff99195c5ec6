------------------------------ MODULE KtvInvite -------------------------------
(***************************************************************************)
(* The six-digit codes that lead guests to karaoke rooms.  A room draws    *)
(* its code at random and registers it in the D1 table kv_store, which all *)
(* rooms share; D1 statements run some time after they are sent, and the   *)
(* room's other handlers run meanwhile.  Deletions are sent when a room    *)
(* closes or has rotated its code, and may be late or get lost.            *)
(*                                                                         *)
(* A room in an object is known by born, its controller token; expiresAt   *)
(* and generation of a registration are represented by <<born, gen>>: they *)
(* are drawn from the clock when the room is opened.                       *)
(***************************************************************************)
EXTENDS Integers, FiniteSets

CONSTANTS
    Rooms,       \* the Durable Objects
    Codes,       \* invitation codes
    None,        \* none of the above
    Attempts,    \* tries of one registration (16)
    MaxRooms,    \* bound: rooms opened in all objects
    MaxGen,      \* bound: rotations of one room
    MaxOver,     \* bound: rooms whose twelve hours end
    MaxHandlers  \* bound: registrations at once

VARIABLES
    room,       \* each object's saved room, or None
    born,       \* rooms opened in each object so far
    over,       \* <<object, born>> whose twelve hours are over
    kv,         \* the table: what each code is registered for, or None
    handlers,   \* registrations in progress
    deletes,    \* DELETEs on their way
    told        \* history: the host was told the present code, by an answer
                \* about the present generation

vars == <<room, born, over, kv, handlers, deletes, told>>

Saved == [invite : Codes, born : Nat, gen : Nat]

Entry == [object : Rooms, born : Nat, gen : Nat]

\* A registration: for the room with controller born, at its n-th try; what it
\* sent; what came of it; and, for rotate, the registration it replaces.
Handler == [object : Rooms, born : Nat, n : 1..Attempts, phase : {"ready", "sent", "done"},
            invite : Codes \cup {None}, gen : Nat, changes : BOOLEAN,
            previous : [code : Codes, gen : Nat] \cup {None}]

Delete == [code : Codes, object : Rooms, born : Nat, gen : Nat]

TypeOK == /\ room \in [Rooms -> Saved \cup {None}]
          /\ born \in [Rooms -> Nat]
          /\ over \subseteq Rooms \X Nat
          /\ kv \in [Codes -> Entry \cup {None}]
          /\ handlers \subseteq Handler
          /\ deletes \subseteq Delete
          /\ told \in [Rooms -> BOOLEAN]

Init == /\ room = [o \in Rooms |-> None]
        /\ born = [o \in Rooms |-> 0]
        /\ over = {}
        /\ kv = [c \in Codes |-> None]
        /\ handlers = {} /\ deletes = {}
        /\ told = [o \in Rooms |-> FALSE]

-----------------------------------------------------------------------------
Opened == {w \in Rooms \X (1..MaxRooms) : w[2] <= born[w[1]]}

Active(o) == room[o] # None /\ <<o, born[o]>> \notin over

Registering(o, previous) ==
    [object |-> o, born |-> born'[o], n |-> 1, phase |-> "ready", invite |-> None,
     gen |-> 0, changes |-> FALSE, previous |-> previous]

\* close(): the DELETE of the present registration is sent.
Closing(o) == deletes' = deletes \cup
    {[code |-> room[o].invite, object |-> o, born |-> room[o].born, gen |-> room[o].gen]}

\* create() of a room; one that is over is closed first.
Open(o, code) ==
    /\ Cardinality(handlers) < MaxHandlers /\ Cardinality(Opened) < MaxRooms
    /\ ~Active(o)
    /\ IF room[o] = None THEN deletes' = deletes ELSE Closing(o)
    /\ born' = [born EXCEPT ![o] = @ + 1]
    /\ room' = [room EXCEPT ![o] = [invite |-> code, born |-> born'[o], gen |-> 0]]
    /\ handlers' = handlers \cup {Registering(o, None)}
    /\ told' = [told EXCEPT ![o] = FALSE]
    /\ UNCHANGED <<over, kv>>

\* create() of a room that stands: it is registered once more.
Reopen(o) ==
    /\ Cardinality(handlers) < MaxHandlers
    /\ Active(o)
    /\ born' = born
    /\ handlers' = handlers \cup {Registering(o, None)}
    /\ UNCHANGED <<room, over, kv, deletes, told>>

\* "rotate": another code, another generation; then the registration.
Rotate(o, code) ==
    /\ Cardinality(handlers) < MaxHandlers
    /\ Active(o) /\ room[o].gen < MaxGen
    /\ born' = born
    /\ room' = [room EXCEPT ![o].invite = code, ![o].gen = @ + 1]
    /\ handlers' = handlers \cup
         {Registering(o, [code |-> room[o].invite, gen |-> room[o].gen])}
    /\ told' = [told EXCEPT ![o] = FALSE]
    /\ UNCHANGED <<over, kv, deletes>>

\* The host closes the room, its lease ends, or a handler finds it over.
Close(o) ==
    /\ room[o] # None
    /\ Closing(o)
    /\ room' = [room EXCEPT ![o] = None]
    /\ UNCHANGED <<born, over, kv, handlers, told>>

\* The twelve hours of a room opened in o are over, whether it still stands or not.
Expire(o, b) ==
    /\ <<o, b>> \notin over /\ Cardinality(over) < MaxOver
    /\ over' = over \cup {<<o, b>>}
    /\ UNCHANGED <<room, born, kv, handlers, deletes, told>>

-----------------------------------------------------------------------------
(* registerInvite.                                                         *)

Present(h) == Active(h.object) /\ room[h.object].born = h.born

\* The room is read and the upsert is sent.
Send(h) ==
    /\ h.phase = "ready" /\ Present(h)
    /\ handlers' = (handlers \ {h}) \cup
         {[h EXCEPT !.phase = "sent", !.invite = room[h.object].invite, !.gen = room[h.object].gen]}
    /\ UNCHANGED <<room, born, over, kv, deletes, told>>

\* Mutant: whatever the code is registered for is replaced.
TakeableAlways(h) == TRUE

\* The WHERE of the upsert: the same value, or one that has expired.
Takeable(h) == \/ kv[h.invite] = None
               \/ kv[h.invite] = [object |-> h.object, born |-> h.born, gen |-> h.gen]
               \/ <<kv[h.invite].object, kv[h.invite].born>> \in over

Execute(h) ==
    /\ h.phase = "sent"
    /\ handlers' = (handlers \ {h}) \cup {[h EXCEPT !.phase = "done", !.changes = Takeable(h)]}
    /\ kv' = IF Takeable(h)
             THEN [kv EXCEPT ![h.invite] = [object |-> h.object, born |-> h.born, gen |-> h.gen]]
             ELSE kv
    /\ UNCHANGED <<room, born, over, deletes, told>>

\* The answer is about the code the room still has.
Accepted(h) == h.changes /\ room[h.object].invite = h.invite

\* It is: the host is told, and a rotation sends the DELETE of what it replaced.
\* Only the code is compared: the answer may be about an earlier generation that
\* drew the same one, whose DELETE will take the code away again.
Registered(h) ==
    /\ h.phase = "done" /\ Present(h) /\ Accepted(h)
    /\ told' = [told EXCEPT ![h.object] = @ \/ h.gen = room[h.object].gen]
    /\ handlers' = handlers \ {h}
    /\ deletes' = IF h.previous = None THEN deletes
                  ELSE deletes \cup {[code |-> h.previous.code, object |-> h.object,
                                      born |-> h.born, gen |-> h.previous.gen]}
    /\ UNCHANGED <<room, born, over, kv>>

Ready(h) == [h EXCEPT !.phase = "ready", !.n = @ + 1, !.invite = None, !.gen = 0, !.changes = FALSE]

\* Mutant: one try too many.
AgainOnce(h) == IF h.n > Attempts THEN {} ELSE {Ready(h)}

\* The next try, if there is one.
Again(h) == IF h.n = Attempts THEN {} ELSE {Ready(h)}

\* It is not: if the code was taken the room draws another; then the next try.
Retry(h, code) ==
    /\ h.phase = "done" /\ Present(h) /\ ~Accepted(h)
    /\ IF room[h.object].invite = h.invite
       THEN /\ room' = [room EXCEPT ![h.object].invite = code]
            /\ told' = [told EXCEPT ![h.object] = FALSE]
       ELSE code = h.invite /\ UNCHANGED <<room, told>>
    /\ handlers' = (handlers \ {h}) \cup Again(h)
    /\ UNCHANGED <<born, over, kv, deletes>>

\* The room was closed or replaced, or is found over and closed; the handler ends.
GiveUp(h) ==
    /\ h.phase # "sent" /\ ~Present(h)
    /\ handlers' = handlers \ {h}
    /\ IF room[h.object] # None /\ ~Active(h.object)
       THEN Closing(h.object) /\ room' = [room EXCEPT ![h.object] = None]
       ELSE UNCHANGED <<room, deletes>>
    /\ UNCHANGED <<born, over, kv, told>>

\* The statement or the answer to it is lost, and the handler with it.
Fail(h) ==
    /\ h.phase # "ready"
    /\ handlers' = handlers \ {h}
    /\ UNCHANGED <<room, born, over, kv, deletes, told>>

-----------------------------------------------------------------------------
\* The WHERE of the DELETE: this room, this generation.
Deletes(d) == kv[d.code] = [object |-> d.object, born |-> d.born, gen |-> d.gen]

RunDelete(d) ==
    /\ kv' = IF Deletes(d) THEN [kv EXCEPT ![d.code] = None] ELSE kv
    /\ deletes' = deletes \ {d}
    /\ UNCHANGED <<room, born, over, handlers, told>>

\* The object dies before the DELETE has been sent.
LoseDelete(d) ==
    /\ deletes' = deletes \ {d}
    /\ UNCHANGED <<room, born, over, kv, handlers, told>>

\* Registrations older than twelve hours are cleared.
CleanUp(c) ==
    /\ kv[c] # None /\ <<kv[c].object, kv[c].born>> \in over
    /\ kv' = [kv EXCEPT ![c] = None]
    /\ UNCHANGED <<room, born, over, handlers, deletes, told>>

Next == \/ \E o \in Rooms : \/ \E c \in Codes : Open(o, c) \/ Rotate(o, c)
                            \/ Reopen(o) \/ Close(o)
                            \/ \E b \in 1..born[o] : Expire(o, b)
        \/ \E h \in handlers : \/ Send(h) \/ Execute(h) \/ Registered(h) \/ GiveUp(h) \/ Fail(h)
                               \/ \E c \in Codes : Retry(h, c)
        \/ \E d \in deletes : RunDelete(d) \/ LoseDelete(d)
        \/ \E c \in Codes : CleanUp(c)

Spec == Init /\ [][Next]_vars

-----------------------------------------------------------------------------
\* GET /ktv/invites/:code: the object a code leads to.
Leads(c) == IF kv[c] = None \/ <<kv[c].object, kv[c].born>> \in over THEN None ELSE kv[c].object

\* A code the host was given, by an answer about the present generation, leads
\* guests to this room for as long as it is the room's code: other rooms, late DELETEs of earlier rooms and rotations, and the
\* cleaning up never take it away, nor hand it to somebody else (room.ts 173-213).
AnnouncedLeadsHome ==
    \A o \in Rooms : Active(o) /\ told[o] => Leads(room[o].invite) = o

-----------------------------------------------------------------------------
(* Why: the inductive invariant.                                           *)

HomeOf(o) == [object |-> o, born |-> room[o].born, gen |-> room[o].gen]

PresentRooms == \A o \in Rooms : room[o] # None => room[o].born = born[o]

AnnouncedAreRegistered ==
    \A o \in Rooms : Active(o) /\ told[o] => kv[room[o].invite] = HomeOf(o)

\* A registration that succeeded for the present generation still stands.
AnswersAreTrue ==
    \A h \in handlers :
        h.phase = "done" /\ h.changes /\ Present(h) /\ h.gen = room[h.object].gen =>
            kv[h.invite] = [object |-> h.object, born |-> h.born, gen |-> h.gen]

\* Handlers are of the present generation of their object or of an earlier one,
\* and rotations replace an earlier one.
HandlersComeLater ==
    \A h \in handlers :
        /\ h.born <= born[h.object]
        /\ h.phase # "ready" => h.invite \in Codes
        /\ room[h.object] # None /\ h.born = born[h.object] =>
             /\ h.gen <= room[h.object].gen
             /\ h.previous # None => h.previous.gen < room[h.object].gen

\* A DELETE on its way is of an earlier room or of an earlier generation.
DeletesComeLate ==
    \A d \in deletes :
        /\ d.born <= born[d.object]
        /\ room[d.object] # None /\ d.born = born[d.object] => d.gen < room[d.object].gen

IInv == /\ TypeOK /\ PresentRooms /\ AnnouncedAreRegistered /\ AnswersAreTrue
        /\ HandlersComeLater /\ DeletesComeLate
=============================================================================
