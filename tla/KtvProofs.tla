------------------------------- MODULE KtvProofs -------------------------------
(***************************************************************************)
(* Proofs about karaoke rooms and their codes, for any number of people,   *)
(* rooms, codes and requests: the types, the turns people take, and that a *)
(* code the host was told leads to the room.                               *)
(***************************************************************************)
EXTENDS MCKtv, WellFoundedInduction, TLAPS

-----------------------------------------------------------------------------
(* The codes.                                                              *)

\* What the statements of registerInvite and of the cleaning up do to the table
\* keeps its type.
LEMMA InviteStart == Invite!Init => Invite!IInv
<1> SUFFICES ASSUME Invite!Init PROVE Invite!IInv
  OBVIOUS
<1>1. Invite!TypeOK
  BY DEF Invite!Init, Invite!TypeOK
<1>2. QED
  BY <1>1 DEF Invite!Init, Invite!IInv, Invite!PresentRooms, Invite!AnnouncedAreRegistered,
     Invite!AnswersAreTrue,
     Invite!HandlersComeLater, Invite!DeletesComeLate, Invite!Active

\* close() sends the DELETE of what the room has registered.
LEMMA ClosingSends ==
    ASSUME Invite!TypeOK, NEW o \in Rooms, rooms[o] # None, Invite!Closing(o)
    PROVE  /\ deletes' \subseteq Invite!Delete
           /\ \A d \in deletes' : \/ d \in deletes
                                  \/ d.object = o /\ d.born = rooms[o].born /\ d.gen = rooms[o].gen
<1>1. rooms[o] \in Invite!Saved /\ deletes \subseteq Invite!Delete
  BY DEF Invite!TypeOK
<1>2. rooms[o].invite \in Codes /\ rooms[o].born \in Nat /\ rooms[o].gen \in Nat
  BY <1>1 DEF Invite!Saved
<1>3. QED
  BY <1>1, <1>2 DEF Invite!Closing, Invite!Delete

\* A registration in progress, and what its object holds.
LEMMA HandlerTypes ==
    ASSUME Invite!TypeOK, NEW h \in handlers
    PROVE  /\ h \in Invite!Handler /\ h.object \in Rooms /\ h.born \in Nat /\ h.gen \in Nat /\ h.n \in 1..Attempts
           /\ h.previous # None => h.previous.code \in Codes /\ h.previous.gen \in Nat
           /\ rooms[h.object] # None => /\ rooms[h.object] \in Invite!Saved
                                        /\ rooms[h.object].invite \in Codes
                                        /\ rooms[h.object].born \in Nat
                                        /\ rooms[h.object].gen \in Nat
<1>1. h \in Invite!Handler
  BY DEF Invite!TypeOK
<1>2. h.object \in Rooms /\ h.born \in Nat /\ h.gen \in Nat /\ h.n \in 1..Attempts
  BY <1>1 DEF Invite!Handler
<1>3. h.previous \in [code : Codes, gen : Nat] \cup {None}
  BY <1>1 DEF Invite!Handler
<1>4. rooms[h.object] \in Invite!Saved \cup {None}
  BY <1>2 DEF Invite!TypeOK
<1>5. QED
  BY <1>1, <1>2, <1>3, <1>4 DEF Invite!Saved

\* A registration that begins.
LEMMA RegisteringType ==
    ASSUME NEW o \in Rooms, opened'[o] \in Nat, NEW p \in [code : Codes, gen : Nat] \cup {None}
    PROVE  Invite!Registering(o, p) \in Invite!Handler
<1>1. Invite!Registering(o, p) =
        [object |-> o, born |-> opened'[o], n |-> 1, phase |-> "ready", invite |-> None,
         gen |-> 0, changes |-> FALSE, previous |-> p]
  BY DEF Invite!Registering
<1>2. 1 \in 1..Attempts
  BY InviteAssumption
<1>3. FALSE \in BOOLEAN
  OBVIOUS
<1>4. QED
  BY <1>1, <1>2, <1>3 DEF Invite!Handler

LEMMA InviteTypes == ASSUME Invite!TypeOK, Invite!Next PROVE Invite!TypeOK'
<1>t. /\ rooms \in [Rooms -> Invite!Saved \cup {None}]
      /\ opened \in [Rooms -> Nat]
      /\ over \subseteq Rooms \X Nat
      /\ kv \in [Codes -> Invite!Entry \cup {None}]
      /\ handlers \subseteq Invite!Handler
      /\ deletes \subseteq Invite!Delete
      /\ told \in [Rooms -> BOOLEAN]
  BY DEF Invite!TypeOK
<1>a. Attempts \in Nat /\ 1 \in 1..Attempts
  BY InviteAssumption
<1>1. ASSUME NEW o \in Rooms, NEW c \in Codes, Invite!Open(o, c) PROVE Invite!TypeOK'
  <2>1. opened' \in [Rooms -> Nat] /\ opened'[o] \in Nat
    BY <1>t, <1>1 DEF Invite!Open
  <2>2. rooms' \in [Rooms -> Invite!Saved \cup {None}]
    BY <1>t, <1>1, <2>1 DEF Invite!Open, Invite!Saved
  <2>3. handlers' \subseteq Invite!Handler
    BY <1>t, <1>1, <2>1, RegisteringType DEF Invite!Open
  <2>4. deletes' \subseteq Invite!Delete
    <3>1. CASE rooms[o] = None
      BY <1>t, <1>1, <3>1 DEF Invite!Open
    <3>2. CASE rooms[o] # None
      BY <1>1, <3>2, ClosingSends DEF Invite!Open
    <3>3. QED
      BY <3>1, <3>2
  <2>5. told' \in [Rooms -> BOOLEAN] /\ kv' = kv /\ over' = over
    BY <1>t, <1>1 DEF Invite!Open
  <2>6. QED
    BY <1>t, <2>1, <2>2, <2>3, <2>4, <2>5 DEF Invite!TypeOK
<1>2. ASSUME NEW o \in Rooms, Invite!Reopen(o) PROVE Invite!TypeOK'
  <2>1. opened' = opened /\ opened'[o] \in Nat
    BY <1>t, <1>2 DEF Invite!Reopen
  <2>2. handlers' \subseteq Invite!Handler
    BY <1>t, <1>2, <2>1, RegisteringType DEF Invite!Reopen
  <2>3. QED
    BY <1>t, <1>2, <2>1, <2>2 DEF Invite!Reopen, Invite!TypeOK
<1>3. ASSUME NEW o \in Rooms, NEW c \in Codes, Invite!Rotate(o, c) PROVE Invite!TypeOK'
  <2>1. /\ opened' = opened /\ opened'[o] \in Nat
        /\ rooms[o] \in Invite!Saved /\ rooms[o].invite \in Codes /\ rooms[o].gen \in Nat
    BY <1>t, <1>3 DEF Invite!Rotate, Invite!Active, Invite!Saved
  <2>2. rooms' \in [Rooms -> Invite!Saved \cup {None}]
    BY <1>t, <1>3, <2>1 DEF Invite!Rotate, Invite!Saved
  <2>3. handlers' \subseteq Invite!Handler
    BY <1>t, <1>3, <2>1, RegisteringType DEF Invite!Rotate
  <2>4. told' \in [Rooms -> BOOLEAN] /\ UNCHANGED <<over, kv, deletes>>
    BY <1>t, <1>3 DEF Invite!Rotate
  <2>5. QED
    BY <1>t, <2>1, <2>2, <2>3, <2>4 DEF Invite!TypeOK
<1>4. ASSUME NEW o \in Rooms, Invite!Close(o) PROVE Invite!TypeOK'
  <2>1. deletes' \subseteq Invite!Delete
    BY <1>4, ClosingSends DEF Invite!Close
  <2>2. QED
    BY <1>t, <1>4, <2>1 DEF Invite!Close, Invite!TypeOK
<1>5. ASSUME NEW o \in Rooms, NEW b \in 1..opened[o], Invite!Expire(o, b) PROVE Invite!TypeOK'
  <2>1. b \in Nat
    BY <1>t
  <2>2. QED
    BY <1>t, <1>5, <2>1 DEF Invite!Expire, Invite!TypeOK
<1>6. ASSUME NEW h \in handlers, Invite!Send(h) PROVE Invite!TypeOK'
  <2>1. rooms[h.object] # None
    BY <1>6 DEF Invite!Send, Invite!Present, Invite!Active
  <2>2. [h EXCEPT !.phase = "sent", !.invite = rooms[h.object].invite, !.gen = rooms[h.object].gen] \in Invite!Handler
    BY <2>1, HandlerTypes DEF Invite!Handler
  <2>3. QED
    BY <1>t, <1>6, <2>2 DEF Invite!Send, Invite!TypeOK
<1>7. ASSUME NEW h \in handlers, Invite!Execute(h) PROVE Invite!TypeOK'
  <2>1. Invite!Takeable(h) \in BOOLEAN
    BY DEF Invite!Takeable
  <2>2. [h EXCEPT !.phase = "done", !.changes = Invite!Takeable(h)] \in Invite!Handler
    BY <2>1, HandlerTypes DEF Invite!Handler
  <2>3. [object |-> h.object, born |-> h.born, gen |-> h.gen] \in Invite!Entry
    BY HandlerTypes DEF Invite!Entry
  <2>4. kv' \in [Codes -> Invite!Entry \cup {None}]
    BY <1>t, <1>7, <2>3 DEF Invite!Execute
  <2>5. QED
    BY <1>t, <1>7, <2>2, <2>4 DEF Invite!Execute, Invite!TypeOK
<1>8. ASSUME NEW h \in handlers, Invite!Registered(h) PROVE Invite!TypeOK'
  <2>1. told' \in [Rooms -> BOOLEAN]
    BY <1>t, <1>8 DEF Invite!Registered
  <2>2. deletes' \subseteq Invite!Delete
    <3>1. CASE h.previous = None
      BY <1>t, <1>8, <3>1 DEF Invite!Registered
    <3>2. CASE h.previous # None
      BY <1>t, <1>8, <3>2, HandlerTypes DEF Invite!Registered, Invite!Delete
    <3>3. QED
      BY <3>1, <3>2
  <2>3. QED
    BY <1>t, <1>8, <2>1, <2>2 DEF Invite!Registered, Invite!TypeOK
<1>9. ASSUME NEW h \in handlers, Invite!GiveUp(h) PROVE Invite!TypeOK'
  <2>1. handlers' \subseteq Invite!Handler /\ UNCHANGED <<opened, over, kv, told>>
    BY <1>t, <1>9 DEF Invite!GiveUp
  <2>2. /\ rooms' \in [Rooms -> Invite!Saved \cup {None}]
        /\ deletes' \subseteq Invite!Delete
    <3>1. CASE rooms[h.object] # None /\ ~Invite!Active(h.object)
      BY <1>t, <1>9, <3>1, ClosingSends, HandlerTypes DEF Invite!GiveUp
    <3>2. CASE ~(rooms[h.object] # None /\ ~Invite!Active(h.object))
      BY <1>t, <1>9, <3>2 DEF Invite!GiveUp
    <3>3. QED
      BY <3>1, <3>2
  <2>3. QED
    BY <1>t, <2>1, <2>2 DEF Invite!TypeOK
<1>10. ASSUME NEW h \in handlers, Invite!Fail(h) PROVE Invite!TypeOK'
  BY <1>t, <1>10 DEF Invite!Fail, Invite!TypeOK
<1>11. ASSUME NEW h \in handlers, NEW c \in Codes, Invite!Retry(h, c) PROVE Invite!TypeOK'
  <2>1. Invite!Again(h) \subseteq Invite!Handler
    <3>1. CASE h.n = Attempts
      BY <3>1 DEF Invite!Again
    <3>2. CASE h.n # Attempts
      <4>1. h \in Invite!Handler /\ h.n + 1 \in 1..Attempts
        BY <1>a, <3>2, HandlerTypes
      <4>2. Invite!Ready(h) \in Invite!Handler
        BY <4>1 DEF Invite!Ready, Invite!Handler
      <4>3. QED
        BY <3>2, <4>2 DEF Invite!Again
    <3>3. QED
      BY <3>1, <3>2
  <2>2. rooms[h.object] # None
    BY <1>11 DEF Invite!Retry, Invite!Present, Invite!Active
  <2>3. rooms' \in [Rooms -> Invite!Saved \cup {None}] /\ told' \in [Rooms -> BOOLEAN]
    <3>1. CASE rooms[h.object].invite = h.invite
      <4>1. [rooms[h.object] EXCEPT !.invite = c] \in Invite!Saved
        BY <2>2, HandlerTypes DEF Invite!Saved
      <4>2. QED
        BY <1>t, <1>11, <3>1, <4>1 DEF Invite!Retry
    <3>2. CASE rooms[h.object].invite # h.invite
      BY <1>t, <1>11, <3>2 DEF Invite!Retry
    <3>3. QED
      BY <3>1, <3>2
  <2>4. QED
    BY <1>t, <1>11, <2>1, <2>3 DEF Invite!Retry, Invite!TypeOK
<1>12. ASSUME NEW d \in deletes, Invite!RunDelete(d) \/ Invite!LoseDelete(d) PROVE Invite!TypeOK'
  BY <1>t, <1>12 DEF Invite!RunDelete, Invite!LoseDelete, Invite!TypeOK
<1>13. ASSUME NEW c \in Codes, Invite!CleanUp(c) PROVE Invite!TypeOK'
  BY <1>t, <1>13 DEF Invite!CleanUp, Invite!TypeOK
<1>q. QED
  BY <1>1, <1>2, <1>3, <1>4, <1>5, <1>6, <1>7, <1>8, <1>9, <1>10, <1>11, <1>12, <1>13
     DEF Invite!Next

\* One room per object, and the present one is the latest.
LEMMA PresentRoomsStay == ASSUME Invite!IInv, Invite!Next PROVE Invite!PresentRooms'
<1>t. /\ rooms \in [Rooms -> Invite!Saved \cup {None}] /\ opened \in [Rooms -> Nat] /\ Invite!TypeOK
      /\ \A o \in Rooms : rooms[o] # None => rooms[o].born = opened[o] /\ rooms[o] \in Invite!Saved
  BY DEF Invite!IInv, Invite!TypeOK, Invite!PresentRooms
<1>1. ASSUME NEW o \in Rooms, NEW c \in Codes, Invite!Open(o, c) PROVE Invite!PresentRooms'
  BY <1>t, <1>1 DEF Invite!Open, Invite!PresentRooms
<1>2. ASSUME NEW o \in Rooms, NEW c \in Codes, Invite!Rotate(o, c) PROVE Invite!PresentRooms'
  BY <1>t, <1>2 DEF Invite!Rotate, Invite!Active, Invite!PresentRooms, Invite!Saved
<1>3. ASSUME NEW o \in Rooms, Invite!Close(o) PROVE Invite!PresentRooms'
  BY <1>t, <1>3 DEF Invite!Close, Invite!PresentRooms
<1>4. ASSUME NEW h \in handlers, Invite!GiveUp(h) PROVE Invite!PresentRooms'
  <2>1. opened' = opened /\ \A o \in Rooms : rooms'[o] # None => rooms'[o] = rooms[o]
    BY <1>t, <1>4, HandlerTypes DEF Invite!GiveUp
  <2>2. QED
    BY <1>t, <2>1 DEF Invite!PresentRooms
<1>5. ASSUME NEW h \in handlers, NEW c \in Codes, Invite!Retry(h, c) PROVE Invite!PresentRooms'
  <2>1. rooms[h.object] # None /\ h.object \in Rooms
    BY <1>t, <1>5, HandlerTypes DEF Invite!Retry, Invite!Present, Invite!Active
  <2>2. QED
    BY <1>t, <1>5, <2>1 DEF Invite!Retry, Invite!PresentRooms, Invite!Saved
<1>6. CASE UNCHANGED <<rooms, opened>>
  BY <1>t, <1>6 DEF Invite!PresentRooms
<1>7. QED
  BY <1>1, <1>2, <1>3, <1>4, <1>5, <1>6 DEF Invite!Next, Invite!Reopen, Invite!Expire,
     Invite!Send, Invite!Execute,
     Invite!Registered, Invite!Fail, Invite!RunDelete, Invite!LoseDelete, Invite!CleanUp

\* No statement takes away what is registered for a room that stands: not the
\* upsert of another registration, not a DELETE, not the cleaning up.
LEMMA TableKeepsHomes ==
    ASSUME Invite!IInv, Invite!Next, NEW o \in Rooms, Invite!Active(o), NEW c \in Codes,
           kv[c] = Invite!HomeOf(o)
    PROVE  kv'[c] = kv[c]
<1>t. /\ kv \in [Codes -> Invite!Entry \cup {None}] /\ Invite!TypeOK /\ handlers \subseteq Invite!Handler
      /\ rooms[o] # None /\ rooms[o].born = opened[o] /\ <<o, opened[o]>> \notin over
      /\ rooms[o].born \in Nat /\ rooms[o].gen \in Nat
  BY DEF Invite!IInv, Invite!TypeOK, Invite!PresentRooms, Invite!Active, Invite!Saved
<1>a. Invite!HomeOf(o) # None /\ <<kv[c].object, kv[c].born>> \notin over
  BY <1>t, InviteAssumption DEF Invite!HomeOf, Invite!Entry
<1>1. ASSUME NEW h \in handlers, Invite!Execute(h) PROVE kv'[c] = kv[c]
  <2>1. CASE Invite!Takeable(h) /\ h.invite = c
    <3>1. kv[c] = [object |-> h.object, born |-> h.born, gen |-> h.gen]
      BY <1>a, <2>1 DEF Invite!Takeable
    <3>2. QED
      BY <1>t, <1>1, <2>1, <3>1 DEF Invite!Execute
  <2>2. CASE ~(Invite!Takeable(h) /\ h.invite = c)
    BY <1>t, <1>1, <2>2 DEF Invite!Execute
  <2>3. QED
    BY <2>1, <2>2
<1>2. ASSUME NEW d \in deletes, Invite!RunDelete(d) PROVE kv'[c] = kv[c]
  <2>1. CASE d.code = c
    <3>1. ASSUME Invite!Deletes(d) PROVE FALSE
      <4>1. d.object = o /\ d.born = opened[o] /\ d.gen = rooms[o].gen
        BY <1>t, <2>1, <3>1 DEF Invite!Deletes, Invite!HomeOf
      <4>2. d.gen < rooms[o].gen
        BY <1>t, <4>1 DEF Invite!IInv, Invite!DeletesComeLate
      <4>3. QED
        BY <1>t, <4>1, <4>2
    <3>2. QED
      BY <1>2, <3>1 DEF Invite!RunDelete
  <2>2. CASE d.code # c
    BY <1>t, <1>2, <2>2 DEF Invite!RunDelete
  <2>3. QED
    BY <2>1, <2>2
<1>3. ASSUME NEW e \in Codes, Invite!CleanUp(e) PROVE kv'[c] = kv[c]
  BY <1>t, <1>a, <1>3 DEF Invite!CleanUp
<1>4. CASE kv' = kv
  BY <1>4
<1>5. QED
  BY <1>1, <1>2, <1>3, <1>4 DEF Invite!Next, Invite!Open, Invite!Reopen, Invite!Rotate,
     Invite!Close, Invite!Expire,
     Invite!Send, Invite!Registered, Invite!GiveUp, Invite!Fail, Invite!Retry, Invite!LoseDelete

\* Only an answer about the present generation tells the host; whatever changes
\* the code, or opens a room, takes it back.
LEMMA AnnouncedStay == ASSUME Invite!IInv, Invite!Next PROVE Invite!AnnouncedAreRegistered'
<1>t. /\ rooms \in [Rooms -> Invite!Saved \cup {None}] /\ opened \in [Rooms -> Nat] /\ told \in [Rooms -> BOOLEAN]
      /\ handlers \subseteq Invite!Handler /\ Invite!TypeOK
  BY DEF Invite!IInv, Invite!TypeOK
<1> SUFFICES ASSUME NEW o \in Rooms, Invite!Active(o)', told'[o]
             PROVE  kv'[rooms'[o].invite] = Invite!HomeOf(o)'
  BY DEF Invite!AnnouncedAreRegistered
<1> DEFINE Stays == told[o] /\ rooms'[o] = rooms[o] /\ opened'[o] = opened[o]
           News  == \E h \in handlers : Invite!Registered(h) /\ h.object = o /\ h.gen = rooms[o].gen
<1>1. ASSUME Stays PROVE kv'[rooms'[o].invite] = Invite!HomeOf(o)'
  <2>1. over \subseteq over'
    BY DEF Invite!Next, Invite!Open, Invite!Reopen, Invite!Rotate, Invite!Close,
       Invite!Expire, Invite!Send,
       Invite!Execute, Invite!Registered, Invite!GiveUp, Invite!Fail, Invite!Retry, Invite!RunDelete,
       Invite!LoseDelete, Invite!CleanUp
  <2>2. Invite!Active(o)
    BY <1>1, <2>1 DEF Invite!Active
  <2>3. rooms[o].invite \in Codes /\ kv[rooms[o].invite] = Invite!HomeOf(o)
    BY <1>t, <1>1, <2>2 DEF Invite!IInv, Invite!AnnouncedAreRegistered, Invite!Active,
       Invite!Saved
  <2>4. kv'[rooms[o].invite] = kv[rooms[o].invite]
    BY <2>2, <2>3, TableKeepsHomes
  <2>5. Invite!HomeOf(o)' = Invite!HomeOf(o)
    BY <1>1 DEF Invite!HomeOf
  <2>6. QED
    BY <1>1, <2>3, <2>4, <2>5, SMTT(30)
<1>2. ASSUME News PROVE kv'[rooms'[o].invite] = Invite!HomeOf(o)'
  <2>1. PICK h \in handlers : Invite!Registered(h) /\ h.object = o /\ h.gen = rooms[o].gen
    BY <1>2
  <2>2. h.phase = "done" /\ h.changes /\ Invite!Present(h) /\ rooms[o].invite = h.invite
    BY <2>1 DEF Invite!Registered, Invite!Accepted
  <2>3. kv[h.invite] = [object |-> h.object, born |-> h.born, gen |-> h.gen]
    BY <2>1, <2>2 DEF Invite!IInv, Invite!AnswersAreTrue
  <2>4. h.born = rooms[o].born
    BY <2>1, <2>2 DEF Invite!Present
  <2>5. rooms' = rooms /\ kv' = kv
    BY <2>1 DEF Invite!Registered
  <2>6. QED
    BY <2>1, <2>2, <2>3, <2>4, <2>5 DEF Invite!HomeOf
<1>3. ASSUME NEW p \in Rooms, NEW c \in Codes, Invite!Open(p, c) PROVE Stays
  BY <1>t, <1>3 DEF Invite!Open
<1>4. ASSUME NEW p \in Rooms, NEW c \in Codes, Invite!Rotate(p, c) PROVE Stays
  BY <1>t, <1>4 DEF Invite!Rotate
<1>5. ASSUME NEW p \in Rooms, Invite!Close(p) PROVE Stays
  BY <1>t, <1>5 DEF Invite!Close, Invite!Active
<1>6. ASSUME NEW h \in handlers, Invite!Registered(h) PROVE Stays \/ News
  <2>1. CASE h.object = o
    <3>1. told[o] \/ h.gen = rooms[o].gen
      BY <1>t, <1>6, <2>1 DEF Invite!Registered
    <3>2. rooms' = rooms /\ opened' = opened
      BY <1>6 DEF Invite!Registered
    <3>3. QED
      BY <1>6, <2>1, <3>1, <3>2
  <2>2. CASE h.object # o
    BY <1>t, <1>6, <2>2 DEF Invite!Registered
  <2>3. QED
    BY <2>1, <2>2
<1>7. ASSUME NEW h \in handlers, Invite!GiveUp(h) PROVE Stays
  <2>1. opened' = opened /\ told' = told /\ (rooms'[o] = rooms[o] \/ rooms'[o] = None)
    BY <1>t, <1>7, HandlerTypes DEF Invite!GiveUp
  <2>2. QED
    BY <2>1 DEF Invite!Active
<1>8. ASSUME NEW h \in handlers, NEW c \in Codes, Invite!Retry(h, c) PROVE Stays
  <2>1. CASE rooms[h.object].invite = h.invite
    BY <1>t, <1>8, <2>1, HandlerTypes DEF Invite!Retry
  <2>2. CASE rooms[h.object].invite # h.invite
    BY <1>t, <1>8, <2>2 DEF Invite!Retry
  <2>3. QED
    BY <2>1, <2>2
<1>9. ASSUME UNCHANGED <<rooms, opened, told>> PROVE Stays
  BY <1>9
<1>10. QED
  <2> HIDE DEF Stays, News
  <2>1. Stays \/ News
    <3>1. CASE UNCHANGED <<rooms, opened, told>>
      BY <1>9, <3>1 DEF Stays
    <3>2. CASE ~UNCHANGED <<rooms, opened, told>>
      BY <1>3, <1>4, <1>5, <1>6, <1>7, <1>8, <3>2 DEF Invite!Next, Invite!Reopen,
         Invite!Expire, Invite!Send,
         Invite!Execute, Invite!Fail, Invite!RunDelete, Invite!LoseDelete, Invite!CleanUp
    <3>3. QED
      BY <3>1, <3>2
  <2>2. QED
    BY <1>1, <1>2, <2>1

\* Handlers of earlier rooms and generations are known for what they are.
LEMMA HandlersStayLater == ASSUME Invite!IInv, Invite!Next PROVE Invite!HandlersComeLater'
<1>t. /\ rooms \in [Rooms -> Invite!Saved \cup {None}] /\ opened \in [Rooms -> Nat]
      /\ handlers \subseteq Invite!Handler /\ Invite!TypeOK
      /\ \A o \in Rooms : opened[o] \in Nat
      /\ \A o \in Rooms : rooms[o] # None =>
           /\ rooms[o].born = opened[o] /\ rooms[o] \in Invite!Saved
           /\ rooms[o].gen \in Nat /\ rooms[o].invite \in Codes
  BY DEF Invite!IInv, Invite!TypeOK, Invite!PresentRooms, Invite!Saved
<1> DEFINE Later(h) ==
      /\ h.born <= opened[h.object]
      /\ h.phase # "ready" => h.invite \in Codes
      /\ rooms[h.object] # None /\ h.born = opened[h.object] =>
           /\ h.gen <= rooms[h.object].gen
           /\ h.previous # None => h.previous.gen < rooms[h.object].gen
<1>l. \A h \in handlers : Later(h)
  BY DEF Invite!IInv, Invite!HandlersComeLater
<1>s. ASSUME \A h \in handlers' : Later(h)' PROVE Invite!HandlersComeLater'
  BY <1>s DEF Invite!HandlersComeLater
<1>1. ASSUME NEW o \in Rooms, NEW c \in Codes, Invite!Open(o, c), NEW h \in handlers' PROVE Later(h)'
  <2>1. /\ opened' = [opened EXCEPT ![o] = @ + 1]
        /\ rooms' = [rooms EXCEPT ![o] = [invite |-> c, born |-> opened'[o], gen |-> 0]]
        /\ h \in handlers \/ h = Invite!Registering(o, None)
    BY <1>1 DEF Invite!Open
  <2>2. CASE h \in handlers
    BY <1>t, <1>l, <2>1, <2>2, HandlerTypes
  <2>3. CASE h = Invite!Registering(o, None)
    BY <1>t, <2>1, <2>3 DEF Invite!Registering
  <2>4. QED
    BY <2>1, <2>2, <2>3
<1>2. ASSUME NEW o \in Rooms, Invite!Reopen(o), NEW h \in handlers' PROVE Later(h)'
  <2>1. /\ opened' = opened /\ rooms' = rooms /\ rooms[o] # None
        /\ h \in handlers \/ h = Invite!Registering(o, None)
    BY <1>2 DEF Invite!Reopen, Invite!Active
  <2>2. CASE h = Invite!Registering(o, None)
    BY <1>t, <2>1, <2>2 DEF Invite!Registering
  <2>3. QED
    BY <1>l, <2>1, <2>2
<1>3. ASSUME NEW o \in Rooms, NEW c \in Codes, Invite!Rotate(o, c), NEW h \in handlers' PROVE Later(h)'
  <2>1. /\ opened' = opened /\ rooms[o] # None
        /\ rooms' = [rooms EXCEPT ![o].invite = c, ![o].gen = @ + 1]
        /\ \/ h \in handlers
           \/ h = Invite!Registering(o, [code |-> rooms[o].invite, gen |-> rooms[o].gen])
    BY <1>3 DEF Invite!Rotate, Invite!Active
  <2>2. /\ rooms'[o].gen = rooms[o].gen + 1 /\ rooms'[o] \in Invite!Saved /\ rooms[o].gen \in Nat
        /\ \A p \in Rooms \ {o} : rooms'[p] = rooms[p]
    BY <1>t, <2>1 DEF Invite!Saved
  <2>3. CASE h \in handlers
    <3>1. CASE h.object = o
      <4>1. Later(h) /\ h.gen \in Nat /\ (h.previous # None => h.previous.gen \in Nat)
        BY <1>l, <1>t, <2>3, HandlerTypes
      <4>2. QED
        BY <2>1, <2>2, <3>1, <4>1
    <3>2. CASE h.object # o
      BY <1>l, <1>t, <2>1, <2>2, <2>3, <3>2, HandlerTypes
    <3>3. QED
      BY <3>1, <3>2
  <2>4. CASE h = Invite!Registering(o, [code |-> rooms[o].invite, gen |-> rooms[o].gen])
    BY <1>t, <2>1, <2>2, <2>4 DEF Invite!Registering
  <2>5. QED
    BY <2>1, <2>3, <2>4
<1>4. ASSUME NEW o \in Rooms, Invite!Close(o), NEW h \in handlers' PROVE Later(h)'
  BY <1>l, <1>t, <1>4 DEF Invite!Close
<1>5. ASSUME NEW g \in handlers, Invite!GiveUp(g), NEW h \in handlers' PROVE Later(h)'
  <2>1. /\ opened' = opened /\ h \in handlers
        /\ h.object \in Rooms => rooms'[h.object] = rooms[h.object] \/ rooms'[h.object] = None
    BY <1>t, <1>5, HandlerTypes DEF Invite!GiveUp
  <2>2. QED
    BY <1>l, <1>t, <2>1, HandlerTypes
<1>6. ASSUME NEW g \in handlers, NEW c \in Codes, Invite!Retry(g, c), NEW h \in handlers' PROVE Later(h)'
  <2>1. rooms[g.object] # None /\ g.object \in Rooms
    BY <1>t, <1>6, HandlerTypes DEF Invite!Retry, Invite!Present, Invite!Active
  <2>2. /\ opened' = opened
        /\ \A o \in Rooms : /\ rooms[o] = None => rooms'[o] = None
                            /\ rooms[o] # None => rooms'[o].gen = rooms[o].gen
    BY <1>t, <1>6, <2>1 DEF Invite!Retry, Invite!Saved
  <2>3. CASE h \in handlers
    BY <1>l, <1>t, <2>2, <2>3, HandlerTypes
  <2>4. CASE h \notin handlers
    <3>1. h = Invite!Ready(g)
      BY <1>6, <2>4 DEF Invite!Retry, Invite!Again
    <3>2. /\ h.object = g.object /\ h.born = g.born /\ h.phase = "ready" /\ h.gen = 0
          /\ h.previous = g.previous
      BY <1>t, <3>1, HandlerTypes DEF Invite!Ready, Invite!Handler
    <3>3. Later(g)
      BY <1>l
    <3>4. QED
      BY <1>t, <2>1, <2>2, <3>2, <3>3
  <2>5. QED
    BY <2>3, <2>4
<1>7. ASSUME NEW g \in handlers, Invite!Send(g), NEW h \in handlers' PROVE Later(h)'
  <2>1. UNCHANGED <<rooms, opened>> /\ rooms[g.object] # None /\ Later(g)
    BY <1>l, <1>7 DEF Invite!Send, Invite!Present, Invite!Active
  <2>2. CASE h \in handlers
    BY <1>l, <2>1, <2>2
  <2>3. CASE h \notin handlers
    <3>1. h = [g EXCEPT !.phase = "sent", !.invite = rooms[g.object].invite, !.gen = rooms[g.object].gen]
      BY <1>7, <2>3 DEF Invite!Send
    <3>2. /\ h.object = g.object /\ h.born = g.born /\ h.gen = rooms[g.object].gen
          /\ h.invite = rooms[g.object].invite /\ h.previous = g.previous
      BY <1>t, <3>1, HandlerTypes DEF Invite!Handler
    <3>3. QED
      BY <1>t, <2>1, <3>2, HandlerTypes
  <2>4. QED
    BY <2>2, <2>3
<1>8. ASSUME NEW g \in handlers, Invite!Execute(g), NEW h \in handlers' PROVE Later(h)'
  <2>1. UNCHANGED <<rooms, opened>> /\ Later(g) /\ g.phase = "sent"
    BY <1>l, <1>8 DEF Invite!Execute
  <2>2. CASE h \in handlers
    BY <1>l, <2>1, <2>2
  <2>3. CASE h \notin handlers
    <3>1. h = [g EXCEPT !.phase = "done", !.changes = Invite!Takeable(g)]
      BY <1>8, <2>3 DEF Invite!Execute
    <3>2. /\ h.object = g.object /\ h.born = g.born /\ h.gen = g.gen
          /\ h.invite = g.invite /\ h.previous = g.previous
      BY <1>t, <3>1, HandlerTypes DEF Invite!Handler
    <3>3. QED
      BY <2>1, <3>2
  <2>4. QED
    BY <2>2, <2>3
<1>9. ASSUME UNCHANGED <<rooms, opened>>, handlers' \subseteq handlers, NEW h \in handlers' PROVE Later(h)'
  BY <1>l, <1>9
<1>10. QED
  <2> HIDE DEF Later
  <2>1. \A h \in handlers' : Later(h)'
    BY <1>1, <1>2, <1>3, <1>4, <1>5, <1>6, <1>7, <1>8, <1>9 DEF Invite!Next, Invite!Expire,
       Invite!Registered,
       Invite!Fail, Invite!RunDelete, Invite!LoseDelete, Invite!CleanUp
  <2>2. QED
    BY <1>s, <2>1

\* The DELETE that is sent is one of a room that is no more or of a code that has
\* been replaced.
LEMMA DeletesStayLate == ASSUME Invite!IInv, Invite!Next PROVE Invite!DeletesComeLate'
<1>t. /\ rooms \in [Rooms -> Invite!Saved \cup {None}] /\ opened \in [Rooms -> Nat]
      /\ handlers \subseteq Invite!Handler /\ deletes \subseteq Invite!Delete /\ Invite!TypeOK
      /\ \A o \in Rooms : opened[o] \in Nat
      /\ \A o \in Rooms : rooms[o] # None =>
           rooms[o].born = opened[o] /\ rooms[o] \in Invite!Saved /\ rooms[o].gen \in Nat
      /\ \A d \in deletes : d.object \in Rooms /\ d.born \in Nat /\ d.gen \in Nat
  BY DEF Invite!IInv, Invite!TypeOK, Invite!PresentRooms, Invite!Saved, Invite!Delete
<1> DEFINE Late(d) == /\ d.born <= opened[d.object]
                      /\ rooms[d.object] # None /\ d.born = opened[d.object] => d.gen < rooms[d.object].gen
<1>l. \A d \in deletes : Late(d)
  BY DEF Invite!IInv, Invite!DeletesComeLate
<1>s. ASSUME \A d \in deletes' : Late(d)' PROVE Invite!DeletesComeLate'
  BY <1>s DEF Invite!DeletesComeLate
<1>1. ASSUME NEW o \in Rooms, NEW c \in Codes, Invite!Open(o, c), NEW d \in deletes' PROVE Late(d)'
  <2>1. /\ opened' = [opened EXCEPT ![o] = @ + 1]
        /\ \A p \in Rooms \ {o} : rooms'[p] = rooms[p]
    BY <1>t, <1>1 DEF Invite!Open
  <2>2. CASE d \in deletes
    BY <1>t, <1>l, <2>1, <2>2
  <2>3. CASE d \notin deletes
    <3>1. rooms[o] # None /\ Invite!Closing(o)
      BY <1>1, <2>3 DEF Invite!Open
    <3>2. d.object = o /\ d.born = rooms[o].born
      BY <1>t, <2>3, <3>1, ClosingSends
    <3>3. QED
      BY <1>t, <2>1, <3>1, <3>2
  <2>4. QED
    BY <2>2, <2>3
<1>2. ASSUME NEW o \in Rooms, NEW c \in Codes, Invite!Rotate(o, c), NEW d \in deletes' PROVE Late(d)'
  <2>1. /\ opened' = opened /\ rooms[o] # None /\ d \in deletes
        /\ rooms' = [rooms EXCEPT ![o].invite = c, ![o].gen = @ + 1]
    BY <1>2 DEF Invite!Rotate, Invite!Active
  <2>2. /\ rooms'[o].gen = rooms[o].gen + 1
        /\ \A p \in Rooms \ {o} : rooms'[p] = rooms[p]
    BY <1>t, <2>1 DEF Invite!Saved
  <2>3. CASE d.object = o
    BY <1>t, <1>l, <2>1, <2>2, <2>3
  <2>4. CASE d.object # o
    BY <1>t, <1>l, <2>1, <2>2, <2>4
  <2>5. QED
    BY <2>3, <2>4
<1>3. ASSUME NEW o \in Rooms, rooms[o] # None, Invite!Closing(o), opened' = opened,
             rooms' = [rooms EXCEPT ![o] = None], NEW d \in deletes' PROVE Late(d)'
  <2>1. d \in deletes \/ (d.object = o /\ d.born = rooms[o].born)
    BY <1>t, <1>3, ClosingSends
  <2>2. CASE d \in deletes
    BY <1>t, <1>l, <1>3, <2>2
  <2>3. CASE d.object = o /\ d.born = rooms[o].born
    BY <1>t, <1>3, <2>3
  <2>4. QED
    BY <2>1, <2>2, <2>3
<1>4. ASSUME NEW h \in handlers, Invite!Registered(h), NEW d \in deletes' PROVE Late(d)'
  <2>1. /\ UNCHANGED <<rooms, opened>> /\ h.object \in Rooms /\ rooms[h.object] # None
        /\ rooms[h.object].born = h.born
    BY <1>t, <1>4, HandlerTypes DEF Invite!Registered, Invite!Present, Invite!Active
  <2>2. CASE d \in deletes
    BY <1>l, <2>1, <2>2
  <2>3. CASE d \notin deletes
    <3>1. /\ h.previous # None
          /\ d = [code |-> h.previous.code, object |-> h.object, born |-> h.born, gen |-> h.previous.gen]
      BY <1>4, <2>3 DEF Invite!Registered
    <3>2. h.previous.gen < rooms[h.object].gen
      BY <1>t, <2>1, <3>1 DEF Invite!IInv, Invite!HandlersComeLater
    <3>3. QED
      BY <1>t, <2>1, <3>1, <3>2
  <2>4. QED
    BY <2>2, <2>3
<1>5. ASSUME NEW h \in handlers, NEW c \in Codes, Invite!Retry(h, c), NEW d \in deletes' PROVE Late(d)'
  <2>1. rooms[h.object] # None /\ h.object \in Rooms /\ d \in deletes
    BY <1>t, <1>5, HandlerTypes DEF Invite!Retry, Invite!Present, Invite!Active
  <2>2. /\ opened' = opened
        /\ \A o \in Rooms : /\ rooms[o] = None => rooms'[o] = None
                            /\ rooms[o] # None => rooms'[o].gen = rooms[o].gen
    BY <1>t, <1>5, <2>1 DEF Invite!Retry, Invite!Saved
  <2>3. QED
    BY <1>t, <1>l, <2>1, <2>2
<1>6. ASSUME UNCHANGED <<rooms, opened>>, deletes' \subseteq deletes, NEW d \in deletes' PROVE Late(d)'
  BY <1>l, <1>6
<1>7. ASSUME NEW o \in Rooms, Invite!Close(o), NEW d \in deletes' PROVE Late(d)'
  BY <1>3, <1>7 DEF Invite!Close
<1>8. ASSUME NEW h \in handlers, Invite!GiveUp(h), NEW d \in deletes' PROVE Late(d)'
  <2>1. h.object \in Rooms /\ opened' = opened
    BY <1>t, <1>8, HandlerTypes DEF Invite!GiveUp
  <2>2. CASE rooms[h.object] # None /\ ~Invite!Active(h.object)
    BY <1>3, <1>8, <2>1, <2>2 DEF Invite!GiveUp
  <2>3. CASE ~(rooms[h.object] # None /\ ~Invite!Active(h.object))
    BY <1>6, <1>8, <2>3 DEF Invite!GiveUp
  <2>4. QED
    BY <2>2, <2>3
<1>9. QED
  <2> HIDE DEF Late
  <2>1. \A d \in deletes' : Late(d)'
    BY <1>1, <1>2, <1>4, <1>5, <1>6, <1>7, <1>8 DEF Invite!Next, Invite!Reopen,
       Invite!Expire, Invite!Send,
       Invite!Execute, Invite!Fail, Invite!RunDelete, Invite!LoseDelete, Invite!CleanUp
  <2>2. QED
    BY <1>s, <2>1

\* A registration that succeeded for the present generation stands until the
\* room is replaced or its code is.
LEMMA AnswersStayTrue == ASSUME Invite!IInv, Invite!Next PROVE Invite!AnswersAreTrue'
<1>t. /\ rooms \in [Rooms -> Invite!Saved \cup {None}] /\ opened \in [Rooms -> Nat]
      /\ kv \in [Codes -> Invite!Entry \cup {None}]
      /\ handlers \subseteq Invite!Handler /\ Invite!TypeOK
      /\ \A o \in Rooms : opened[o] \in Nat
      /\ \A o \in Rooms : rooms[o] # None =>
           rooms[o].born = opened[o] /\ rooms[o] \in Invite!Saved /\ rooms[o].gen \in Nat
  BY DEF Invite!IInv, Invite!TypeOK, Invite!PresentRooms, Invite!Saved
<1> DEFINE Good(h) == h.phase = "done" /\ h.changes /\ Invite!Present(h) /\ h.gen = rooms[h.object].gen
           Its(h)  == [object |-> h.object, born |-> h.born, gen |-> h.gen]
<1> SUFFICES ASSUME NEW h \in handlers', Good(h)' PROVE kv'[h.invite] = Its(h)
  BY SMTT(30) DEF Invite!AnswersAreTrue
<1>o. over \subseteq over'
  BY DEF Invite!Next, Invite!Open, Invite!Reopen, Invite!Rotate, Invite!Close,
     Invite!Expire, Invite!Send,
     Invite!Execute, Invite!Registered, Invite!GiveUp, Invite!Fail, Invite!Retry, Invite!RunDelete,
     Invite!LoseDelete, Invite!CleanUp
<1>1. ASSUME h \in handlers, Good(h) PROVE kv'[h.invite] = Its(h)
  <2>1. h.invite \in Codes
    BY <1>1 DEF Invite!IInv, Invite!HandlersComeLater
  <2>2. kv[h.invite] = Its(h)
    BY <1>1 DEF Invite!IInv, Invite!AnswersAreTrue
  <2>3. h.object \in Rooms /\ Invite!Active(h.object) /\ Its(h) = Invite!HomeOf(h.object)
    BY <1>1, <1>t, HandlerTypes DEF Invite!HomeOf, Invite!Present
  <2>4. kv'[h.invite] = kv[h.invite]
    BY <2>1, <2>2, <2>3, TableKeepsHomes
  <2>5. QED
    BY <2>2, <2>4
<1>2. ASSUME NEW g \in handlers, Invite!Execute(g), h \notin handlers PROVE kv'[h.invite] = Its(h)
  <2>1. h = [g EXCEPT !.phase = "done", !.changes = Invite!Takeable(g)]
    BY <1>2 DEF Invite!Execute
  <2>2. /\ h.object = g.object /\ h.born = g.born /\ h.gen = g.gen
        /\ h.invite = g.invite /\ h.changes = Invite!Takeable(g)
    BY <1>t, <2>1, HandlerTypes DEF Invite!Handler
  <2>3. Invite!Takeable(g)
    BY <2>2
  <2>4. h.invite \in Codes
    BY <1>2, <2>2 DEF Invite!IInv, Invite!HandlersComeLater, Invite!Execute
  <2>5. QED
    BY <1>t, <1>2, <2>2, <2>3, <2>4 DEF Invite!Execute
\* Other steps make no handler "done".
<1>3. ASSUME \A g \in handlers : ~Invite!Execute(g) PROVE h \in handlers
  <2>1. ASSUME NEW o \in Rooms, Invite!Reopen(o) \/ \E c \in Codes : Invite!Open(o, c) \/ Invite!Rotate(o, c)
        PROVE  h \in handlers
    <3>1. PICK p : h \in handlers \/ h = Invite!Registering(o, p)
      BY <2>1 DEF Invite!Open, Invite!Rotate, Invite!Reopen
    <3>2. Invite!Registering(o, p).phase = "ready"
      BY DEF Invite!Registering
    <3>3. QED
      BY <3>1, <3>2
  <2>2. ASSUME NEW g \in handlers, Invite!Send(g) PROVE h \in handlers
    <3>1. [g EXCEPT !.phase = "sent", !.invite = rooms[g.object].invite, !.gen = rooms[g.object].gen].phase = "sent"
      BY <1>t DEF Invite!Handler
    <3>2. QED
      BY <2>2, <3>1 DEF Invite!Send
  <2>3. ASSUME NEW g \in handlers, NEW c \in Codes, Invite!Retry(g, c) PROVE h \in handlers
    <3>1. Invite!Ready(g).phase = "ready"
      BY <1>t DEF Invite!Ready, Invite!Handler
    <3>2. QED
      BY <2>3, <3>1 DEF Invite!Retry, Invite!Again
  <2>4. ASSUME handlers' \subseteq handlers PROVE h \in handlers
    BY <2>4
  <2>5. QED
    BY <1>3, <2>1, <2>2, <2>3, <2>4 DEF Invite!Next, Invite!Close, Invite!Expire,
       Invite!Registered, Invite!GiveUp,
       Invite!Fail, Invite!RunDelete, Invite!LoseDelete, Invite!CleanUp
\* What it is about was so before.
<1>4. ASSUME h \in handlers PROVE Good(h)
  <2>1. /\ h.object \in Rooms /\ h.born <= opened[h.object] /\ h.born \in Nat /\ h.gen \in Nat
        /\ rooms[h.object] # None /\ h.born = opened[h.object] => h.gen <= rooms[h.object].gen
    BY <1>4, HandlerTypes, <1>t DEF Invite!IInv, Invite!HandlersComeLater
  <2>2. Invite!PresentRooms'
    BY PresentRoomsStay
  <2>3. rooms'[h.object] # None /\ h.born = rooms'[h.object].born /\ h.born = opened'[h.object]
    BY <2>1, <2>2, SMTT(30) DEF Invite!Present, Invite!Active, Invite!PresentRooms
  <2>4. \/ rooms'[h.object] = rooms[h.object] /\ opened'[h.object] = opened[h.object]
        \/ opened'[h.object] = opened[h.object] + 1
        \/ /\ opened'[h.object] = opened[h.object] /\ rooms[h.object] # None
           /\ rooms'[h.object].gen = rooms[h.object].gen
        \/ /\ opened'[h.object] = opened[h.object] /\ rooms[h.object] # None
           /\ rooms'[h.object].gen = rooms[h.object].gen + 1
    <3>1. ASSUME NEW o \in Rooms, NEW c \in Codes, Invite!Open(o, c)
          PROVE  \/ rooms'[h.object] = rooms[h.object] /\ opened'[h.object] = opened[h.object]
                 \/ opened'[h.object] = opened[h.object] + 1
      BY <1>t, <2>1, <3>1 DEF Invite!Open
    <3>2. ASSUME NEW o \in Rooms, NEW c \in Codes, Invite!Rotate(o, c)
          PROVE  \/ rooms'[h.object] = rooms[h.object] /\ opened'[h.object] = opened[h.object]
                 \/ /\ opened'[h.object] = opened[h.object] /\ rooms[h.object] # None
                    /\ rooms'[h.object].gen = rooms[h.object].gen + 1
      BY <1>t, <2>1, <3>2 DEF Invite!Rotate, Invite!Active, Invite!Saved
    <3>3. ASSUME NEW g \in handlers, NEW c \in Codes, Invite!Retry(g, c)
          PROVE  \/ rooms'[h.object] = rooms[h.object] /\ opened'[h.object] = opened[h.object]
                 \/ /\ opened'[h.object] = opened[h.object] /\ rooms[h.object] # None
                    /\ rooms'[h.object].gen = rooms[h.object].gen
      <4>1. g.object \in Rooms /\ rooms[g.object] # None /\ opened' = opened
        BY <1>t, <3>3, HandlerTypes DEF Invite!Retry, Invite!Present, Invite!Active
      <4>2. QED
        BY <1>t, <2>1, <3>3, <4>1 DEF Invite!Retry, Invite!Saved
    <3>4. ASSUME NEW o \in Rooms, Invite!Close(o)
          PROVE  rooms'[h.object] = rooms[h.object] /\ opened'[h.object] = opened[h.object]
      BY <1>t, <2>1, <2>3, <3>4 DEF Invite!Close
    <3>5. ASSUME NEW g \in handlers, Invite!GiveUp(g)
          PROVE  rooms'[h.object] = rooms[h.object] /\ opened'[h.object] = opened[h.object]
      BY <1>t, <2>1, <2>3, <3>5, HandlerTypes DEF Invite!GiveUp
    <3>6. CASE UNCHANGED <<rooms, opened>>
      BY <3>6
    <3>7. QED
      BY <3>1, <3>2, <3>3, <3>4, <3>5, <3>6 DEF Invite!Next, Invite!Reopen, Invite!Expire,
         Invite!Send,
         Invite!Execute, Invite!Registered, Invite!Fail, Invite!RunDelete, Invite!LoseDelete, Invite!CleanUp
  <2>5. opened'[h.object] = opened[h.object] /\ rooms[h.object] # None /\ rooms'[h.object].gen = rooms[h.object].gen
    BY <1>t, <2>1, <2>3, <2>4
  <2>6. Invite!Active(h.object) /\ rooms[h.object].born = h.born
    BY <1>t, <1>o, <2>1, <2>3, <2>5 DEF Invite!Present, Invite!Active
  <2>7. QED
    BY <2>5, <2>6 DEF Invite!Present
<1>5. QED
  <2> HIDE DEF Good, Its
  <2>1. CASE h \in handlers
    BY <1>1, <1>4, <2>1
  <2>2. CASE h \notin handlers
    BY <1>2, <1>3, <2>2
  <2>3. QED
    BY <2>1, <2>2

\* The invariant of the codes is inductive.
LEMMA InviteStep == ASSUME Invite!IInv, Invite!Next PROVE Invite!IInv'
<1>1. Invite!TypeOK'
  BY InviteTypes DEF Invite!IInv
<1>2. QED
  BY <1>1, PresentRoomsStay, AnnouncedStay, AnswersStayTrue, HandlersStayLater,
     DeletesStayLate DEF Invite!IInv

\* And says where an announced code leads.
LEMMA HomesAreLed == Invite!IInv => Invite!AnnouncedLeadsHome
<1> SUFFICES ASSUME Invite!IInv, NEW o \in Rooms, Invite!Active(o), told[o]
             PROVE  Invite!Leads(rooms[o].invite) = o
  BY DEF Invite!AnnouncedLeadsHome
<1>1. /\ kv[rooms[o].invite] = Invite!HomeOf(o) /\ rooms[o].born = opened[o]
      /\ rooms[o].invite \in Codes /\ kv \in [Codes -> Invite!Entry \cup {None}]
      /\ rooms[o].born \in Nat /\ rooms[o].gen \in Nat
  BY DEF Invite!IInv, Invite!TypeOK, Invite!AnnouncedAreRegistered, Invite!PresentRooms,
     Invite!Active, Invite!Saved
<1>2. Invite!HomeOf(o) \in Invite!Entry
  BY <1>1 DEF Invite!HomeOf, Invite!Entry
<1>3. kv[rooms[o].invite] # None
  BY <1>1, <1>2, InviteAssumption
<1>4. QED
  BY <1>1, <1>3 DEF Invite!Leads, Invite!HomeOf, Invite!Active

-----------------------------------------------------------------------------
(* The queue.                                                              *)

LEMMA LeastNat == ASSUME NEW T \in SUBSET Nat, T # {} PROVE \E n \in T : \A m \in T : n <= m
<1> DEFINE R == {ss \in Nat \X Nat : ss[1] < ss[2]}
<1>1. IsWellFoundedOn(R, Nat)
  BY NatLessThanWellFounded DEF OpToRel
<1> HIDE DEF R
<1>2. \E n \in T : \A m \in T : ~(<<m, n>> \in R)
  BY <1>1, WFMin
<1>3. PICK n \in T : \A m \in T : ~(<<m, n>> \in R)
  BY <1>2
<1>4. ASSUME NEW m \in T PROVE n <= m
  <2>1. <<m, n>> \in Nat \X Nat /\ ~(<<m, n>> \in R)
    BY <1>3
  <2>2. ~(m < n)
    BY <2>1 DEF R
  <2>3. QED
    BY <2>2
<1>5. QED
  BY <1>4

\* There is a first request wherever there is one, whatever the mode.
LEMMA FirstExists ==
    ASSUME NEW mode, NEW served \in [People -> Nat], NEW items \in SUBSET Item, items # {},
           \A i, j \in items : i.seq = j.seq => i = j
    PROVE  /\ First(mode, served, items) \in items
           /\ \A j \in items \ {First(mode, served, items)} :
                 Before(mode, served, First(mode, served, items), j)
<1>t. \A i \in items : i.by \in People /\ i.seq \in Nat /\ served[i.by] \in Nat
  BY DEF Item
<1>1. \E i \in items : \A j \in items \ {i} : Before(mode, served, i, j)
  <2>1. CASE mode = "fair"
    <3> DEFINE S == {served[i.by] : i \in items}
    <3>1. S \in SUBSET Nat /\ S # {}
      BY <1>t
    <3>2. PICK s \in S : \A m \in S : s <= m
      BY <3>1, LeastNat
    <3> DEFINE T == {i.seq : i \in {k \in items : served[k.by] = s}}
    <3>3. T \in SUBSET Nat /\ T # {}
      BY <1>t, <3>2
    <3>4. PICK n \in T : \A m \in T : n <= m
      BY <3>3, LeastNat
    <3>5. PICK i \in items : served[i.by] = s /\ i.seq = n
      BY <3>4
    <3>6. ASSUME NEW j \in items \ {i} PROVE Before(mode, served, i, j)
      <4>1. s <= served[j.by]
        BY <3>2
      <4>2. CASE served[j.by] = s
        <5>1. n <= j.seq
          BY <3>4, <4>2
        <5>2. i.seq # j.seq
          OBVIOUS
        <5>3. i.seq < j.seq
          BY <1>t, <3>5, <5>1, <5>2
        <5>4. QED
          BY <3>5, <4>2, <5>3 DEF Before
      <4>3. CASE served[j.by] # s
        <5>1. served[i.by] < served[j.by]
          BY <1>t, <3>5, <4>1, <4>3
        <5>2. QED
          BY <2>1, <3>5, <4>3, <5>1 DEF Before
      <4>4. QED
        BY <4>2, <4>3
    <3>7. QED
      BY <3>6
  <2>2. CASE mode # "fair"
    <3> DEFINE T == {i.seq : i \in items}
    <3>1. T \in SUBSET Nat /\ T # {}
      BY <1>t
    <3>2. PICK n \in T : \A m \in T : n <= m
      BY <3>1, LeastNat
    <3>3. PICK i \in items : i.seq = n
      BY <3>2
    <3>4. ASSUME NEW j \in items \ {i} PROVE Before(mode, served, i, j)
      <4>1. n <= j.seq /\ i.seq # j.seq
        BY <3>2
      <4>2. i.seq < j.seq
        BY <1>t, <3>3, <4>1
      <4>3. QED
        BY <2>2, <4>2 DEF Before
    <3>5. QED
      BY <3>4
  <2>3. QED
    BY <2>1, <2>2
<1>2. QED
  BY <1>1 DEF First

\* The room once i has gone on stage.
OnStage(r, i) == [r EXCEPT !.queue = @ \ {i}, !.current = [i EXCEPT !.status = "playing"],
                           !.turn = @ + 1, !.lastServed[i.by] = r.turn + 1]

\* What advance() does: nothing, because the stage is taken, nobody waits or the
\* first song is not ready; or it puts on stage a song of somebody who was served
\* no later than anybody else who waits.
LEMMA AdvanceOutcome ==
    ASSUME NEW r \in Room, Consistent(r)
    PROVE  \/ /\ Advance(r) = r
              /\ \/ r.current # None \/ Waiting(r) = {}
                 \/ \E i \in Waiting(r) : i.status = "resolving"
           \/ \E i \in Waiting(r) :
                 /\ r.current = None /\ i.status = "queued"
                 /\ r.mode = "fair" => \A j \in Waiting(r) : r.lastServed[i.by] <= r.lastServed[j.by]
                 /\ Advance(r) = OnStage(r, i)
<1>1. CASE r.current # None \/ Waiting(r) = {}
  BY <1>1 DEF Advance
<1>2. CASE r.current = None /\ Waiting(r) # {}
  <2> DEFINE i == First(r.mode, r.lastServed, Waiting(r))
  <2>1. /\ r.lastServed \in [People -> Nat] /\ r.queue \subseteq Item
        /\ Waiting(r) \in SUBSET Item /\ Waiting(r) \subseteq r.queue
    BY DEF Room, Waiting
  <2>2. \A j, k \in Waiting(r) : j.seq = k.seq => j = k
    BY <2>1 DEF Consistent
  <2>3. i \in Waiting(r) /\ \A j \in Waiting(r) \ {i} : Before(r.mode, r.lastServed, i, j)
    BY <1>2, <2>1, <2>2, FirstExists
  <2>4. Advance(r) = IF i.status # "queued" THEN r ELSE OnStage(r, i)
    BY <1>2 DEF Advance, OnStage
  <2> HIDE DEF i
  <2>5. CASE i.status = "queued"
    <3>1. ASSUME r.mode = "fair", NEW j \in Waiting(r) PROVE r.lastServed[i.by] <= r.lastServed[j.by]
      <4>1. r.lastServed[i.by] \in Nat /\ r.lastServed[j.by] \in Nat
        BY <2>1, <2>3 DEF Item
      <4>2. CASE j = i
        BY <4>1, <4>2
      <4>3. CASE j # i
        BY <2>3, <3>1, <4>1, <4>3 DEF Before
      <4>4. QED
        BY <4>2, <4>3
    <3>2. QED
      BY <1>2, <2>3, <2>4, <2>5, <3>1
  <2>6. CASE i.status # "queued"
    <3>1. i.status \in {"resolving", "queued", "failed", "playing"} /\ i \in r.queue /\ i.status # "failed"
      BY <2>1, <2>3 DEF Item, Waiting
    <3>2. i.status # "playing"
      BY <3>1 DEF Consistent
    <3>3. i.status = "resolving"
      BY <2>6, <3>1, <3>2
    <3>4. QED
      BY <2>3, <2>4, <2>6, <3>3
  <2>7. QED
    BY <2>5, <2>6
<1>3. QED
  BY <1>1, <1>2

\* A song that goes on stage leaves a room that is in order.
LEMMA OnStageIsConsistent ==
    ASSUME NEW r \in Room, Consistent(r), NEW i \in r.queue
    PROVE  OnStage(r, i) \in Room /\ Consistent(OnStage(r, i))
<1>1. /\ i \in Item /\ i.by \in People /\ i.seq \in Nat /\ r.queue \subseteq Item
      /\ r.turn \in Nat /\ r.lastServed \in [People -> Nat] /\ r.seq \in Nat
  BY DEF Room, Item
<1>2. /\ [i EXCEPT !.status = "playing"] \in Item
      /\ [i EXCEPT !.status = "playing"].seq = i.seq /\ [i EXCEPT !.status = "playing"].by = i.by
  BY <1>1 DEF Item
<1>3. [r.lastServed EXCEPT ![i.by] = r.turn + 1] \in [People -> Nat]
  BY <1>1
<1>4. OnStage(r, i) \in Room
  BY <1>1, <1>2, <1>3 DEF OnStage, Room
<1>5. /\ OnStage(r, i).queue = r.queue \ {i} /\ OnStage(r, i).current = [i EXCEPT !.status = "playing"]
      /\ OnStage(r, i).people = r.people /\ OnStage(r, i).tokens = r.tokens /\ OnStage(r, i).seq = r.seq
  BY DEF OnStage, Room
<1>6. Consistent(OnStage(r, i))
  <2>1. /\ r.tokens \subseteq r.people /\ Host \in r.people /\ i.by \in r.people /\ i.seq \in 1..r.seq
        /\ \A j \in r.queue \ {i} : /\ j.by \in r.people /\ j.seq \in 1..r.seq
                                    /\ j.status # "playing" /\ j.seq # i.seq
                                    /\ \A k \in r.queue \ {j} : k.seq # j.seq
    BY DEF Consistent
  <2>2. QED
    BY <1>2, <1>5, <2>1 DEF Consistent
<1>7. QED
  BY <1>4, <1>6

LEMMA AdvanceIsConsistent ==
    ASSUME NEW r \in Room, Consistent(r) PROVE Advance(r) \in Room /\ Consistent(Advance(r))
BY AdvanceOutcome, OnStageIsConsistent DEF Waiting

-----------------------------------------------------------------------------
(* What requests and preparations make of the room, before the next song   *)
(* goes on stage.                                                          *)

\* The room is in order; the mode and the turns are the present room's, but for
\* people who do not wait; nothing new is on stage.
Steady(r) ==
    /\ r \in Room /\ Consistent(r)
    /\ r.mode = room.mode /\ r.turn = room.turn
    /\ \A p \in People : \/ r.lastServed[p] = room.lastServed[p]
                         \/ ~Requester(room, p) /\ r.lastServed[p] = room.turn
    /\ r.current \in {None, room.current}
    /\ \A i \in r.queue : room.current # None => i.seq # room.current.seq

LEMMA RoomTypes ==
    ASSUME TypeOK, room # None
    PROVE  /\ room \in Room /\ Consistent(room)
           /\ room.gen \in Nat /\ room.turn \in Nat /\ room.seq \in Nat /\ born \in Nat
           /\ room.lastServed \in [People -> Nat] /\ room.queue \subseteq Item
           /\ room.people \subseteq People /\ room.tokens \subseteq Guests
           /\ room.current \in Item \cup {None}
           /\ \A i \in room.queue : i.seq \in Nat /\ i.by \in People /\ i \in Item
BY LimitsAssumption DEF TypeOK, Room, Item

LEMMA JoinedIsSteady ==
    ASSUME TypeOK, room # None, NEW p \in Guests, p \notin room.people
    PROVE  Steady(Joined(p))
<1>1. /\ Joined(p).people = room.people \cup {p} /\ Joined(p).tokens = room.tokens \cup {p}
      /\ Joined(p).lastServed = [room.lastServed EXCEPT ![p] = room.turn]
      /\ Joined(p).queue = room.queue /\ Joined(p).current = room.current /\ Joined(p).seq = room.seq
      /\ Joined(p).mode = room.mode /\ Joined(p).turn = room.turn
  BY RoomTypes DEF Joined, Room
<1>2. p \in People /\ [room.lastServed EXCEPT ![p] = room.turn] \in [People -> Nat]
  BY RoomTypes DEF People
<1>3. Joined(p) \in Room
  BY <1>2, RoomTypes DEF Joined, Room
<1>4. Consistent(Joined(p))
  BY <1>1, RoomTypes DEF Consistent
<1>5. ~Requester(room, p)
  BY RoomTypes DEF Requester, Waiting, Consistent
<1>6. \A q \in People : \/ Joined(p).lastServed[q] = room.lastServed[q]
                        \/ ~Requester(room, q) /\ Joined(p).lastServed[q] = room.turn
  BY <1>1, <1>2, <1>5, RoomTypes
<1>7. \A i \in room.queue : room.current # None => i.seq # room.current.seq
  BY RoomTypes DEF Consistent
<1>8. QED
  BY <1>1, <1>3, <1>4, <1>6, <1>7 DEF Steady

LEMMA EnqueuedIsSteady ==
    ASSUME TypeOK, room # None, NEW p \in room.people
    PROVE  Steady(Enqueued(p))
<1> DEFINE new == [seq |-> room.seq + 1, by |-> p, status |-> "resolving"]
<1>1. /\ Enqueued(p).people = room.people /\ Enqueued(p).tokens = room.tokens
      /\ Enqueued(p).lastServed = room.lastServed
      /\ Enqueued(p).queue = room.queue \cup {new} /\ Enqueued(p).seq = room.seq + 1
      /\ Enqueued(p).current = room.current
      /\ Enqueued(p).mode = room.mode /\ Enqueued(p).turn = room.turn
  BY RoomTypes DEF Enqueued, Room
<1>2. new \in Item /\ new.seq = room.seq + 1 /\ new.by = p /\ new.status = "resolving"
  BY RoomTypes DEF Item
<1> HIDE DEF new
<1>3. Enqueued(p) \in Room
  <2>1. room.queue \cup {new} \subseteq Item /\ room.seq + 1 \in Nat
    BY <1>2, RoomTypes
  <2>2. Enqueued(p) = [room EXCEPT !.queue = @ \cup {new}, !.seq = @ + 1]
    BY DEF Enqueued, new
  <2>3. QED
    BY <2>1, <2>2, RoomTypes DEF Room
<1>4. /\ \A i \in room.queue : i.seq \in 1..room.seq /\ i.seq # new.seq
      /\ room.current # None => room.current.seq \in 1..room.seq /\ room.current.seq # new.seq
  BY <1>2, RoomTypes DEF Consistent
<1>5. Consistent(Enqueued(p))
  <2>1. room.tokens \subseteq room.people /\ Host \in room.people
    BY RoomTypes DEF Consistent
  <2>2. ASSUME NEW i \in room.queue \cup {new} \cup ({room.current} \ {None})
        PROVE  i.by \in room.people /\ i.seq \in 1..(room.seq + 1)
    <3>1. CASE i = new
      BY <1>2, <3>1, RoomTypes
    <3>2. CASE i # new
      <4>1. i.by \in room.people /\ i.seq \in 1..room.seq
        BY <3>2, RoomTypes DEF Consistent
      <4>2. QED
        BY <4>1, RoomTypes
    <3>3. QED
      BY <3>1, <3>2
  <2>3. ASSUME NEW i \in room.queue \cup {new}
        PROVE  /\ i.status # "playing"
               /\ room.current # None => i.seq # room.current.seq
               /\ \A j \in (room.queue \cup {new}) \ {i} : j.seq # i.seq
    BY <1>2, <1>4, RoomTypes DEF Consistent
  <2>4. QED
    BY <1>1, <2>1, <2>2, <2>3 DEF Consistent
<1>6. \A i \in Enqueued(p).queue : room.current # None => i.seq # room.current.seq
  BY <1>1, <1>4, RoomTypes DEF Consistent
<1>7. QED
  BY <1>1, <1>3, <1>5, <1>6 DEF Steady

\* A song less in the queue.
LEMMA RemovedIsSteady ==
    ASSUME TypeOK, room # None, NEW S
    PROVE  Steady([room EXCEPT !.queue = @ \ S])
<1> DEFINE r == [room EXCEPT !.queue = @ \ S]
<1>1. /\ r.people = room.people /\ r.tokens = room.tokens /\ r.lastServed = room.lastServed
      /\ r.queue = room.queue \ S /\ r.seq = room.seq /\ r.current = room.current
      /\ r.mode = room.mode /\ r.turn = room.turn
  BY RoomTypes DEF Room
<1>2. r \in Room
  BY RoomTypes DEF Room
<1> HIDE DEF r
<1>3. Consistent(r)
  BY <1>1, RoomTypes DEF Consistent
<1>4. \A i \in r.queue : room.current # None => i.seq # room.current.seq
  BY <1>1, RoomTypes DEF Consistent
<1>5. Steady(r)
  BY <1>1, <1>2, <1>3, <1>4 DEF Steady
<1>6. QED
  BY <1>5 DEF r

LEMMA RotatedIsSteady ==
    ASSUME TypeOK, room # None
    PROVE  Steady(Rotated)
<1>1. /\ Rotated.people = room.people /\ Rotated.tokens = {} /\ Rotated.lastServed = room.lastServed
      /\ Rotated.queue = room.queue /\ Rotated.seq = room.seq /\ Rotated.current = room.current
      /\ Rotated.mode = room.mode /\ Rotated.turn = room.turn
  BY RoomTypes DEF Rotated, Room
<1>2. Rotated \in Room
  <2>1. room.gen + 1 \in Nat /\ {} \in SUBSET Guests
    BY RoomTypes
  <2>2. [room EXCEPT !.gen = room.gen + 1, !.tokens = {}] \in Room
    BY <2>1, RoomTypes DEF Room
  <2>3. QED
    BY <2>2 DEF Rotated
<1>3. Consistent(Rotated)
  BY <1>1, RoomTypes DEF Consistent
<1>4. \A i \in Rotated.queue : room.current # None => i.seq # room.current.seq
  BY <1>1, RoomTypes DEF Consistent
<1>5. QED
  BY <1>1, <1>2, <1>3, <1>4 DEF Steady

\* The stage is cleared.
LEMMA ClearedIsSteady ==
    ASSUME TypeOK, room # None
    PROVE  Steady([room EXCEPT !.current = None, !.autoplay = TRUE])
<1> DEFINE r == [room EXCEPT !.current = None, !.autoplay = TRUE]
<1>1. /\ r.people = room.people /\ r.tokens = room.tokens /\ r.lastServed = room.lastServed
      /\ r.queue = room.queue /\ r.seq = room.seq /\ r.current = None
      /\ r.mode = room.mode /\ r.turn = room.turn
  BY RoomTypes DEF Room
<1>2. r \in Room
  <2>1. TRUE \in BOOLEAN
    OBVIOUS
  <2>2. QED
    BY <2>1, RoomTypes DEF Room
<1> HIDE DEF r
<1>3. Consistent(r)
  BY <1>1, RoomTypes DEF Consistent
<1>4. \A i \in r.queue : room.current # None => i.seq # room.current.seq
  BY <1>1, RoomTypes DEF Consistent
<1>5. Steady(r)
  BY <1>1, <1>2, <1>3, <1>4 DEF Steady
<1>6. QED
  BY <1>5 DEF r

\* A preparation ends.
LEMMA WithStatusIsSteady ==
    ASSUME TypeOK, room # None, NEW x, NEW s \in {"queued", "failed"}
    PROVE  Steady(WithStatus(x, s))
<1> DEFINE new(i) == IF i.seq = x.seq THEN [i EXCEPT !.status = s] ELSE i
<1>1. \A i \in room.queue : /\ new(i) \in Item /\ new(i).seq = i.seq /\ new(i).by = i.by
                            /\ new(i).status \in {i.status, s}
  BY RoomTypes DEF Item
<1>2. WithStatus(x, s) = [room EXCEPT !.queue = {new(i) : i \in room.queue}]
  BY DEF WithStatus
<1> HIDE DEF new
<1> DEFINE r == WithStatus(x, s)
<1>3. /\ r.people = room.people /\ r.tokens = room.tokens /\ r.lastServed = room.lastServed
      /\ r.queue = {new(i) : i \in room.queue} /\ r.seq = room.seq /\ r.current = room.current
      /\ r.mode = room.mode /\ r.turn = room.turn
  BY <1>2, RoomTypes DEF Room
<1>4. {new(i) : i \in room.queue} \subseteq Item
  BY <1>1
<1>5. r \in Room
  BY <1>2, <1>4, RoomTypes DEF Room
<1> HIDE DEF r
<1>6. \A i \in r.queue : \E j \in room.queue : i = new(j) /\ i.seq = j.seq /\ i.by = j.by /\ i.status \in {j.status, s}
  BY <1>1, <1>3
<1>7. Consistent(r)
  <2>1. \A i \in r.queue : /\ i.by \in r.people /\ i.seq \in 1..r.seq /\ i.status # "playing"
                           /\ r.current # None => i.seq # r.current.seq
    BY <1>3, <1>6, RoomTypes DEF Consistent
  <2>2. \A i, j \in r.queue : i.seq = j.seq => i = j
    BY <1>6, RoomTypes DEF Consistent
  <2>3. r.tokens \subseteq r.people /\ Host \in r.people /\ (r.current # None => r.current.by \in r.people /\ r.current.seq \in 1..r.seq)
    BY <1>3, RoomTypes DEF Consistent
  <2>4. QED
    BY <2>1, <2>2, <2>3 DEF Consistent
<1>8. \A i \in r.queue : room.current # None => i.seq # room.current.seq
  BY <1>6, RoomTypes DEF Consistent
<1>9. Steady(r)
  BY <1>3, <1>5, <1>7, <1>8 DEF Steady
<1>10. QED
  BY <1>9 DEF r

-----------------------------------------------------------------------------
(* Saving.                                                                 *)

LEMMA SaveTypes == ASSUME TypeOK, NEW r, Save(r) PROVE passed' \in [People -> [People -> Nat]]
<1>1. NobodyPassed \in [People -> [People -> Nat]]
  BY DEF NobodyPassed
<1>2. \A p, q \in People : passed[p][q] \in Nat /\ passed[p][q] + 1 \in Nat /\ passed[p][q] + 0 \in Nat
  BY DEF TypeOK
<1>3. CASE room = None \/ r.mode # room.mode
  BY <1>1, <1>3 DEF Save
<1>4. CASE ~(room = None \/ r.mode # room.mode)
  <2> DEFINE past(p, q) == IF Requester(room, p) /\ Requester(r, p) /\ ~GoesOn(r, p)
                           THEN passed[p][q] + (IF GoesOn(r, q) THEN 1 ELSE 0)
                           ELSE 0
  <2>1. \A p, q \in People : past(p, q) \in Nat
    BY <1>2
  <2>2. passed' = [p \in People |-> [q \in People |-> past(p, q)]]
    BY <1>4 DEF Save
  <2> HIDE DEF past
  <2>3. QED
    BY <2>1, <2>2
<1>5. QED
  BY <1>3, <1>4

\* The history after a save, pair by pair.
LEMMA SavedHistory ==
    ASSUME room # None, NEW r, r.mode = room.mode, Save(r), NEW p \in People, NEW q \in People
    PROVE  /\ room' = r
           /\ passed'[p][q] # 0 => /\ Requester(room, p) /\ Requester(r, p) /\ ~GoesOn(r, p)
                                   /\ passed'[p][q] = passed[p][q] + (IF GoesOn(r, q) THEN 1 ELSE 0)
BY DEF Save

\* A save of a steady room keeps the turns.
LEMMA SteadyKeepsTurns ==
    ASSUME TypeOK, TurnsCounted, room # None, NEW r, Steady(r), Save(r)
    PROVE  TurnsCounted'
<1>1. /\ r.mode = room.mode /\ r.turn = room.turn /\ room' = r /\ r \in Room /\ room.turn \in Nat
      /\ \A p \in People : room.lastServed[p] \in Nat /\ room.lastServed[p] <= room.turn
  BY RoomTypes DEF Steady, Save, TurnsCounted
<1>2. \A p \in People : /\ r.lastServed[p] >= room.lastServed[p] /\ r.lastServed[p] <= room.turn
                        /\ Requester(room, p) => r.lastServed[p] = room.lastServed[p]
                        /\ r.lastServed[p] \in Nat
  BY <1>1 DEF Steady
<1>3. \A p \in People : ~GoesOn(r, p)
  BY DEF Steady, GoesOn
<1>4. ASSUME room.mode = "fair", NEW p \in People, NEW q \in People, p # q, passed'[p][q] # 0
      PROVE  passed'[p][q] = 1 /\ r.lastServed[p] < r.lastServed[q] /\ Requester(r, p)
  <2>1. Requester(room, p) /\ Requester(r, p) /\ passed'[p][q] = passed[p][q] + 0
    BY <1>1, <1>3, <1>4, SavedHistory
  <2>2. passed[p][q] \in Nat
    BY DEF TypeOK
  <2>3. passed[p][q] = passed'[p][q]
    BY <2>1, <2>2
  <2>4. passed[p][q] = 1 /\ room.lastServed[p] < room.lastServed[q]
    BY <1>4, <2>3 DEF TurnsCounted
  <2>5. QED
    BY <1>1, <1>2, <2>1, <2>3, <2>4
<1>5. QED
  BY <1>1, <1>2, <1>4 DEF TurnsCounted

\* So does a save of a steady room in which the next song has gone on stage: it
\* is of somebody who was served no later than all who wait.
LEMMA NextSongKeepsTurns ==
    ASSUME TypeOK, TurnsCounted, room # None, NEW r, Steady(r), Save(Advance(r))
    PROVE  TurnsCounted'
<1>t. r \in Room /\ Consistent(r)
  BY DEF Steady
<1>1. CASE Advance(r) = r
  BY <1>1, SteadyKeepsTurns
<1>2. ASSUME NEW i \in Waiting(r), r.current = None,
             r.mode = "fair" => \A j \in Waiting(r) : r.lastServed[i.by] <= r.lastServed[j.by],
             Advance(r) = OnStage(r, i)
      PROVE  TurnsCounted'
  <2> DEFINE a == OnStage(r, i)
  <2>1. /\ i \in Item /\ i.by \in People /\ i \in r.queue /\ r.lastServed \in [People -> Nat]
        /\ r.turn \in Nat /\ r.turn = room.turn /\ r.mode = room.mode
    BY <1>t DEF Waiting, Room, Item, Steady
  <2>2. /\ a.mode = r.mode /\ a.turn = r.turn + 1 /\ a.queue = r.queue \ {i}
        /\ a.lastServed = [r.lastServed EXCEPT ![i.by] = r.turn + 1]
        /\ a.current = [i EXCEPT !.status = "playing"]
    BY <1>t DEF OnStage, Room
  <2>3. a.current.by = i.by /\ a.current.seq = i.seq
    BY <2>1, <2>2 DEF Item
  <2>4. Save(a) /\ room' = a
    BY <1>2 DEF Save
  <2> HIDE DEF a
  <2>5. a.current # room.current /\ a.current # None
    <3>1. room.current # None => a.current.seq # room.current.seq
      BY <2>1, <2>3 DEF Steady
    <3>2. a.current \in Item /\ None \notin Item
      <4>1. a.current \in Item
        BY <2>1, <2>2 DEF Item
      <4>2. QED
        BY <4>1, StageAssumption
    <3>3. QED
      BY <3>1, <3>2
  <2>6. \A p \in People : GoesOn(a, p) <=> p = i.by
    BY <2>1, <2>3, <2>5 DEF GoesOn
  <2>7. \A p \in People : /\ room.lastServed[p] \in Nat /\ room.lastServed[p] <= r.turn
                          /\ r.lastServed[p] >= room.lastServed[p] /\ r.lastServed[p] <= r.turn
                          /\ Requester(room, p) => r.lastServed[p] = room.lastServed[p]
                          /\ r.lastServed[p] \in Nat
    BY <2>1, RoomTypes DEF Steady, TurnsCounted
  <2>8. \A p \in People : Requester(a, p) => Requester(r, p)
    BY <2>2 DEF Requester, Waiting
  <2>9. ASSUME room.mode = "fair", NEW p \in People, NEW q \in People, p # q, passed'[p][q] # 0
        PROVE  passed'[p][q] = 1 /\ a.lastServed[p] < a.lastServed[q] /\ Requester(a, p)
    <3>1. /\ Requester(room, p) /\ Requester(a, p) /\ p # i.by
          /\ passed'[p][q] = passed[p][q] + (IF GoesOn(a, q) THEN 1 ELSE 0)
      BY <2>1, <2>2, <2>4, <2>6, <2>9, SavedHistory
    <3>2. passed[p][q] \in Nat
      BY DEF TypeOK
    <3>3. passed[p][q] # 0 => passed[p][q] = 1 /\ room.lastServed[p] < room.lastServed[q]
      BY <2>9 DEF TurnsCounted
    <3>4. a.lastServed[p] = room.lastServed[p]
      BY <2>1, <2>2, <2>7, <3>1
    <3>5. CASE q = i.by
      <4>1. r.lastServed[q] <= r.lastServed[p]
        BY <1>2, <2>1, <2>8, <2>9, <3>1, <3>5 DEF Requester
      <4>2. passed[p][q] = 0
        BY <2>7, <3>1, <3>3, <4>1
      <4>3. passed'[p][q] = 1
        BY <2>6, <3>1, <3>5, <4>2
      <4>4. a.lastServed[q] = r.turn + 1
        BY <2>1, <2>2, <3>5
      <4>5. QED
        BY <2>1, <2>7, <3>1, <3>4, <4>3, <4>4
    <3>6. CASE q # i.by
      <4>1. passed'[p][q] = passed[p][q]
        BY <2>6, <3>1, <3>2, <3>6
      <4>2. a.lastServed[q] = r.lastServed[q]
        BY <2>1, <2>2, <3>6
      <4>3. QED
        BY <2>7, <2>9, <3>1, <3>3, <3>4, <4>1, <4>2
    <3>7. QED
      BY <3>5, <3>6
  <2>10. \A p \in People : a.lastServed[p] <= a.turn
    BY <2>1, <2>2, <2>7
  <2>11. QED
    BY <2>1, <2>2, <2>4, <2>9, <2>10 DEF TurnsCounted
<1>3. QED
  BY <1>t, <1>1, <1>2, AdvanceOutcome

-----------------------------------------------------------------------------
(* The steps of a room.                                                    *)

\* Prepared(r): what is being prepared in r is under way.
Prepared(r) == \A i \in r.queue : i.status = "resolving" => [born |-> born, seq |-> i.seq] \in preparing

\* After advance() an empty stage waits for a preparation.
LEMMA AdvanceFillsTheStage ==
    ASSUME NEW r \in Room, Consistent(r), Advance(r).current = None, Waiting(Advance(r)) # {}
    PROVE  \E i \in Waiting(Advance(r)) : i.status = "resolving"
<1>1. CASE Advance(r) = r /\ \E i \in Waiting(r) : i.status = "resolving"
  BY <1>1
<1>2. CASE Advance(r) = r /\ (r.current # None \/ Waiting(r) = {})
  BY <1>2
<1>3. ASSUME NEW i \in Waiting(r), Advance(r) = OnStage(r, i) PROVE FALSE
  <2>1. i \in Item
    BY DEF Waiting, Room
  <2>2. OnStage(r, i).current = [i EXCEPT !.status = "playing"]
    BY DEF OnStage, Room
  <2>3. [i EXCEPT !.status = "playing"] \in Item
    BY <2>1 DEF Item
  <2>4. QED
    BY <1>3, <2>2, <2>3, StageAssumption
<1>4. QED
  BY <1>1, <1>2, <1>3, AdvanceOutcome

\* advance() only takes from the queue.
LEMMA AdvanceTakes ==
    ASSUME NEW r \in Room, Consistent(r)
    PROVE  /\ Advance(r).queue \subseteq r.queue /\ Advance(r).seq = r.seq /\ Advance(r).gen = r.gen
           /\ Advance(r).tokens = r.tokens /\ Advance(r).people = r.people
           /\ Advance(r).autoplay = r.autoplay /\ Advance(r).mode = r.mode
           /\ \A i \in r.queue : \/ i \in Advance(r).queue
                                 \/ Advance(r).current # None /\ Advance(r).current.seq = i.seq
<1>1. CASE Advance(r) = r
  BY <1>1
<1>2. ASSUME NEW i \in Waiting(r), Advance(r) = OnStage(r, i)
      PROVE  /\ Advance(r).queue \subseteq r.queue /\ Advance(r).seq = r.seq /\ Advance(r).gen = r.gen
             /\ Advance(r).tokens = r.tokens /\ Advance(r).people = r.people
             /\ Advance(r).autoplay = r.autoplay /\ Advance(r).mode = r.mode
             /\ Advance(r).queue = r.queue \ {i}
             /\ Advance(r).current # None /\ Advance(r).current.seq = i.seq
  <2>1. i \in Item
    BY DEF Waiting, Room
  <2>2. /\ OnStage(r, i).current = [i EXCEPT !.status = "playing"] /\ OnStage(r, i).queue = r.queue \ {i}
        /\ OnStage(r, i).seq = r.seq /\ OnStage(r, i).gen = r.gen
        /\ OnStage(r, i).tokens = r.tokens /\ OnStage(r, i).people = r.people
        /\ OnStage(r, i).autoplay = r.autoplay /\ OnStage(r, i).mode = r.mode
    BY DEF OnStage, Room
  <2>3. [i EXCEPT !.status = "playing"] \in Item /\ [i EXCEPT !.status = "playing"].seq = i.seq
    BY <2>1 DEF Item
  <2>4. QED
    BY <1>2, <2>2, <2>3, StageAssumption
<1>3. QED
  BY <1>1, <1>2, AdvanceOutcome

\* What every step that saves a steady room, or one that has gone on from it to
\* the next song, makes of the invariant.
LEMMA SavedSteady ==
    ASSUME IInv, room # None, NEW r, Steady(r), r.autoplay \in BOOLEAN,
           Prepared(r)',  born' = born, toggles' \in 0..MaxToggles, lapsed' \in BOOLEAN,
           preparing' \subseteq [born : Nat, seq : Nat],
           \/ Save(Advance(r))
           \/ Save(r) /\ (r.autoplay /\ r.current = None /\ Waiting(r) # {} =>
                            \E i \in Waiting(r) : i.status = "resolving")
    PROVE  /\ room' \in Room /\ Consistent(room') /\ passed' \in [People -> [People -> Nat]]
           /\ TurnsCounted' /\ BeingPrepared' /\ IdleOnlyForPreparation'
<1>a. TypeOK /\ TurnsCounted /\ r \in Room /\ Consistent(r)
  BY DEF IInv, Steady
<1>1. CASE Save(Advance(r))
  <2> DEFINE a == Advance(r)
  <2>1. a \in Room /\ Consistent(a) /\ a.queue \subseteq r.queue /\ a.autoplay = r.autoplay
    BY <1>a, AdvanceIsConsistent, AdvanceTakes
  <2>2. room' = a
    BY <1>1 DEF Save
  <2>3. passed' \in [People -> [People -> Nat]] /\ TurnsCounted'
    BY <1>1, <1>a, SaveTypes, NextSongKeepsTurns
  <2>4. Prepared(room)'
    BY <2>1, <2>2 DEF Prepared
  <2>5. a.current = None /\ Waiting(a) # {} => \E i \in Waiting(a) : i.status = "resolving"
    BY <1>a, AdvanceFillsTheStage
  <2> HIDE DEF a
  <2>6. IdleOnlyForPreparation'
    BY <2>2, <2>4, <2>5 DEF IdleOnlyForPreparation, Prepared, Waiting
  <2>7. QED
    BY <2>1, <2>2, <2>3, <2>4, <2>6 DEF BeingPrepared, Prepared
<1>2. CASE /\ Save(r)
           /\ r.autoplay /\ r.current = None /\ Waiting(r) # {} => \E i \in Waiting(r) : i.status = "resolving"
  <2>1. room' = r
    BY <1>2 DEF Save
  <2>2. passed' \in [People -> [People -> Nat]] /\ TurnsCounted'
    BY <1>2, <1>a, SaveTypes, SteadyKeepsTurns
  <2>3. IdleOnlyForPreparation'
    BY <1>2, <2>1 DEF IdleOnlyForPreparation, Prepared, Waiting
  <2>4. QED
    BY <1>a, <2>1, <2>2, <2>3 DEF BeingPrepared, Prepared
<1>3. QED
  BY <1>1, <1>2

\* Who was admitted is known for it after a step that admits nobody.
LEMMA AdmittedStay ==
    ASSUME IInv, flight' \subseteq flight, born' = born,
           \/ room' = None
           \/ room # None /\ room'.gen = room.gen /\ room.tokens \subseteq room'.tokens
           \/ room # None /\ room'.gen = room.gen + 1
    PROVE  AdmittedHaveTokens'
<1>1. ASSUME NEW q \in flight', room' # None, q.born = born
      PROVE  /\ q.gen <= room'.gen
             /\ q.phase = "admitted" /\ q.op \in GuestOps /\ q.gen = room'.gen => q.who \in room'.tokens \cup {Host}
  <2>1. q \in flight /\ q.gen \in Nat /\ room # None /\ room.gen \in Nat
    BY <1>1, RoomTypes DEF IInv, TypeOK, Request
  <2>2. /\ q.gen <= room.gen
        /\ q.phase = "admitted" /\ q.op \in GuestOps /\ q.gen = room.gen => q.who \in room.tokens \cup {Host}
    BY <1>1, <2>1 DEF IInv, AdmittedHaveTokens
  <2>3. QED
    BY <1>1, <2>1, <2>2
<1>2. QED
  BY <1>1 DEF IInv, AdmittedHaveTokens

\* A room that is closed takes nothing with it but itself.
LEMMA ClosedStep ==
    ASSUME IInv, Closed, UNCHANGED <<born, toggles, lapsed>>,
           flight' \subseteq flight, preparing' \subseteq preparing
    PROVE  IInv'
<1>1. room' = None /\ passed' = NobodyPassed
  BY DEF Closed
<1>2. NobodyPassed \in [People -> [People -> Nat]]
  BY DEF NobodyPassed
<1>3. TypeOK'
  BY <1>1, <1>2 DEF IInv, TypeOK
<1>4. AdmittedHaveTokens'
  BY <1>1, AdmittedStay
<1>5. QED
  BY <1>1, <1>3, <1>4 DEF IInv, TurnsCounted, BeingPrepared, IdleOnlyForPreparation

\* A request ends, and so does perhaps a preparation that concerned nothing.
LEMMA NothingSaved ==
    ASSUME IInv, UNCHANGED <<room, born, toggles, lapsed, passed>>,
           flight' \subseteq flight, preparing' \subseteq preparing,
           room # None => \A i \in room.queue : i.status = "resolving" /\ [born |-> born, seq |-> i.seq] \in preparing =>
                                                  [born |-> born, seq |-> i.seq] \in preparing'
    PROVE  IInv'
<1>1. TypeOK'
  BY DEF IInv, TypeOK
<1>2. TurnsCounted'
  BY DEF IInv, TurnsCounted, Requester, Waiting
<1>3. BeingPrepared' /\ IdleOnlyForPreparation'
  BY DEF IInv, BeingPrepared, IdleOnlyForPreparation, Waiting
<1>4. ASSUME NEW q \in flight'
      PROVE  /\ q.born <= born
             /\ room # None /\ q.born = born =>
                  /\ q.gen <= room.gen
                  /\ q.phase = "admitted" /\ q.op \in GuestOps /\ q.gen = room.gen =>
                       q.who \in room.tokens \cup {Host}
  BY DEF IInv, AdmittedHaveTokens
<1>5. QED
  BY <1>1, <1>2, <1>3, <1>4 DEF IInv, AdmittedHaveTokens

LEMMA RoomStart == Init => IInv
<1> SUFFICES ASSUME Init PROVE IInv
  OBVIOUS
<1>1. TypeOK
  <2>1. NobodyPassed \in [People -> [People -> Nat]]
    BY DEF NobodyPassed
  <2>2. 0 \in 0..MaxRooms /\ 0 \in 0..MaxToggles
    BY LimitsAssumption
  <2>3. QED
    BY <2>1, <2>2 DEF Init, TypeOK
<1>2. QED
  BY <1>1 DEF Init, IInv, TurnsCounted, BeingPrepared, IdleOnlyForPreparation,
     AdmittedHaveTokens

LEMMA CreateKeeps == ASSUME IInv, NEW mode \in {"fair", "fifo"}, Create(mode) PROVE IInv'
<1> DEFINE r == [gen |-> 0, mode |-> mode, people |-> {Host}, tokens |-> {},
                 lastServed |-> [p \in People |-> 0], turn |-> 0, queue |-> {},
                 current |-> None, autoplay |-> FALSE, seq |-> 0]
<1>1. Save(r) /\ born' = born + 1 /\ UNCHANGED <<toggles, flight, preparing>> /\ lapsed' = FALSE /\ born < MaxRooms
  BY DEF Create
<1>2. /\ r.gen = 0 /\ r.mode = mode /\ r.people = {Host} /\ r.tokens = {} /\ r.turn = 0 /\ r.queue = {}
      /\ r.lastServed = [p \in People |-> 0] /\ r.current = None
  OBVIOUS
<1>3. r \in Room
  <2>1. Host \in People /\ FALSE \in BOOLEAN
    BY DEF People
  <2>2. QED
    BY <2>1 DEF Room
<1> HIDE DEF r
<1>4. room' = r /\ TypeOK
  BY <1>1 DEF Save, IInv
<1>5. passed' \in [People -> [People -> Nat]]
  BY <1>1, <1>4, SaveTypes
<1>6. TypeOK'
  <2>1. born' \in 0..MaxRooms
    BY <1>1, <1>4, LimitsAssumption DEF TypeOK
  <2>2. Consistent(r)
    BY <1>2 DEF Consistent
  <2>3. QED
    BY <1>1, <1>3, <1>4, <1>5, <2>1, <2>2 DEF TypeOK
<1>7. TurnsCounted'
  <2>1. ASSUME NEW p \in People, NEW q \in People PROVE passed'[p][q] = 0
    <3>1. ~Requester(r, p)
      BY <1>2 DEF Requester, Waiting
    <3>2. CASE room = None \/ r.mode # room.mode
      BY <1>1, <3>2 DEF Save, NobodyPassed
    <3>3. CASE ~(room = None \/ r.mode # room.mode)
      BY <1>1, <3>1, <3>3, SavedHistory
    <3>4. QED
      BY <3>2, <3>3
  <2>2. QED
    BY <1>2, <1>4, <2>1 DEF TurnsCounted
<1>8. BeingPrepared' /\ IdleOnlyForPreparation'
  BY <1>2, <1>4 DEF BeingPrepared, IdleOnlyForPreparation, Waiting
<1>9. AdmittedHaveTokens'
  <2>1. ASSUME NEW q \in flight PROVE q.born <= born + 1 /\ q.born # born + 1
    <3>1. q.born <= born /\ q.born \in Nat /\ born \in Nat
      BY LimitsAssumption DEF IInv, TypeOK, Request, AdmittedHaveTokens
    <3>2. QED
      BY <3>1
  <2>2. QED
    BY <1>1, <2>1 DEF AdmittedHaveTokens
<1>10. QED
  BY <1>6, <1>7, <1>8, <1>9 DEF IInv

\* A request reaches the room, or the owner's settings change.
LEMMA ArrivalsKeep ==
    ASSUME IInv, Disable \/ \E op \in Ops, p \in People, n \in Nat : room # None /\ Arrive(op, p, n)
    PROVE  IInv'
<1>t. TypeOK /\ born \in Nat /\ (room # None => room.gen \in Nat)
  BY RoomTypes, LimitsAssumption DEF IInv, TypeOK
<1>1. /\ UNCHANGED <<room, born, lapsed, preparing, passed>>
      /\ toggles' \in 0..MaxToggles
      /\ \E q \in Request : /\ flight' = flight \cup {q} /\ q.born = born
                            /\ q.op \in GuestOps => q.phase = "arrived"
                            /\ room # None => q.gen <= room.gen
  <2>1. CASE Disable
    <3> DEFINE q == [op |-> "disable", who |-> Host, born |-> born, phase |-> "admitted",
                     enabled |-> TRUE, gen |-> 0, target |-> 0]
    <3>1. Host \in People /\ TRUE \in BOOLEAN
      BY DEF People
    <3>2. q \in Request /\ q.born = born /\ q.op \notin GuestOps /\ q.gen = 0
      BY <1>t, <3>1 DEF Request, Ops, GuestOps
    <3>3. flight' = flight \cup {q} /\ UNCHANGED <<room, born, lapsed, preparing, passed>>
      BY <2>1 DEF Disable
    <3> HIDE DEF q
    <3>4. toggles' \in 0..MaxToggles
      BY <1>t, <2>1, LimitsAssumption DEF Disable, TypeOK
    <3>5. QED
      BY <1>t, <3>2, <3>3, <3>4
  <2>2. ASSUME NEW op \in Ops, NEW p \in People, NEW n \in Nat, room # None, Arrive(op, p, n)
        PROVE  <1>1!:
    <3> DEFINE q == [op |-> op, who |-> p, born |-> born, phase |-> "arrived",
                     enabled |-> Enabled, gen |-> room.gen, target |-> n]
    <3>1. Enabled \in BOOLEAN
      BY DEF Enabled
    <3>2. q \in Request /\ q.born = born /\ q.phase = "arrived" /\ q.gen = room.gen
      BY <1>t, <2>2, <3>1 DEF Request
    <3>3. flight' = flight \cup {q} /\ UNCHANGED <<room, born, toggles, lapsed, preparing, passed>>
      BY <2>2 DEF Arrive
    <3> HIDE DEF q
    <3>4. QED
      BY <1>t, <2>2, <3>2, <3>3 DEF TypeOK
  <2>3. QED
    BY <2>1, <2>2
<1>2. TypeOK'
  BY <1>t, <1>1 DEF TypeOK
<1>3. TurnsCounted' /\ BeingPrepared' /\ IdleOnlyForPreparation'
  BY <1>1 DEF IInv, TurnsCounted, BeingPrepared, IdleOnlyForPreparation, Requester, Waiting
<1>4. AdmittedHaveTokens'
  BY <1>t, <1>1 DEF IInv, AdmittedHaveTokens
<1>5. QED
  BY <1>2, <1>3, <1>4 DEF IInv

\* The settings are read and the token is checked.
LEMMA AdmitKeeps == ASSUME IInv, NEW q \in flight, Admit(q) PROVE IInv'
<1>t. TypeOK /\ q \in Request /\ (room # None => room.gen \in Nat /\ room.tokens \subseteq Guests)
  BY RoomTypes DEF IInv, TypeOK
<1>1. CASE ~q.enabled \/ ~Standing
  <2>1. EndsClosing(q) /\ UNCHANGED <<born, toggles, lapsed, preparing>>
    BY <1>1 DEF Admit
  <2>2. CASE room # None
    BY <2>1, <2>2, ClosedStep DEF EndsClosing
  <2>3. CASE room = None
    BY <2>1, <2>3, NothingSaved DEF EndsClosing
  <2>4. QED
    BY <2>2, <2>3
<1>2. CASE q.enabled /\ Standing /\ ~Admitted(q)
  <2>1. flight' = flight \ {q} /\ UNCHANGED <<room, passed, born, toggles, lapsed, preparing>>
    BY <1>2 DEF Admit
  <2>2. QED
    BY <2>1, NothingSaved
<1>3. CASE q.enabled /\ Standing /\ Admitted(q)
  <2> DEFINE new == [q EXCEPT !.phase = "admitted", !.gen = IF q.op = "join" THEN q.gen ELSE room.gen]
  <2>1. flight' = (flight \ {q}) \cup {new} /\ UNCHANGED <<room, passed, born, toggles, lapsed, preparing>>
    BY <1>3 DEF Admit
  <2>2. room # None
    BY <1>3 DEF Standing
  <2>3. /\ new \in Request /\ new.born = q.born /\ new.op = q.op /\ new.who = q.who
        /\ q.op # "join" => new.gen = room.gen
        /\ q.op = "join" => new.gen = q.gen
    BY <1>t, <2>2 DEF Request
  <2> HIDE DEF new
  <2>4. TypeOK'
    BY <1>t, <2>1, <2>3 DEF TypeOK
  <2>5. TurnsCounted' /\ BeingPrepared' /\ IdleOnlyForPreparation'
    BY <2>1 DEF IInv, TurnsCounted, BeingPrepared, IdleOnlyForPreparation, Requester,
       Waiting
  <2>6. new.born <= born /\ (new.born = born => new.gen <= room.gen)
    BY <1>t, <2>2, <2>3 DEF IInv, AdmittedHaveTokens
  <2>7. new.op \in GuestOps => new.who \in room.tokens \cup {Host}
    BY <1>3, <2>3 DEF Admitted, GuestOps
  <2>8. AdmittedHaveTokens'
    BY <2>1, <2>6, <2>7 DEF IInv, AdmittedHaveTokens
  <2>9. QED
    BY <2>4, <2>5, <2>8 DEF IInv
<1>4. QED
  BY <1>1, <1>2, <1>3

LEMMA RefuseKeeps == ASSUME IInv, NEW q \in flight, Refuse(q) PROVE IInv'
<1>1. CASE ~Standing
  <2>1. EndsClosing(q) /\ UNCHANGED <<born, toggles, lapsed, preparing>>
    BY <1>1 DEF Refuse
  <2>2. CASE room # None
    BY <2>1, <2>2, ClosedStep DEF EndsClosing
  <2>3. CASE room = None
    BY <2>1, <2>3, NothingSaved DEF EndsClosing
  <2>4. QED
    BY <2>2, <2>3
<1>2. CASE Standing
  <2>1. flight' = flight \ {q} /\ UNCHANGED <<room, passed, born, toggles, lapsed, preparing>>
    BY <1>2 DEF Refuse
  <2>2. QED
    BY <2>1, NothingSaved
<1>3. QED
  BY <1>1, <1>2

\* A step that saves a room, or one that has gone on from it, in which nobody
\* loses a token unless the invitation changes.
LEMMA SavingKeeps ==
    ASSUME IInv, room # None, NEW r, Steady(r), r.autoplay \in BOOLEAN,
           UNCHANGED <<born, toggles, lapsed>>, flight' \subseteq flight,
           preparing' \subseteq [born : Nat, seq : Nat], Prepared(r)',
           \/ r.gen = room.gen /\ room.tokens \subseteq r.tokens
           \/ r.gen = room.gen + 1,
           \/ Save(Advance(r))
           \/ Save(r) /\ (r.autoplay /\ r.current = None /\ Waiting(r) # {} =>
                            \E i \in Waiting(r) : i.status = "resolving")
    PROVE  IInv'
<1>1. /\ room' \in Room /\ Consistent(room') /\ passed' \in [People -> [People -> Nat]]
      /\ TurnsCounted' /\ BeingPrepared' /\ IdleOnlyForPreparation'
  <2>1. toggles' \in 0..MaxToggles /\ lapsed' \in BOOLEAN
    BY DEF IInv, TypeOK
  <2>2. QED
    BY <2>1, SavedSteady
<1>2. TypeOK'
  BY <1>1 DEF IInv, TypeOK
<1>3. room'.gen = r.gen /\ room'.tokens = r.tokens
  BY AdvanceTakes DEF Save, Steady
<1>4. AdmittedHaveTokens'
  BY <1>3, AdmittedStay
<1>5. QED
  BY <1>1, <1>2, <1>4 DEF IInv

\* What the invariant says of the present room.
LEMMA RoomInvariant ==
    ASSUME IInv, room # None
    PROVE  /\ TypeOK /\ room \in Room /\ Consistent(room) /\ room.autoplay \in BOOLEAN
           /\ Prepared(room)
           /\ room.autoplay /\ room.current = None /\ Waiting(room) # {} =>
                \E i \in Waiting(room) : i.status = "resolving"
<1>1. TypeOK /\ room \in Room /\ Consistent(room)
  BY RoomTypes DEF IInv
<1>2. room.autoplay \in BOOLEAN
  BY <1>1 DEF Room
<1>3. QED
  BY <1>1, <1>2 DEF IInv, BeingPrepared, Prepared, IdleOnlyForPreparation

LEMMA JoinKeeps ==
    ASSUME IInv, room # None, NEW p \in People, p \notin room.people, Save(Joined(p)),
           UNCHANGED <<born, toggles, lapsed, preparing>>, flight' \subseteq flight
    PROVE  IInv'
<1>1. PICK r : r = Joined(p)
  OBVIOUS
<1>2. p \in Guests
  BY RoomInvariant DEF People, Consistent
<1>3. Steady(r)
  BY <1>1, <1>2, RoomInvariant, JoinedIsSteady
<1>4. /\ r.queue = room.queue /\ r.current = room.current /\ r.autoplay = room.autoplay
      /\ r.gen = room.gen /\ r.tokens = room.tokens \cup {p}
  BY <1>1, RoomInvariant DEF Joined, Room
<1>5. Prepared(r)' /\ preparing' \subseteq [born : Nat, seq : Nat]
  BY <1>4, RoomInvariant DEF Prepared, TypeOK
<1>6. r.autoplay /\ r.current = None /\ Waiting(r) # {} => \E i \in Waiting(r) : i.status = "resolving"
  BY <1>4, RoomInvariant DEF Waiting
<1>7. r.autoplay \in BOOLEAN
  BY <1>4, RoomInvariant
<1>8. QED
  BY <1>1, <1>3, <1>4, <1>5, <1>6, <1>7, SavingKeeps

LEMMA EnqueueKeeps ==
    ASSUME IInv, room # None, NEW p \in room.people, Save(Enqueued(p)),
           UNCHANGED <<born, toggles, lapsed>>, flight' \subseteq flight,
           preparing' = preparing \cup {[born |-> born, seq |-> room.seq + 1]}
    PROVE  IInv'
<1>1. PICK r : r = Enqueued(p)
  OBVIOUS
<1>2. Steady(r)
  BY <1>1, RoomInvariant, EnqueuedIsSteady
<1> DEFINE new == [seq |-> room.seq + 1, by |-> p, status |-> "resolving"]
<1>3. /\ r.queue = room.queue \cup {new} /\ r.current = room.current /\ r.autoplay = room.autoplay
      /\ r.gen = room.gen /\ r.tokens = room.tokens
  BY <1>1, RoomInvariant DEF Enqueued, Room
<1>4. new.seq = room.seq + 1 /\ new.status = "resolving"
  OBVIOUS
<1> HIDE DEF new
<1>5. Prepared(r)'
  BY <1>3, <1>4, RoomInvariant DEF Prepared
<1>6. preparing' \subseteq [born : Nat, seq : Nat]
  BY RoomInvariant, RoomTypes DEF TypeOK
<1>7. r.autoplay /\ r.current = None /\ Waiting(r) # {} => \E i \in Waiting(r) : i.status = "resolving"
  BY <1>3, <1>4 DEF Waiting
<1>8. r.autoplay \in BOOLEAN
  BY <1>3, RoomInvariant
<1>9. QED
  BY <1>1, <1>2, <1>3, <1>5, <1>6, <1>7, <1>8, SavingKeeps

\* A request is taken out of the queue; with autoplay the next song goes on stage.
LEMMA RemoveKeeps ==
    ASSUME IInv, room # None, NEW S, Save(Autoplay([room EXCEPT !.queue = @ \ S])),
           UNCHANGED <<born, toggles, lapsed, preparing>>, flight' \subseteq flight
    PROVE  IInv'
<1>1. PICK r : r = [room EXCEPT !.queue = @ \ S]
  OBVIOUS
<1>2. Steady(r)
  BY <1>1, RoomInvariant, RemovedIsSteady
<1>3. /\ r.queue = room.queue \ S /\ r.current = room.current /\ r.autoplay = room.autoplay
      /\ r.gen = room.gen /\ r.tokens = room.tokens
  BY <1>1, RoomInvariant DEF Room
<1>4. Prepared(r)' /\ preparing' \subseteq [born : Nat, seq : Nat]
  BY <1>3, RoomInvariant DEF Prepared, TypeOK
<1>5. Save(Advance(r)) \/ (Save(r) /\ ~r.autoplay)
  <2>1. Save(Autoplay(r))
    BY <1>1
  <2>2. QED
    BY <2>1 DEF Autoplay
<1>6. r.autoplay \in BOOLEAN
  BY <1>3, RoomInvariant
<1>7. QED
  BY <1>2, <1>3, <1>4, <1>5, <1>6, SavingKeeps

\* The host goes on to the next song.
LEMMA NextKeeps ==
    ASSUME IInv, room # None, Save(Advanced),
           UNCHANGED <<born, toggles, lapsed, preparing>>, flight' \subseteq flight
    PROVE  IInv'
<1>1. PICK r : r = [room EXCEPT !.current = None, !.autoplay = TRUE]
  OBVIOUS
<1>2. Steady(r)
  BY <1>1, RoomInvariant, ClearedIsSteady
<1>3. r.queue = room.queue /\ r.autoplay = TRUE /\ r.gen = room.gen /\ r.tokens = room.tokens
  BY <1>1, RoomInvariant DEF Room
<1>4. Prepared(r)' /\ preparing' \subseteq [born : Nat, seq : Nat]
  BY <1>3, RoomInvariant DEF Prepared, TypeOK
<1>5. Save(Advance(r))
  BY <1>1 DEF Advanced
<1>6. r.autoplay \in BOOLEAN
  BY <1>3
<1>7. QED
  BY <1>2, <1>3, <1>4, <1>5, <1>6, SavingKeeps

LEMMA RotateKeeps ==
    ASSUME IInv, room # None, Save(Rotated),
           UNCHANGED <<born, toggles, lapsed, preparing>>, flight' \subseteq flight
    PROVE  IInv'
<1>1. PICK r : r = Rotated
  OBVIOUS
<1>2. Steady(r)
  BY <1>1, RoomInvariant, RotatedIsSteady
<1>3. /\ r.queue = room.queue /\ r.current = room.current /\ r.autoplay = room.autoplay
      /\ r.gen = room.gen + 1
  BY <1>1, RoomInvariant DEF Rotated, Room
<1>4. Prepared(r)' /\ preparing' \subseteq [born : Nat, seq : Nat]
  BY <1>3, RoomInvariant DEF Prepared, TypeOK
<1>5. r.autoplay /\ r.current = None /\ Waiting(r) # {} => \E i \in Waiting(r) : i.status = "resolving"
  BY <1>3, RoomInvariant DEF Waiting
<1>6. r.autoplay \in BOOLEAN
  BY <1>3, RoomInvariant
<1>7. QED
  BY <1>1, <1>2, <1>3, <1>4, <1>5, <1>6, SavingKeeps

\* With the mode the turns are counted anew.
LEMMA SwitchKeeps ==
    ASSUME IInv, room # None, Save(Switched),
           UNCHANGED <<born, toggles, lapsed, preparing>>, flight' \subseteq flight
    PROVE  IInv'
<1>1. PICK r : r = Switched
  OBVIOUS
<1>2. /\ r.queue = room.queue /\ r.current = room.current /\ r.autoplay = room.autoplay
      /\ r.gen = room.gen /\ r.tokens = room.tokens /\ r.people = room.people /\ r.seq = room.seq
      /\ r.lastServed = room.lastServed /\ r.turn = room.turn
      /\ r.mode = IF room.mode = "fair" THEN "fifo" ELSE "fair"
  BY <1>1, RoomInvariant DEF Switched, Room
<1>3. r.mode # room.mode
  BY <1>2
<1>4. r \in Room
  BY <1>1, RoomInvariant DEF Switched, Room
<1>5. Consistent(r)
  BY <1>2, RoomInvariant DEF Consistent
<1>6. room' = r /\ passed' = NobodyPassed
  BY <1>1, <1>3 DEF Save
<1>7. NobodyPassed \in [People -> [People -> Nat]] /\ \A p, q \in People : NobodyPassed[p][q] = 0
  BY DEF NobodyPassed
<1>8. TypeOK'
  BY <1>4, <1>5, <1>6, <1>7 DEF IInv, TypeOK
<1>9. TurnsCounted'
  BY <1>2, <1>6, <1>7 DEF IInv, TurnsCounted
<1>10. BeingPrepared' /\ IdleOnlyForPreparation'
  BY <1>2, <1>6 DEF IInv, BeingPrepared, IdleOnlyForPreparation, Waiting
<1>11. AdmittedHaveTokens'
  BY <1>2, <1>6, AdmittedStay
<1>12. QED
  BY <1>8, <1>9, <1>10, <1>11 DEF IInv

LEMMA ActKeeps == ASSUME IInv, NEW q \in flight, Act(q) PROVE IInv'
<1>1. /\ room # None /\ ~Refuses(q) /\ UNCHANGED <<born, toggles, lapsed>> /\ flight' \subseteq flight
      /\ q.op # "enqueue" => preparing' = preparing
      /\ q.op = "enqueue" => preparing' = preparing \cup {[born |-> born, seq |-> room.seq + 1]}
  BY DEF Act, Standing
<1>2. q.op \in Ops /\ q.who \in People
  BY DEF IInv, TypeOK, Request
<1>3. CASE q.op = "join"
  BY <1>1, <1>2, <1>3, JoinKeeps DEF Act, Refuses
<1>4. CASE q.op = "enqueue"
  BY <1>1, <1>2, <1>4, EnqueueKeeps DEF Act, Refuses, MayAct
<1>5. CASE q.op = "remove"
  BY <1>1, <1>2, <1>5, RemoveKeeps DEF Act, Removed
<1>6. CASE q.op = "next"
  BY <1>1, <1>2, <1>6, NextKeeps DEF Act
<1>7. CASE q.op = "mode"
  BY <1>1, <1>2, <1>7, SwitchKeeps DEF Act
<1>8. CASE q.op = "rotate"
  BY <1>1, <1>2, <1>8, RotateKeeps DEF Act
<1>9. CASE q.op \in {"close", "disable"}
  BY <1>1, <1>2, <1>9, ClosedStep DEF Act
<1>10. QED
  BY <1>2, <1>3, <1>4, <1>5, <1>6, <1>7, <1>8, <1>9 DEF Ops

\* A preparation ends, well or badly.
LEMMA PreparationKeeps ==
    ASSUME IInv, NEW x \in preparing, Prepare(x) \/ PrepareFails(x) PROVE IInv'
<1>1. preparing' = preparing \ {x} /\ UNCHANGED <<born, toggles, lapsed, flight>>
  BY DEF Prepare, PrepareFails
<1>2. CASE Closed
  BY <1>1, <1>2, ClosedStep
<1>3. ASSUME Concerned(x), NEW s \in {"queued", "failed"}, Save(Autoplay(WithStatus(x, s))) PROVE IInv'
  <2>1. PICK r : r = WithStatus(x, s)
    OBVIOUS
  <2>2. room # None /\ x.born = born
    BY <1>3 DEF Concerned
  <2>3. Steady(r)
    BY <2>1, <2>2, RoomInvariant, WithStatusIsSteady
  <2>4. /\ r.queue = {IF i.seq = x.seq THEN [i EXCEPT !.status = s] ELSE i : i \in room.queue}
        /\ r.current = room.current /\ r.autoplay = room.autoplay /\ r.gen = room.gen /\ r.tokens = room.tokens
    BY <2>1, <2>2, RoomInvariant DEF WithStatus, Room
  <2>5. ASSUME NEW i \in r.queue, i.status = "resolving" PROVE [born |-> born, seq |-> i.seq] \in preparing'
    <3>1. i \in room.queue /\ i.seq # x.seq
      <4>1. PICK j \in room.queue : i = IF j.seq = x.seq THEN [j EXCEPT !.status = s] ELSE j
        BY <2>4
      <4>2. [j EXCEPT !.status = s].status = s
        BY <2>2, RoomInvariant, RoomTypes DEF Item
      <4>3. QED
        BY <2>5, <4>1, <4>2
    <3>2. [born |-> born, seq |-> i.seq] \in preparing
      BY <2>2, <2>5, <3>1, RoomInvariant DEF Prepared
    <3>3. QED
      BY <1>1, <3>1, <3>2
  <2>6. Prepared(r)' /\ preparing' \subseteq [born : Nat, seq : Nat]
    BY <1>1, <2>2, <2>5, RoomInvariant DEF Prepared, TypeOK
  <2>7. Save(Advance(r)) \/ (Save(r) /\ ~r.autoplay)
    BY <1>3, <2>1 DEF Autoplay
  <2>8. r.autoplay \in BOOLEAN
    BY <2>2, <2>4, RoomInvariant
  <2>9. QED
    BY <1>1, <2>2, <2>3, <2>4, <2>6, <2>7, <2>8, SavingKeeps
<1>4. CASE UNCHANGED <<room, passed>> /\ ~Concerned(x)
  <2>1. ASSUME room # None, NEW i \in room.queue, [born |-> born, seq |-> i.seq] = x PROVE FALSE
    BY <1>4, <2>1 DEF Concerned
  <2>2. room # None => \A i \in room.queue : [born |-> born, seq |-> i.seq] # x
    BY <2>1
  <2>3. QED
    BY <1>1, <1>4, <2>2, NothingSaved
<1>5. CASE Prepare(x)
  BY <1>2, <1>3, <1>4, <1>5 DEF Prepare, Concerned
<1>6. CASE PrepareFails(x)
  BY <1>3, <1>4, <1>6 DEF PrepareFails
<1>7. QED
  BY <1>5, <1>6

\* The invariant of a room is inductive.
LEMMA RoomStep == ASSUME IInv, Next PROVE IInv'
<1>1. ASSUME NEW mode \in {"fair", "fifo"}, Create(mode) PROVE IInv'
  BY <1>1, CreateKeeps
<1>2. CASE Lapse
  <2>1. UNCHANGED <<room, born, toggles, flight, preparing, passed>> /\ lapsed' = TRUE
    BY <1>2 DEF Lapse
  <2>2. TypeOK'
    BY <2>1 DEF IInv, TypeOK
  <2>3. TurnsCounted' /\ BeingPrepared' /\ IdleOnlyForPreparation' /\ AdmittedHaveTokens'
    BY <2>1 DEF IInv, TurnsCounted, BeingPrepared, IdleOnlyForPreparation,
       AdmittedHaveTokens, Requester, Waiting
  <2>4. QED
    BY <2>2, <2>3 DEF IInv
<1>3. CASE Alarm
  BY <1>3, ClosedStep DEF Alarm
<1>4. CASE Enable
  <2>1. UNCHANGED <<room, born, lapsed, flight, preparing, passed>> /\ toggles' = toggles + 1 /\ toggles < MaxToggles
    BY <1>4 DEF Enable
  <2>2. TypeOK'
    BY <2>1, LimitsAssumption DEF IInv, TypeOK
  <2>3. TurnsCounted' /\ BeingPrepared' /\ IdleOnlyForPreparation' /\ AdmittedHaveTokens'
    BY <2>1 DEF IInv, TurnsCounted, BeingPrepared, IdleOnlyForPreparation,
       AdmittedHaveTokens, Requester, Waiting
  <2>4. QED
    BY <2>2, <2>3 DEF IInv
<1>5. CASE Disable
  BY <1>5, ArrivalsKeep
<1>6. ASSUME NEW op \in Ops, NEW p \in People, room # None, NEW n \in Targets(op), Arrive(op, p, n) PROVE IInv'
  <2>1. n \in Nat
    BY <1>6, RoomInvariant, RoomTypes DEF Targets, Item
  <2>2. QED
    BY <1>6, <2>1, ArrivalsKeep
<1>7. ASSUME NEW q \in flight, Admit(q) \/ Act(q) \/ Refuse(q) PROVE IInv'
  BY <1>7, AdmitKeeps, ActKeeps, RefuseKeeps
<1>8. ASSUME NEW x \in preparing, Prepare(x) \/ PrepareFails(x) PROVE IInv'
  BY <1>8, PreparationKeeps
<1>9. QED
  BY <1>1, <1>2, <1>3, <1>4, <1>5, <1>6, <1>7, <1>8 DEF Next

-----------------------------------------------------------------------------
(* What requests are promised.                                             *)

\* A step that neither opens a room nor closes it leaves the room as it is, or
\* saves it for a request or a preparation of its own.
LEMMA StepsOfTheRoom ==
    ASSUME IInv, Next, room # None, room' # None, born' = born
    PROVE  \/ room' = room
           \/ \E q \in flight : Act(q) /\ preparing \subseteq preparing'
           \/ \E x \in preparing, s \in {"queued", "failed"} :
                 /\ x.born = born /\ preparing' = preparing \ {x} /\ flight' = flight
                 /\ room' = Autoplay(WithStatus(x, s))
<1>t. born \in Nat
  BY RoomInvariant, RoomTypes
<1>1. ASSUME NEW mode \in {"fair", "fifo"}, Create(mode) PROVE FALSE
  BY <1>t, <1>1 DEF Create
<1>2. ASSUME NEW op \in Ops, NEW p \in People, NEW n, Arrive(op, p, n) PROVE room' = room
  BY <1>2 DEF Arrive
<1>3. ASSUME NEW q \in flight, Admit(q) \/ Refuse(q) PROVE room' = room
  BY <1>3 DEF Admit, Refuse, EndsClosing, Closed
<1>4. ASSUME NEW q \in flight, Act(q) PROVE preparing \subseteq preparing'
  BY <1>4 DEF Act
<1>5. ASSUME NEW x \in preparing, Prepare(x) \/ PrepareFails(x)
      PROVE  \/ room' = room
             \/ \E s \in {"queued", "failed"} :
                 /\ x.born = born /\ preparing' = preparing \ {x} /\ flight' = flight
                 /\ room' = Autoplay(WithStatus(x, s))
  BY <1>5 DEF Prepare, PrepareFails, Closed, Concerned, Save
<1>6. CASE Lapse \/ Alarm \/ Enable \/ Disable
  BY <1>6 DEF Lapse, Alarm, Closed, Enable, Disable
<1>7. QED
  BY <1>1, <1>2, <1>3, <1>4, <1>5, <1>6 DEF Next

\* What each accepted request saves.
LEMMA ActSaves ==
    ASSUME IInv, room # None, room' # None, NEW q \in flight, Act(q)
    PROVE  \/ q.op = "join" /\ room' = Joined(q.who)
           \/ q.op = "enqueue" /\ room' = Enqueued(q.who)
           \/ q.op = "remove" /\ room' = Removed(q)
           \/ q.op = "next" /\ room' = Advanced
           \/ q.op = "mode" /\ room' = Switched
           \/ q.op = "rotate" /\ room' = Rotated
<1>1. q.op \in Ops
  BY DEF IInv, TypeOK, Request
<1>2. QED
  BY <1>1 DEF Act, Save, Closed, Ops

LEMMA AutoplayTakes ==
    ASSUME NEW r \in Room, Consistent(r)
    PROVE  /\ Autoplay(r).seq = r.seq
           /\ \A i \in r.queue : \/ i \in Autoplay(r).queue
                                 \/ Autoplay(r).current # None /\ Autoplay(r).current.seq = i.seq
BY AdvanceTakes DEF Autoplay

LEMMA AcceptedAreKept == ASSUME IInv, Next PROVE KeepsAccepted
<1> SUFFICES ASSUME room # None, room' # None, born' = born, NEW i \in room.queue
             PROVE  \/ \E j \in room'.queue : j.seq = i.seq
                    \/ room'.current # None /\ room'.current.seq = i.seq
                    \/ \E q \in flight : q.op = "remove" /\ q.target = i.seq /\ Act(q)
  BY DEF KeepsAccepted
<1> DEFINE Kept == \/ \E j \in room'.queue : j.seq = i.seq
                   \/ room'.current # None /\ room'.current.seq = i.seq
                   \/ \E q \in flight : q.op = "remove" /\ q.target = i.seq /\ Act(q)
<1>t. TypeOK /\ room \in Room /\ i.seq \in Nat /\ i \in Item
  BY RoomInvariant, RoomTypes
<1>1. ASSUME NEW q \in flight, Act(q) PROVE Kept
  <2>1. CASE room'.queue = room.queue
    BY <2>1
  <2>2. CASE room' = Enqueued(q.who)
    BY <1>t, <2>2 DEF Enqueued, Room
  <2>3. CASE q.op = "remove" /\ room' = Removed(q)
    <3>1. PICK r : r = [room EXCEPT !.queue = @ \ Named(q)]
      OBVIOUS
    <3>2. r \in Room /\ Consistent(r) /\ r.queue = room.queue \ Named(q)
      BY <1>t, <3>1, RemovedIsSteady DEF Steady, Room
    <3>3. room' = Autoplay(r)
      BY <2>3, <3>1 DEF Removed
    <3>4. CASE i \in Named(q)
      BY <1>1, <2>3, <3>4 DEF Named
    <3>5. CASE i \notin Named(q)
      BY <3>2, <3>3, <3>5, AutoplayTakes
    <3>6. QED
      BY <3>4, <3>5
  <2>4. CASE room' = Advanced
    <3>1. PICK r : r = [room EXCEPT !.current = None, !.autoplay = TRUE]
      OBVIOUS
    <3>2. r \in Room /\ Consistent(r) /\ r.queue = room.queue
      BY <1>t, <3>1, ClearedIsSteady DEF Steady, Room
    <3>3. room' = Advance(r)
      BY <2>4, <3>1 DEF Advanced
    <3>4. QED
      BY <3>2, <3>3, AdvanceTakes
  <2>5. CASE room' \in {Joined(q.who), Switched, Rotated}
    <3>1. room'.queue = room.queue
      BY <1>t, <2>5 DEF Joined, Switched, Rotated, Room
    <3>2. QED
      BY <2>1, <3>1
  <2> HIDE DEF Kept
  <2>6. QED
    BY <1>1, <2>2, <2>3, <2>4, <2>5, ActSaves
<1>2. ASSUME NEW x \in preparing, NEW s \in {"queued", "failed"}, room' = Autoplay(WithStatus(x, s)) PROVE Kept
  <2>1. PICK r : r = WithStatus(x, s)
    OBVIOUS
  <2>2. r \in Room /\ Consistent(r)
    BY <1>t, <2>1, WithStatusIsSteady DEF Steady
  <2>3. PICK j \in r.queue : j.seq = i.seq
    <3>1. r.queue = {IF k.seq = x.seq THEN [k EXCEPT !.status = s] ELSE k : k \in room.queue}
      BY <1>t, <2>1 DEF WithStatus, Room
    <3>2. [i EXCEPT !.status = s].seq = i.seq
      BY <1>t DEF Item
    <3>3. QED
      BY <3>1, <3>2
  <2>4. QED
    BY <1>2, <2>1, <2>2, <2>3, AutoplayTakes
<1>3. CASE room' = room
  BY <1>3
<1>4. QED
  <2> HIDE DEF Kept
  <2>1. Kept
    BY <1>1, <1>2, <1>3, StepsOfTheRoom DEF Kept
  <2>2. QED
    BY <2>1 DEF Kept

LEMMA OtherRoomsAreLeftAlone == ASSUME IInv, Next PROVE OnlyItsOwnRoom
<1> SUFFICES ASSUME room # None, room' # None, born' = born, room' # room
             PROVE  /\ \A q \in flight \ flight' : q.born = born
                    /\ \A x \in preparing \ preparing' : x.born = born
  BY DEF OnlyItsOwnRoom
<1>1. ASSUME NEW q \in flight, Act(q), preparing \subseteq preparing'
      PROVE  q.born = born /\ flight' = flight \ {q}
  <2>1. ~Refuses(q) /\ flight' = flight \ {q}
    BY <1>1 DEF Act
  <2>2. q.op \in {"join", "enqueue", "remove", "next", "mode", "rotate"}
    BY <1>1, ActSaves
  <2>3. Known(q)
    BY <2>1, <2>2 DEF Refuses, MayAct
  <2>4. QED
    BY <2>1, <2>3 DEF Known
<1>2. QED
  BY <1>1, StepsOfTheRoom

LEMMA OnlyTheInvitedAreAccepted == ASSUME IInv, Next PROVE AcceptsTheInvited
<1> SUFFICES ASSUME room # None, room' # None, born' = born, room'.seq > room.seq
             PROVE  \E i \in room'.queue : i.seq = room'.seq /\ i.by \in room.tokens \cup {Host}
  BY DEF AcceptsTheInvited
<1>t. TypeOK /\ room \in Room /\ room.seq \in Nat
  BY RoomInvariant, RoomTypes
<1>1. room' # room
  BY <1>t
<1>2. ASSUME NEW x \in preparing, NEW s \in {"queued", "failed"}, room' = Autoplay(WithStatus(x, s)) PROVE FALSE
  <2>1. PICK r : r = WithStatus(x, s)
    OBVIOUS
  <2>2. r \in Room /\ Consistent(r) /\ r.seq = room.seq
    <3>1. r \in Room /\ Consistent(r)
      BY <1>t, <2>1, WithStatusIsSteady DEF Steady
    <3>2. r.seq = room.seq
      BY <1>t, <2>1 DEF WithStatus, Room
    <3>3. QED
      BY <3>1, <3>2
  <2>3. room'.seq = room.seq
    BY <1>2, <2>1, <2>2, AutoplayTakes
  <2>4. QED
    BY <1>t, <2>3
<1>3. ASSUME NEW q \in flight, Act(q) PROVE room' = Enqueued(q.who) /\ q.op = "enqueue"
  <2>1. ASSUME room' = Removed(q) PROVE FALSE
    <3>1. PICK r : r = [room EXCEPT !.queue = @ \ Named(q)]
      OBVIOUS
    <3>2. r \in Room /\ Consistent(r) /\ r.seq = room.seq
      BY <1>t, <3>1, RemovedIsSteady DEF Steady, Room
    <3>3. room'.seq = room.seq
      BY <2>1, <3>1, <3>2, AutoplayTakes DEF Removed
    <3>4. QED
      BY <1>t, <3>3
  <2>2. ASSUME room' = Advanced PROVE FALSE
    <3>1. PICK r : r = [room EXCEPT !.current = None, !.autoplay = TRUE]
      OBVIOUS
    <3>2. r \in Room /\ Consistent(r) /\ r.seq = room.seq
      BY <1>t, <3>1, ClearedIsSteady DEF Steady, Room
    <3>3. room'.seq = room.seq
      BY <2>2, <3>1, <3>2, AdvanceTakes DEF Advanced
    <3>4. QED
      BY <1>t, <3>3
  <2>3. ASSUME room' \in {Joined(q.who), Switched, Rotated} PROVE FALSE
    <3>1. room'.seq = room.seq
      BY <1>t, <2>3 DEF Joined, Switched, Rotated, Room
    <3>2. QED
      BY <1>t, <3>1
  <2>4. QED
    BY <1>3, <2>1, <2>2, <2>3, ActSaves
<1>4. PICK q \in flight : Act(q) /\ room' = Enqueued(q.who) /\ q.op = "enqueue"
  BY <1>1, <1>2, <1>3, StepsOfTheRoom
<1>5. MayAct(q) /\ q.phase = "admitted"
  BY <1>4 DEF Act, Refuses
<1>6. q.who \in room.tokens \cup {Host}
  BY <1>4, <1>5 DEF MayAct, Known, IInv, AdmittedHaveTokens, GuestOps
<1>7. /\ room'.seq = room.seq + 1
      /\ room'.queue = room.queue \cup {[seq |-> room.seq + 1, by |-> q.who, status |-> "resolving"]}
  BY <1>t, <1>4 DEF Enqueued, Room
<1>8. PICK i : i = [seq |-> room.seq + 1, by |-> q.who, status |-> "resolving"]
  OBVIOUS
<1>9. i \in room'.queue /\ i.seq = room'.seq /\ i.by = q.who
  BY <1>7, <1>8
<1>10. QED
  BY <1>6, <1>9

-----------------------------------------------------------------------------
(* The theorems.                                                           *)

\* The part a behaviour is not about rests.
LEMMA RoomRests ==
    ASSUME IInv, UNCHANGED <<room, born, toggles, lapsed, flight, preparing, passed>> PROVE IInv'
<1>1. TypeOK'
  BY DEF IInv, TypeOK
<1>2. QED
  BY <1>1 DEF IInv, TurnsCounted, BeingPrepared, IdleOnlyForPreparation, AdmittedHaveTokens,
     Requester, Waiting

LEMMA InviteRests == ASSUME Invite!IInv, UNCHANGED inviteVars PROVE Invite!IInv'
<1>1. UNCHANGED <<rooms, opened, over, kv, handlers, deletes, told>>
  BY DEF inviteVars
<1>2. Invite!TypeOK'
  BY <1>1 DEF Invite!IInv, Invite!TypeOK
<1>3. QED
  BY <1>1, <1>2 DEF Invite!IInv, Invite!PresentRooms, Invite!AnnouncedAreRegistered,
     Invite!AnswersAreTrue,
     Invite!HandlersComeLater, Invite!DeletesComeLate, Invite!Active, Invite!Present, Invite!HomeOf

LEMMA Invariants == KtvSpec => [](IInv /\ Invite!IInv)
<1>1. KtvInit => IInv /\ Invite!IInv
  BY RoomStart, InviteStart DEF KtvInit
<1>2. ASSUME IInv, Invite!IInv, [KtvNext]_ktvVars PROVE IInv' /\ Invite!IInv'
  <2>1. CASE KtvNext
    <3>1. IInv'
      <4>1. CASE part = "room"
        BY <1>2, <2>1, <4>1, RoomStep DEF KtvNext
      <4>2. CASE part # "room"
        <5>1. UNCHANGED <<room, born, toggles, lapsed, flight, preparing, passed>>
          BY <2>1, <4>2 DEF KtvNext, vars
        <5>2. QED
          BY <1>2, <5>1, RoomRests
      <4>3. QED
        BY <4>1, <4>2
    <3>2. Invite!IInv'
      <4>1. CASE part = "invite"
        BY <1>2, <2>1, <4>1, InviteStep DEF KtvNext
      <4>2. CASE part # "invite"
        <5>1. UNCHANGED inviteVars
          BY <2>1, <4>2 DEF KtvNext
        <5>2. QED
          BY <1>2, <5>1, InviteRests
      <4>3. QED
        BY <4>1, <4>2
    <3>3. QED
      BY <3>1, <3>2
  <2>2. CASE UNCHANGED ktvVars
    <3>1. UNCHANGED <<room, born, toggles, lapsed, flight, preparing, passed>> /\ UNCHANGED inviteVars
      BY <2>2 DEF ktvVars, inviteVars
    <3>2. QED
      BY <1>2, <3>1, RoomRests, InviteRests
  <2>3. QED
    BY <1>2, <2>1, <2>2
<1>3. QED
  BY <1>1, <1>2, PTL DEF KtvSpec

\* Every value has its type, requests are told apart by their numbers, and those
\* who have tokens are in the room.
THEOREM KtvTypes == KtvSpec => []TypesOK
<1>1. IInv /\ Invite!IInv => TypesOK
  BY DEF IInv, Invite!IInv, TypesOK
<1>2. QED
  BY <1>1, Invariants, PTL

\* However many people take turns, and however many join, fail, leave the queue or
\* switch the mode meanwhile, nobody is on stage twice past somebody who waits;
\* and the stage of a started room is empty only while a song is being prepared.
THEOREM TurnsAreTaken == KtvSpec => []StageIsFair
<1>1. IInv => StageIsFair
  <2> SUFFICES ASSUME IInv PROVE TakesTurns /\ IdleOnlyForPreparation
    BY DEF StageIsFair
  <2>1. TakesTurns
    <3> SUFFICES ASSUME room # None, room.mode = "fair", NEW p \in People, NEW q \in People, p # q
                 PROVE  passed[p][q] <= 1
      BY DEF TakesTurns
    <3>1. passed[p][q] = 0 \/ passed[p][q] = 1
      BY DEF IInv, TurnsCounted
    <3>2. QED
      BY <3>1
  <2>2. QED
    BY <2>1 DEF IInv
<1>2. QED
  BY <1>1, Invariants, PTL

\* A code the host was told leads to the room while it stands and keeps the code,
\* whatever other rooms, late DELETEs and the cleaning up do to the table.
THEOREM CodesLeadHome == KtvSpec => []AnnouncedLeadsHome
<1>1. Invite!IInv => AnnouncedLeadsHome
  BY HomesAreLed DEF AnnouncedLeadsHome
<1>2. QED
  BY <1>1, Invariants, PTL

\* No step loses an accepted request, lets a request or a preparation of an earlier
\* room change this one, or lets in a request of somebody of an earlier invitation.
THEOREM RequestsStay == KtvSpec => [][KeepsRequests]_ktvVars
<1>1. ASSUME IInv, [KtvNext]_ktvVars PROVE [KeepsRequests]_ktvVars
  <2>1. CASE KtvNext
    <3>1. part = "room" => Next
      BY <2>1 DEF KtvNext
    <3>2. KeepsRequests
      BY <1>1, <3>1, AcceptedAreKept, OtherRoomsAreLeftAlone, OnlyTheInvitedAreAccepted
         DEF KeepsRequests
    <3>3. QED
      BY <3>2
  <2>2. CASE UNCHANGED ktvVars
    BY <2>2
  <2>3. QED
    BY <1>1, <2>1, <2>2
<1>2. QED
  BY <1>1, Invariants, PTL DEF KtvSpec
=============================================================================
