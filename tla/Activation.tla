------------------------------ MODULE Activation -------------------------------
(***************************************************************************)
(* Invite codes and the activation of accounts (activation on).  A         *)
(* redemption checks the code, reads the account, computes the new state   *)
(* and writes account, redemption and counter in one D1 batch: everything  *)
(* before the batch may be stale by then.  Registration creates a disabled *)
(* account, redeems and takes the account back when the code is refused.   *)
(* The administrator's endpoint sets an account outright.  After each      *)
(* change the credentials of the account are stamped anew, in a statement  *)
(* of its own.  Days are the unit of time; e-mail is left out.             *)
(***************************************************************************)
EXTENDS Integers, FiniteSets, FiniteSetsExt

CONSTANTS
    Users,
    Members,   \* accounts there are from the start; the others may register
    Codes,
    Kind,      \* kind of a code: "window", "duration" or "permanent"
    Span,      \* window_end of a window code, duration_days of a duration code
    MaxUses,   \* max_uses
    Handlers,  \* requests under way at once
    Untils,    \* ends the administrator sets; {} for no administrator
    Revokable, \* codes that may be revoked
    MaxTime,   \* bound: days that pass
    MaxDeaths, \* bound: requests that end between two statements
    None

ASSUME ActivationAssumption ==
    /\ Members \subseteq Users
    /\ Kind \in [Codes -> {"window", "duration", "permanent"}]
    /\ Span \in [Codes -> Nat \ {0}]
    /\ MaxUses \in [Codes -> Nat \ {0}]
    /\ Untils \subseteq Nat
    /\ Revokable \subseteq Codes
    /\ MaxTime \in Nat /\ MaxDeaths \in Nat
    /\ None \notin Users \cup Codes \cup Nat

VARIABLES
    now,
    users,     \* activation_status and activated_until of each account, or None
    stamp,     \* the activation the account's credentials are stamped with
    used,      \* used_count
    revoked,   \* revoked codes
    redeemed,  \* invite_redemptions: <<code, user>>
    paid,      \* history: the days of the duration codes each account has redeemed
    handler,   \* the requests
    deaths,
    overlap,   \* history: two requests have been under way at once
    granted    \* history: accounts the administrator has set

vars == <<now, users, stamp, used, revoked, redeemed, paid, handler, deaths, overlap, granted>>

State == [status : {"permanent", "active_until", "disabled"}, until : Nat \cup {None}]

Disabled == [status |-> "disabled", until |-> None]

Idle == [pc |-> "idle", user |-> None, code |-> None, fresh |-> FALSE, next |-> None]

Request == [pc : {"idle", "create", "check", "read", "batch", "restamp", "undo"}, user : Users \cup {None},
            code : Codes \cup {None}, fresh : BOOLEAN, next : State \cup {None}]

TypeOK ==
    /\ now \in 0..MaxTime
    /\ users \in [Users -> State \cup {None}]
    /\ stamp \in [Users -> State]
    /\ used \in [Codes -> Nat]
    /\ revoked \subseteq Codes
    /\ redeemed \subseteq Codes \X Users
    /\ paid \in [Users -> Nat]
    /\ deaths \in 0..MaxDeaths
    /\ overlap \in BOOLEAN /\ granted \subseteq Users
    /\ handler \in [Handlers -> Request]

Init ==
    /\ now = 0
    /\ users = [u \in Users |-> IF u \in Members THEN Disabled ELSE None]
    /\ stamp = [u \in Users |-> Disabled]
    /\ used = [c \in Codes |-> 0]
    /\ revoked = {}
    /\ redeemed = {} /\ paid = [u \in Users |-> 0]
    /\ handler = [h \in Handlers |-> Idle]
    /\ deaths = 0
    /\ overlap = FALSE /\ granted = {}
-----------------------------------------------------------------------------
Later(a, b) == IF a >= b THEN a ELSE b

\* activated_until ?? 0
Until(u) == IF users[u].until = None THEN 0 ELSE users[u].until

\* checkInviteCode
Redeemable(c) ==
    /\ c \notin revoked
    /\ used[c] < MaxUses[c]
    /\ Kind[c] = "window" => now <= Span[c]

\* Mutation: a duration starts now.
BoughtFromNow(u, c) ==
    CASE Kind[c] = "permanent" -> [status |-> "permanent", until |-> None]
      [] Kind[c] = "window"    -> [status |-> "active_until", until |-> Later(Until(u), Span[c])]
      [] Kind[c] = "duration"  -> [status |-> "active_until", until |-> now + Span[c]]

\* What code c makes of account u as it is read.
Bought(u, c) ==
    CASE Kind[c] = "permanent" -> [status |-> "permanent", until |-> None]
      [] Kind[c] = "window"    -> [status |-> "active_until", until |-> Later(Until(u), Span[c])]
      [] Kind[c] = "duration"  -> [status |-> "active_until", until |-> Later(now, Until(u)) + Span[c]]

Goto(h, pc) == handler' = [handler EXCEPT ![h].pc = pc]
Return(h) == handler' = [handler EXCEPT ![h] = Idle]

\* redeemCode answers { ok: false }: registration takes the account back.
Refuse(h) == IF handler[h].fresh THEN Goto(h, "undo") ELSE Return(h)

\* POST /activation/redeem
Redeem(h, u, c) ==
    /\ handler[h].pc = "idle"
    /\ users[u] # None
    /\ handler' = [handler EXCEPT ![h] = [Idle EXCEPT !.pc = "check", !.user = u, !.code = c]]
    /\ UNCHANGED <<now, users, stamp, used, revoked, redeemed, paid, deaths>>

\* POST /edgesonic/auth/register, up to the check of the code.
Register(h, u, c) ==
    /\ handler[h].pc = "idle"
    /\ u \notin Members
    /\ Redeemable(c)
    /\ handler' = [handler EXCEPT ![h] = [Idle EXCEPT !.pc = "create", !.user = u, !.code = c, !.fresh = TRUE]]
    /\ UNCHANGED <<now, users, stamp, used, revoked, redeemed, paid, deaths>>

\* Who finds the name taken answers as if it had made the account.
Create(h) ==
    /\ handler[h].pc = "create"
    /\ LET u == handler[h].user IN
         IF users[u] = None
         THEN users' = [users EXCEPT ![u] = Disabled] /\ Goto(h, "check")
         ELSE Return(h) /\ UNCHANGED users
    /\ UNCHANGED <<now, stamp, used, revoked, redeemed, paid, deaths>>

Check(h) ==
    /\ handler[h].pc = "check"
    /\ IF Redeemable(handler[h].code) THEN Goto(h, "read") ELSE Refuse(h)
    /\ UNCHANGED <<now, users, stamp, used, revoked, redeemed, paid, deaths>>

\* Mutation: a permanent account takes any code.
ReadBlindly(h) ==
    /\ handler[h].pc = "read"
    /\ LET u == handler[h].user IN
         IF users[u] = None
         THEN Refuse(h)
         ELSE handler' = [handler EXCEPT ![h].pc = "batch", ![h].next = Bought(u, handler[h].code)]
    /\ UNCHANGED <<now, users, stamp, used, revoked, redeemed, paid, deaths>>

Read(h) ==
    /\ handler[h].pc = "read"
    /\ LET u == handler[h].user IN
         IF users[u] = None \/ users[u].status = "permanent"
         THEN Refuse(h)
         ELSE handler' = [handler EXCEPT ![h].pc = "batch", ![h].next = Bought(u, handler[h].code)]
    /\ UNCHANGED <<now, users, stamp, used, revoked, redeemed, paid, deaths>>

\* An UPDATE of an account that is gone changes nothing.
Set(u, state) == users' = IF users[u] = None THEN users ELSE [users EXCEPT ![u] = state]

\* Mutation: the counter is not guarded.
CountAlways(c) == used' = [used EXCEPT ![c] = @ + 1]

\* Mutation: the counter holds the uses that are left.
CountDown(c) == used' = [used EXCEPT ![c] = @ - 1]

\* UPDATE ... WHERE revoked = 0 AND used_count < max_uses: it may count nothing.
Count(c) ==
    used' = IF c \notin revoked /\ used[c] < MaxUses[c] THEN [used EXCEPT ![c] = @ + 1] ELSE used

\* History: the days that account u has redeemed with code c.
Pays(c, u) == paid' = IF Kind[c] = "duration" THEN [paid EXCEPT ![u] = @ + Span[c]] ELSE paid

\* Mutation: three statements instead of a batch: the account has changed
\* when the primary key refuses the redemption.
BatchInParts(h) ==
    /\ handler[h].pc = "batch"
    /\ LET u == handler[h].user  c == handler[h].code IN
         /\ Set(u, handler[h].next)
         /\ IF <<c, u>> \in redeemed
            THEN Refuse(h) /\ UNCHANGED <<redeemed, used, paid>>
            ELSE redeemed' = redeemed \cup {<<c, u>>} /\ Pays(c, u) /\ Count(c) /\ Goto(h, "restamp")
    /\ UNCHANGED <<now, stamp, revoked, deaths>>

\* The batch: the primary key of invite_redemptions undoes it as a whole.
Batch(h) ==
    /\ handler[h].pc = "batch"
    /\ LET u == handler[h].user  c == handler[h].code IN
         IF <<c, u>> \in redeemed
         THEN Refuse(h) /\ UNCHANGED <<users, redeemed, used, paid>>
         ELSE /\ Set(u, handler[h].next)
              /\ redeemed' = redeemed \cup {<<c, u>>} /\ Pays(c, u)
              /\ Count(c)
              /\ Goto(h, "restamp")
    /\ UNCHANGED <<now, stamp, revoked, deaths>>

\* Mutation: the credentials keep their stamp.
RestampNothing(h) ==
    /\ handler[h].pc = "restamp"
    /\ Return(h)
    /\ UNCHANGED <<now, users, stamp, used, revoked, redeemed, paid, deaths>>

\* restampCredentials, with the state the request has computed.
Restamp(h) ==
    /\ handler[h].pc = "restamp"
    /\ stamp' = [stamp EXCEPT ![handler[h].user] = handler[h].next]
    /\ Return(h)
    /\ UNCHANGED <<now, users, used, revoked, redeemed, paid, deaths>>

Undo(h) ==
    /\ handler[h].pc = "undo"
    /\ users' = [users EXCEPT ![handler[h].user] = None]
    /\ Return(h)
    /\ UNCHANGED <<now, stamp, used, revoked, redeemed, paid, deaths>>

\* POST /activation/set
AdminStates == {Disabled, [status |-> "permanent", until |-> None]}
               \cup {[status |-> "active_until", until |-> t] : t \in Untils}

AdminSet(h, u) ==
    /\ Untils # {}
    /\ handler[h].pc = "idle"
    /\ users[u] # None
    /\ \E s \in AdminStates :
         /\ users' = [users EXCEPT ![u] = s]
         /\ handler' = [handler EXCEPT ![h] = [Idle EXCEPT !.pc = "restamp", !.user = u, !.next = s]]
    /\ UNCHANGED <<now, stamp, used, revoked, redeemed, paid, deaths>>

\* POST /activation/codes/revoke
Revoke(c) ==
    /\ c \in Revokable \ revoked
    /\ revoked' = revoked \cup {c}
    /\ UNCHANGED <<now, users, stamp, used, redeemed, paid, handler, deaths>>

\* A statement throws or the isolate ends: the request goes no further.
Die(h) ==
    /\ deaths < MaxDeaths
    /\ handler[h].pc # "idle"
    /\ deaths' = deaths + 1
    /\ Return(h)
    /\ UNCHANGED <<now, users, stamp, used, revoked, redeemed, paid>>

Tick ==
    /\ now < MaxTime
    /\ now' = now + 1
    /\ UNCHANGED <<users, stamp, used, revoked, redeemed, paid, handler, deaths>>

Watch ==
    /\ overlap' = (overlap \/ Cardinality({h \in Handlers : handler'[h].pc # "idle"}) > 1)
    /\ granted' = granted \cup {u \in Users : \E h \in Handlers : AdminSet(h, u)}

Next ==
    /\ \/ \E h \in Handlers :
            \/ \E u \in Users, c \in Codes : Redeem(h, u, c) \/ Register(h, u, c)
            \/ Create(h) \/ Check(h) \/ Read(h) \/ Batch(h) \/ Restamp(h) \/ Undo(h) \/ Die(h)
            \/ \E u \in Users : AdminSet(h, u)
       \/ \E c \in Codes : Revoke(c)
       \/ Tick
    /\ Watch

Spec == Init /\ [][Next]_vars
-----------------------------------------------------------------------------
(* Properties.  Some hold as long as requests do not overlap: README names the
   behaviours that refute them when they do. *)

Redeemers(c) == {u \in Users : <<c, u>> \in redeemed}

\* "Raced out (code exhausted/revoked between check and redeem): undo the"
\* (auth.ts:530): the loser of a race is refused, so no code is ever overused.
RacedOutIsRefused == \A c \in Codes : Cardinality(Redeemers(c)) <= MaxUses[c]

\* used_count is the number of redemptions until the code is exhausted or revoked,
\* and never more than max_uses; the redemptions are as many as the code allows,
\* and more by no more than the requests that overlapped (checkInviteCode, the
\* guarded counter of redeemCode).
CountsAgree ==
    \A c \in Codes :
        LET redemptions == Cardinality(Redeemers(c)) IN
            /\ used[c] <= MaxUses[c]
            /\ used[c] <= redemptions
            /\ used[c] = redemptions \/ used[c] = MaxUses[c] \/ c \in revoked
            /\ redemptions <= MaxUses[c] + (IF overlap THEN Cardinality(Handlers) - 1 ELSE 0)

\* Unless requests overlap or the administrator has set the account, every day of
\* every duration code it has redeemed is in its term: durations append
\* (redeemCode's comment).
EveryDayCounts ==
    ~overlap =>
        \A u \in Users \ granted :
            users[u] # None /\ users[u].status = "active_until" => paid[u] <= Until(u)

\* Unless requests overlap no redemption ends a permanent activation
\* ("already permanently activated").
KeepsPermanents ==
    ~overlap =>
        \A h \in Handlers, u \in Users :
            Batch(h) /\ users[u] # None /\ users[u].status = "permanent" => users'[u] = users[u]
PermanentStays == [][KeepsPermanents]_vars

\* An account's activation changes only with a new redemption by it or by the
\* administrator; a redemption refused by the primary key changes nothing, however
\* requests overlap ("Atomic via D1 batch").
BuysActivations ==
    \A u \in Users :
        users'[u] # users[u] /\ users[u] # None /\ users'[u] # None =>
            \/ \E c \in Codes : <<c, u>> \in redeemed' \ redeemed
            \/ \E h \in Handlers : AdminSet(h, u)
BoughtByACode == [][BuysActivations]_vars

\* When no request is under way the credentials of an account carry its
\* activation, unless requests overlapped or one ended before it had stamped them
\* (restampCredentials).
CredentialsFollow ==
    ~overlap /\ deaths = 0 /\ (\A h \in Handlers : handler[h].pc = "idle") =>
        \A u \in Members : stamp[u] = users[u]

-----------------------------------------------------------------------------
(* What these hold by, in every step.                                       *)

UnderWay(h) == handler[h].pc # "idle"
At(h, places) == handler[h].pc \in places

\* As long as requests have not overlapped one is alone.
OneAtATime == ~overlap => \A h, g \in Handlers : UnderWay(h) /\ UnderWay(g) => h = g

\* A request has what its next statement needs, and one that makes an account, or takes
\* it back, is about an account that was not there from the start.
RequestInOrder(h) ==
    /\ UnderWay(h) => handler[h].user # None
    /\ At(h, {"create", "check", "read", "batch"}) => handler[h].code # None
    /\ At(h, {"batch", "restamp"}) => handler[h].next # None
    /\ At(h, {"create", "undo"}) => handler[h].fresh
    /\ handler[h].fresh => handler[h].user \notin Members

RequestsInOrder == (\A u \in Members : users[u] # None) /\ \A h \in Handlers : RequestInOrder(h)

\* Requests that are past the check of code c and have not redeemed it.
Taking(c) == {h \in Handlers : At(h, {"read", "batch"}) /\ handler[h].code = c}

\* Whoever is past the check found the code short of its uses, and a counter that
\* lags behind has stopped.
CountersInOrder ==
    \A c \in Codes :
        LET redemptions == Cardinality(Redeemers(c)) IN
            /\ used[c] <= MaxUses[c] /\ used[c] <= redemptions
            /\ used[c] = redemptions \/ used[c] = MaxUses[c] \/ c \in revoked
            /\ redemptions + Cardinality(Taking(c)) <= MaxUses[c] - 1 + Cardinality(Handlers)
            /\ ~overlap => redemptions <= MaxUses[c] /\ (Taking(c) # {} => redemptions < MaxUses[c])

\* The term of an account that is not permanent holds the days it has paid for, and
\* what a request is about to write holds those it is paying for.
WritesAfter(h) ==
    LET u == handler[h].user  c == handler[h].code  next == handler[h].next IN
        /\ users[u] # None /\ users[u].status # "permanent"
        /\ next.status # "permanent" =>
               /\ next.status = "active_until" /\ next.until # None
               /\ next.until >= Until(u) + (IF Kind[c] = "duration" THEN Span[c] ELSE 0)

HoldsThePaid(u) ==
    /\ users[u] = None => paid[u] = 0
    /\ users[u] # None /\ users[u].status # "permanent" => paid[u] <= Until(u)
    /\ \A h \in Handlers :
         At(h, {"check", "read", "batch", "undo"}) /\ handler[h].fresh /\ handler[h].user = u => paid[u] = 0

TermsInOrder ==
    ~overlap => /\ \A h \in Handlers : At(h, {"batch"}) => WritesAfter(h)
                /\ \A u \in Users \ granted : HoldsThePaid(u)

\* The stamp of an account is its activation, or the request that changed it is
\* about to write it.
StampsFollow ==
    ~overlap /\ deaths = 0 =>
        /\ \A h \in Handlers : At(h, {"restamp"}) /\ handler[h].user \in Members =>
                               users[handler[h].user] = handler[h].next
        /\ \A u \in Members : stamp[u] = users[u] \/ \E h \in Handlers : At(h, {"restamp"}) /\ handler[h].user = u

IInv == TypeOK /\ OneAtATime /\ RequestsInOrder /\ CountersInOrder /\ TermsInOrder /\ StampsFollow
=============================================================================
