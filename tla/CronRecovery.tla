----------------------------- MODULE CronRecovery ------------------------------
(***************************************************************************)
(* The Worker's cron schedule and its recovery.  A deploy clears the       *)
(* schedule Cloudflare keeps.  Whoever applies a schedule records it with  *)
(* the build it was applied under, in D1 and then in a Workers secret,     *)
(* each as far as it goes; a super administrator's login compares the      *)
(* record with the running build and applies it again.  A request runs     *)
(* with the secret and the build its isolate was started with.             *)
(*                                                                         *)
(* A schedule is one value; Cleared is the empty list.                     *)
(***************************************************************************)
EXTENDS Integers, FiniteSets, FiniteSetsExt

CONSTANTS
    Schedules,   \* what the administrator may set
    Default,     \* hourly
    Cleared,     \* no schedule
    None,
    Handlers,    \* requests under way at once
    Faults,      \* calls that may fail: "get", "put", "read", "d1", "secret"
    MaxFaults,   \* bound
    SameBuild,   \* may a deploy keep WORKER_VERSION
    MaxDeploys,  \* bound
    MaxSets      \* bound: times the administrator saves a schedule

ASSUME CronAssumption ==
    /\ Default \in Schedules /\ Cleared \in Schedules /\ Default # Cleared
    /\ None \notin Schedules
    /\ Faults \subseteq {"get", "put", "read", "d1", "secret"}
    /\ SameBuild \in BOOLEAN
    /\ MaxFaults \in Nat /\ MaxDeploys \in Nat /\ MaxSets \in Nat

VARIABLES
    live,     \* the schedule Cloudflare runs
    build,    \* the deployed WORKER_VERSION
    secret,   \* CRON_STATE
    d1,       \* kv_store's cron_recovery_state
    handler,  \* the requests
    deploys, sets,
    failed,   \* how often each call has failed
    choice,   \* history: the schedule an administrator applied last, or None
    overlap,  \* history: two requests have been under way at once
    redeployed \* history: a deploy kept its WORKER_VERSION

vars == <<live, build, secret, d1, handler, deploys, sets, failed, choice, overlap, redeployed>>

State == [crons : Schedules, build : Nat]

Idle == [pc |-> "idle", kind |-> None, env |-> None, build |-> 0, crons |-> None]

Request == [pc : {"idle", "read", "look", "put", "d1", "secret"}, kind : {None, "set", "ensure", "login"},
            env : State \cup {None}, build : 0..MaxDeploys, crons : Schedules \cup {None}]

TypeOK ==
    /\ live \in Schedules /\ choice \in Schedules \cup {None}
    /\ build \in 0..MaxDeploys /\ build <= deploys
    /\ secret \in State \cup {None} /\ d1 \in State \cup {None}
    /\ deploys \in 0..MaxDeploys /\ sets \in 0..MaxSets
    /\ failed \in [Faults -> Nat] /\ overlap \in BOOLEAN /\ redeployed \in BOOLEAN
    /\ handler \in [Handlers -> Request]
    /\ \A h \in Handlers : handler[h].pc \in {"put", "d1", "secret"} => handler[h].crons # None

Init ==
    /\ live = Cleared /\ build = 0
    /\ secret = None /\ d1 = None
    /\ handler = [h \in Handlers |-> Idle]
    /\ deploys = 0 /\ sets = 0 /\ failed = [call \in Faults |-> 0]
    /\ choice = None /\ overlap = FALSE /\ redeployed = FALSE
-----------------------------------------------------------------------------
\* A call fails.
Fault(call) ==
    /\ call \in Faults
    /\ MapThenSumSet(LAMBDA c : failed[c], Faults) < MaxFaults
    /\ failed' = [failed EXCEPT ![call] = @ + 1]

Works == UNCHANGED failed

Start(h, kind, pc, crons) ==
    /\ handler[h].pc = "idle"
    /\ handler' = [handler EXCEPT ![h] =
           [pc |-> pc, kind |-> kind, env |-> secret, build |-> build, crons |-> crons]]
    /\ UNCHANGED <<live, build, secret, d1, deploys, failed, redeployed, choice>>

\* POST /cf/setCron
SetCron(h, crons) ==
    /\ sets < MaxSets
    /\ sets' = sets + 1
    /\ Start(h, "set", "put", crons)

\* GET /cf/ensureDefaultCron
EnsureDefault(h) == Start(h, "ensure", "look", None) /\ UNCHANGED sets

\* A super administrator's login: recoverCronIfStale
Login(h) == Start(h, "login", "read", None) /\ UNCHANGED sets

Return(h) == handler' = [handler EXCEPT ![h] = Idle]
Goto(h, pc) == handler' = [handler EXCEPT ![h].pc = pc]

\* Mutation: the schedule to apply is lost.
ApplyNothing(h, pc, crons) == handler' = [handler EXCEPT ![h].pc = pc]

Apply(h, pc, crons) == handler' = [handler EXCEPT ![h].pc = pc, ![h].crons = crons]

\* An empty record makes the default come back.
Recovered(stored) == IF stored.crons = Cleared THEN Default ELSE stored.crons

\* Mutation: any record will do.
RecoverNever(h, stored) == IF stored # None THEN Return(h) ELSE Goto(h, "look")

\* What recoverCronIfStale does about the record it has read.
Recover(h, stored) ==
    IF stored = None THEN Goto(h, "look")
    ELSE IF stored.build = handler[h].build THEN Return(h)
    ELSE Apply(h, "put", Recovered(stored))

\* readCronState: the secret first, D1 when there is none.
ReadState(h) ==
    /\ handler[h].pc = "read"
    /\ IF handler[h].env # None
       THEN Recover(h, handler[h].env) /\ Works
       ELSE \/ Recover(h, d1) /\ Works
            \/ Recover(h, None) /\ Fault("read")
    /\ UNCHANGED <<live, build, secret, d1, deploys, sets, redeployed, choice>>

\* Mutation: the default is recorded and never applied.
LookAndRecord(h) ==
    /\ handler[h].pc = "look"
    /\ Apply(h, "d1", IF live = Cleared THEN Default ELSE live) /\ Works
    /\ UNCHANGED <<live, build, secret, d1, deploys, sets, redeployed, choice>>

\* The live schedules: adopted, or the default where there are none.
Look(h) ==
    /\ handler[h].pc = "look"
    /\ \/ (IF live = Cleared THEN Apply(h, "put", Default) ELSE Apply(h, "d1", live)) /\ Works
       \/ Return(h) /\ Fault("get")
    /\ UNCHANGED <<live, build, secret, d1, deploys, sets, redeployed, choice>>

\* PUT /schedules: a failure ends the request before anything is recorded.
PutCrons(h) ==
    /\ handler[h].pc = "put"
    /\ \/ /\ live' = handler[h].crons
          /\ choice' = IF handler[h].kind = "login" THEN choice ELSE handler[h].crons
          /\ Goto(h, "d1") /\ Works
       \/ Return(h) /\ Fault("put") /\ UNCHANGED <<live, choice>>
    /\ UNCHANGED <<build, secret, d1, deploys, sets, redeployed>>

Record(h) == [crons |-> handler[h].crons, build |-> handler[h].build]

\* persistCronState, first half.
PersistD1(h) ==
    /\ handler[h].pc = "d1"
    /\ \/ d1' = Record(h) /\ Works
       \/ UNCHANGED d1 /\ Fault("d1")
    /\ Goto(h, "secret")
    /\ UNCHANGED <<live, build, secret, deploys, sets, redeployed, choice>>

\* Mutation: the secret is not written.
PersistNoSecret(h) ==
    /\ handler[h].pc = "secret"
    /\ secret' = IF secret = None THEN Record(h) ELSE secret
    /\ Return(h) /\ Works
    /\ UNCHANGED <<live, build, d1, deploys, sets, redeployed, choice>>

\* persistCronState, second half.
PersistSecret(h) ==
    /\ handler[h].pc = "secret"
    /\ \/ secret' = Record(h) /\ Works
       \/ UNCHANGED secret /\ Fault("secret")
    /\ Return(h)
    /\ UNCHANGED <<live, build, d1, deploys, sets, redeployed, choice>>

\* wrangler deploy: no [triggers], no schedule.
Deploy ==
    /\ deploys < MaxDeploys
    /\ deploys' = deploys + 1
    /\ \/ build' = build + 1 /\ UNCHANGED redeployed
       \/ SameBuild /\ redeployed' = TRUE /\ UNCHANGED build
    /\ live' = Cleared
    /\ UNCHANGED <<secret, d1, handler, sets, failed, choice>>

Step(h) == ReadState(h) \/ Look(h) \/ PutCrons(h) \/ PersistD1(h) \/ PersistSecret(h)

Watch == overlap' = (overlap \/ Cardinality({h \in Handlers : handler'[h].pc # "idle"}) > 1)

Next ==
    /\ \/ \E h \in Handlers :
            \/ \E s \in Schedules : SetCron(h, s)
            \/ EnsureDefault(h) \/ Login(h) \/ Step(h)
       \/ Deploy
    /\ Watch

Spec == Init /\ [][Next]_vars

\* Requests run on, and a super administrator logs in again and again.
LiveSpec ==
    /\ Spec
    /\ \A h \in Handlers : WF_vars(Step(h) /\ Watch)
    /\ SF_vars((\E h \in Handlers : Login(h)) /\ Watch)
-----------------------------------------------------------------------------
(* Properties.  Each says under which circumstances it holds: README names the
   behaviours that refute it under others. *)

Never(calls) == \A call \in calls \cap Faults : failed[call] = 0

\* What a step's recovery applies is the schedule the administrator applied last,
\* or what runs already.
AppliesTheChoice ==
    \A h \in Handlers :
        PutCrons(h) /\ handler[h].kind = "login" /\ choice \notin {None, Cleared} =>
            live' \in {choice, live}

\* Unless requests overlap or the secret was not written (then, against the comment of
\* cronRecovery.ts:145, the older secret is preferred to D1), a recovery restores the
\* administrator's last choice, whichever other call fails and whatever the deploys
\* (cf.ts:314: "re-applies exactly this schedule").
RestoresIt == ~overlap /\ Never({"secret"}) => AppliesTheChoice
RestoresTheChoice == [][RestoresIt]_vars

\* When no request is under way a record of the deployed build describes what runs,
\* unless requests overlapped, a call failed or a deploy kept the version
\* (cronRecovery.ts:181: "build matches -> cron intact since it was last applied").
RecordIsLive ==
    ~overlap /\ ~redeployed /\ Never(Faults) /\ (\A h \in Handlers : handler[h].pc = "idle") =>
        LET stored == IF secret # None THEN secret ELSE d1 IN
            stored # None /\ stored.build = build => live = stored.crons

-----------------------------------------------------------------------------
(* What these hold by, in every step.                                       *)

UnderWay(h) == handler[h].pc # "idle"
Recording(h) == handler[h].pc \in {"d1", "secret"}

\* As long as requests have not overlapped one is alone, and its secret is the one there is.
OneAtATime ==
    ~overlap =>
        /\ \A h, g \in Handlers : UnderWay(h) /\ UnderWay(g) => h = g
        /\ \A h \in Handlers : UnderWay(h) => handler[h].env = secret

\* Records are of builds there have been, and not of later ones than who writes the next.
BuildsInOrder ==
    /\ secret # None => secret.build <= build
    /\ \A h \in Handlers : handler[h].build <= build
    /\ ~overlap /\ secret # None => \A h \in Handlers : UnderWay(h) => secret.build <= handler[h].build

\* The administrator's choice is in the secret, or about to be.
ChoiceIsKept ==
    ~overlap /\ Never({"secret"}) /\ choice \notin {None, Cleared} =>
        /\ live \in {Cleared, choice}
        /\ (secret # None /\ secret.crons = choice) \/ \E h \in Handlers : Recording(h)
        /\ \A h \in Handlers :
             /\ Recording(h) => handler[h].crons = choice
             /\ handler[h].kind = "login" => handler[h].pc # "look" /\ (handler[h].pc = "put" => handler[h].crons = choice)
        /\ \A h \in Handlers : handler[h].pc = "read" => handler[h].kind = "login"

\* A record of the deployed build is of what runs, or its successor is on its way.
RecordsAreLive ==
    ~overlap /\ ~redeployed /\ Never(Faults) =>
        /\ secret = None /\ d1 # None => \E h \in Handlers : handler[h].pc = "secret"
        /\ secret # None /\ secret.build = build => live = secret.crons \/ \E h \in Handlers : Recording(h)
        /\ \A h \in Handlers : Recording(h) /\ handler[h].build = build => live = handler[h].crons

IInv == TypeOK /\ OneAtATime /\ BuildsInOrder /\ ChoiceIsKept /\ RecordsAreLive

\* A schedule that was cleared by a deploy comes back at some login, whatever fails
\* and however requests overlap, unless a deploy kept the version
\* (recoverCronIfStale).
CronComesBack == live = Cleared /\ choice # Cleared ~> live # Cleared \/ choice = Cleared \/ redeployed
=============================================================================
