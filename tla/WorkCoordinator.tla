--------------------------- MODULE WorkCoordinator ----------------------------
(***************************************************************************)
(* The coordinator Durable Object, the browser tabs on its sockets and the *)
(* rows it claims for them.                                                *)
(*                                                                         *)
(* The object runs one handler at a time BETWEEN awaits: every D1 call     *)
(* lets other handlers in.  Each handler ends in dispatch(), which works   *)
(* on private copies of the agents' attachments taken when it started, and *)
(* writes a copy back whole after each delivery.  A handler in flight is a *)
(* member of Handlers; run[h].phase is its program counter.                *)
(*                                                                         *)
(* Abstracted: the clock has two readings, so a row's heartbeat_at is 1    *)
(* (fresh) or 0 (lapsed) and all claims are made in the same second;       *)
(* WorkQueue has the clock and the two-statement sweeps.                   *)
(***************************************************************************)
EXTENDS WorkRows, FiniteSets, FiniteSetsExt, Sequences

CONSTANTS
    Tasks,        \* row ids
    TypeOf,       \* task_type of each row
    RequiredOf,   \* required_caps of each row
    Rank,         \* ORDER BY priority, created_at
    Tabs,         \* browser tabs in work mode
    UserOf,       \* the account each tab is signed in with
    Configs,      \* configurations a tab may announce
    FirstConfig,  \* the one each tab starts with
    Conns,        \* connections, each used once
    TabOf,        \* the tab that opens each connection
    Handlers,     \* bound: handlers in flight at once
    MaxHandoffs,  \* bound: claims made on one row
    MaxChanges,   \* bound: configuration changes, switch flips, failed calls
    Fragile,      \* connections that may end
    Deletable     \* accounts an administrator may delete

ASSUME TasksAssumption == IsFiniteSet(Tasks)
ASSUME RankAssumption == /\ Rank \in [Tasks -> Nat]
                         /\ \A s, t \in Tasks : Rank[s] = Rank[t] => s = t
ASSUME TabAssumption == UserOf \in [Tabs -> Users] /\ TabOf \in [Conns -> Tabs]
ASSUME ConfigAssumption == /\ FirstConfig \in [Tabs -> Configs]
                           /\ \A g \in Configs : g.max \in 1..8
ASSUME CoordinatorBounds == MaxHandoffs \in Nat /\ MaxChanges \in Nat
                            /\ Deletable \subseteq Users /\ Fragile \subseteq Conns

VARIABLES
    row,       \* the table
    accounts,  \* users that exist
    poolOn,    \* worker_pool_enabled
    wake,      \* a notify is on its way to the object
    conn,      \* each connection: "new", "joining", "open", "dead", "closed"
    att,       \* its attachment: the configuration, and the claims it holds
    inbox,     \* messages of the tab the object has not handled
    tab,       \* each tab: its configuration, what it runs, its slots in use
    run,       \* the handlers in flight
    alarm,     \* an alarm is set
    changes    \* bound: how many of those so far

vars == <<row, accounts, poolOn, wake, conn, att, inbox, tab, run, alarm, changes>>

Claim == [task : Tasks, user : Users, attempts : Nat, claimedAt : {1}]

Links == {"new", "joining", "open", "dead", "closed"}

Agent == [config : Configs, holding : SUBSET Claim]

Message == [type : {"done", "release"}, claim : Claim] \cup [type : {"config"}, config : Configs]

Phases == {"idle", "release", "reconcile", "switch", "select", "hand", "deliver", "finally"}

\* isAlarm: the handler is alarm(), whose finally block runs when it ends.  copy:
\* the attachments of the live connections when the handler took them.
Run == {r \in [phase : Phases, isAlarm : BOOLEAN, live : SUBSET Conns,
               copy : [Conns -> Agent \cup {None}], window : Seq(Tasks),
               target : Conns \cup {None}, claim : Claim \cup {None}] :
          /\ \A c \in r.live : r.copy[c] \in Agent
          /\ r.phase = "release" => r.target \in Conns /\ r.copy[r.target] \in Agent
          /\ r.phase = "deliver" => r.target \in r.live /\ r.claim \in Claim}

IdleRun == [phase |-> "idle", isAlarm |-> FALSE, live |-> {}, copy |-> [c \in Conns |-> None],
            window |-> <<>>, target |-> None, claim |-> None]

TypeOK ==
    /\ row \in [Tasks -> Row]
    /\ accounts \subseteq Users
    /\ poolOn \in BOOLEAN /\ wake \in BOOLEAN /\ alarm \in BOOLEAN
    /\ conn \in [Conns -> Links]
    /\ att \in [Conns -> Agent]
    /\ inbox \in [Conns -> Seq(Message)]
    /\ tab \in [Tabs -> [config : Configs, running : SUBSET Claim, slots : SUBSET Tasks]]
    /\ run \in [Handlers -> Run]
    /\ changes \in 0..MaxChanges

Init ==
    /\ row = [t \in Tasks |-> AbsentRow]
    /\ accounts = Users
    /\ poolOn = TRUE
    /\ wake = FALSE
    /\ conn = [c \in Conns |-> "new"]
    /\ att = [c \in Conns |-> [config |-> FirstConfig[TabOf[c]], holding |-> {}]]
    /\ inbox = [c \in Conns |-> <<>>]
    /\ tab = [b \in Tabs |-> [config |-> FirstConfig[b], running |-> {}, slots |-> {}]]
    /\ run = [h \in Handlers |-> IdleRun]
    /\ alarm = FALSE
    /\ changes = 0

-----------------------------------------------------------------------------
(* Helpers of the object.                                                  *)

MinimumCap(type) == CASE type = "metadata" -> "music-metadata"
                      [] type = "scrape"   -> "scrape"
                      [] OTHER             -> "ffmpeg"

Capable(g, t) == /\ TypeOf[t] \in g.types
                 /\ {MinimumCap(TypeOf[t])} \cup RequiredOf[t] \subseteq g.caps

\* readyState is OPEN: a dead peer is noticed only when its pings are stale.
IsOpen(status) == status \in {"open", "dead"}

Room(a) == LET free == a.config.max - Cardinality(a.holding) IN IF free > 0 THEN free ELSE 0

\* Where handler h goes when its work is over.
Over(h) == [run EXCEPT ![h] = IF run[h].isAlarm THEN [IdleRun EXCEPT !.phase = "finally"]
                                                ELSE IdleRun]

\* liveAgents() at the start of a handler's part p, with connections k and
\* attachments a: connections of dead peers are closed as they are noticed, the
\* others are copied.  With nobody live the handler is over.
Snapshot(h, p, isAlarm, k, a) ==
    \E stale \in SUBSET {c \in Conns : k[c] = "dead"} :
        LET live == {c \in Conns \ stale : IsOpen(k[c])} IN
        /\ conn' = [c \in Conns |-> IF c \in stale THEN "closed" ELSE k[c]]
        /\ att' = [c \in Conns |-> IF c \in stale THEN [a[c] EXCEPT !.holding = {}] ELSE a[c]]
        /\ run' = [run EXCEPT ![h] =
             IF live # {}
             THEN [IdleRun EXCEPT !.phase = p, !.isAlarm = isAlarm, !.live = live,
                                  !.copy = [c \in Conns |-> IF c \in live THEN a[c] ELSE None]]
             ELSE IF isAlarm THEN [IdleRun EXCEPT !.phase = "finally"] ELSE IdleRun]

Dispatch(h, a) == Snapshot(h, "switch", run[h].isAlarm, conn, a)

Swept == [t \in Tasks |-> IF IsStale(row[t], 1)
                          THEN ReclaimedRow(row[t], row[t].attempts >= MaxAttempts)
                          ELSE row[t]]

-----------------------------------------------------------------------------
(* Handlers up to their dispatch.                                          *)

\* GET /notify: wakePool after rows became available.
Notify(h) ==
    /\ wake /\ run[h].phase = "idle"
    /\ wake' = FALSE
    /\ Dispatch(h, att)
    /\ alarm' = (alarm \/ \E c \in Conns : IsOpen(conn'[c]))
    /\ UNCHANGED <<row, accounts, poolOn, inbox, tab, changes>>

\* GET /join: the attachment is what the URL said when the tab connected.
Join(h, c) ==
    /\ conn[c] = "joining" /\ run[h].phase = "idle"
    /\ Snapshot(h, "switch", FALSE, [conn EXCEPT ![c] = "open"], att)
    /\ alarm' = TRUE
    /\ UNCHANGED <<row, accounts, poolOn, wake, inbox, tab, changes>>

Oldest(c) == Head(inbox[c])

Handling(h, c, type) ==
    /\ run[h].phase = "idle"
    /\ IsOpen(conn[c])
    /\ inbox[c] # <<>> /\ Oldest(c).type = type
    /\ inbox' = [inbox EXCEPT ![c] = Tail(@)]

\* "done": the slot is free.
Done(h, c) ==
    /\ Handling(h, c, "done")
    /\ Dispatch(h, [att EXCEPT ![c].holding = @ \ {Oldest(c).claim}])
    /\ UNCHANGED <<row, accounts, poolOn, wake, tab, alarm, changes>>

\* "config": new types, capabilities, budget.
Config(h, c) ==
    /\ Handling(h, c, "config")
    /\ Dispatch(h, [att EXCEPT ![c].config = Oldest(c).config])
    /\ UNCHANGED <<row, accounts, poolOn, wake, tab, alarm, changes>>

\* "release" of a claim the attachment knows: the UPDATE, then an await.
Release(h, c) ==
    /\ Handling(h, c, "release")
    /\ LET k == Oldest(c).claim IN
       /\ k \in att[c].holding
       /\ row' = [row EXCEPT ![k.task] = IF HeldBy(@, k) THEN Released(@) ELSE @]
       /\ run' = [run EXCEPT ![h] = [IdleRun EXCEPT !.phase = "release", !.target = c, !.claim = k,
                                       !.live = {c}, !.copy[c] = att[c]]]
    /\ UNCHANGED <<accounts, poolOn, wake, conn, att, tab, alarm, changes>>

\* "release" of any other claim is ignored.
IgnoreRelease(h, c) ==
    /\ Handling(h, c, "release")
    /\ Oldest(c).claim \notin att[c].holding
    /\ UNCHANGED <<row, accounts, poolOn, wake, conn, att, tab, run, alarm, changes>>

\* The rest of "release": the copy from before the await is written back.
ReleaseEnd(h) ==
    /\ run[h].phase = "release"
    /\ LET c == run[h].target
           copy == [run[h].copy[c] EXCEPT !.holding = @ \ {run[h].claim}]
       IN Dispatch(h, IF conn[c] = "closed" THEN att ELSE [att EXCEPT ![c] = copy])
    /\ UNCHANGED <<row, accounts, poolOn, wake, inbox, tab, alarm, changes>>

\* Mutant: closing requeues the rows by id and username, as without the claim's
\* generation it would.
CloseRequeues(h, c) ==
    /\ conn[c] = "dead" /\ run[h].phase = "idle"
    /\ LET k == [conn EXCEPT ![c] = "closed"]
           a == [att EXCEPT ![c].holding = {}]
           held == {x.task : x \in att[c].holding}
       IN /\ IF held = {} THEN conn' = k /\ UNCHANGED <<att, run>>
                          ELSE Snapshot(h, "switch", FALSE, k, a)
          /\ row' = [t \in Tasks |-> IF /\ t \in held /\ row[t].status = "claimed"
                                        /\ row[t].claimedBy = UserOf[TabOf[c]]
                                     THEN Released(row[t]) ELSE row[t]]
    /\ inbox' = [inbox EXCEPT ![c] = <<>>]
    /\ UNCHANGED <<accounts, poolOn, wake, tab, alarm, changes>>

\* webSocketClose, webSocketError: releaseHeld.  The rows are left to the sweeps.
Close(h, c) ==
    /\ conn[c] = "dead" /\ run[h].phase = "idle"
    /\ LET k == [conn EXCEPT ![c] = "closed"]
           a == [att EXCEPT ![c].holding = {}]
       IN IF att[c].holding = {} THEN conn' = k /\ UNCHANGED <<att, run>>
                                 ELSE Snapshot(h, "switch", FALSE, k, a)
    /\ inbox' = [inbox EXCEPT ![c] = <<>>]
    /\ UNCHANGED <<row, accounts, poolOn, wake, tab, alarm, changes>>

\* Mutant: the alarm sweeps but does not dispatch.
AlarmOnlySweeps(h) ==
    /\ alarm /\ run[h].phase = "idle"
    /\ \A g \in Handlers : ~run[g].isAlarm /\ run[g].phase # "finally"
    /\ alarm' = FALSE
    /\ row' = Swept
    /\ run' = [run EXCEPT ![h] = [IdleRun EXCEPT !.phase = "finally"]]
    /\ UNCHANGED <<accounts, poolOn, wake, conn, att, inbox, tab, changes>>

\* alarm(): the sweep, without a wake, and the agents to reconcile.
Alarm(h) ==
    /\ alarm /\ run[h].phase = "idle"
    /\ \A g \in Handlers : ~run[g].isAlarm /\ run[g].phase # "finally"
    /\ alarm' = FALSE
    /\ row' = Swept
    /\ Snapshot(h, "reconcile", TRUE, conn, att)
    /\ UNCHANGED <<accounts, poolOn, wake, inbox, tab, changes>>

\* Mutant: an agent that still pings is trusted to hold what it is thought to hold.
ReconcileSilent(h) ==
    /\ run[h].phase = "reconcile"
    /\ LET copy == run[h].copy
           kept(c) == {k \in copy[c].holding : HeldBy(row[k.task], k)}
       IN Dispatch(h, [c \in Conns |->
             IF c \in run[h].live /\ conn[c] = "dead" /\ kept(c) # copy[c].holding
             THEN [copy[c] EXCEPT !.holding = kept(c)]
             ELSE att[c]])
    /\ UNCHANGED <<row, accounts, poolOn, wake, inbox, tab, alarm, changes>>

\* reconcileHoldings: copies are filtered by the rows, and written if shorter.
Reconcile(h) ==
    /\ run[h].phase = "reconcile"
    /\ LET copy == run[h].copy
           kept(c) == {k \in copy[c].holding : HeldBy(row[k.task], k)}
       IN Dispatch(h, [c \in Conns |->
             IF c \in run[h].live /\ conn[c] # "closed" /\ kept(c) # copy[c].holding
             THEN [copy[c] EXCEPT !.holding = kept(c)]
             ELSE att[c]])
    /\ UNCHANGED <<row, accounts, poolOn, wake, inbox, tab, alarm, changes>>

\* Mutant: the alarm is set again only while rows are claimed.
FinallyIfClaimed(h) ==
    /\ run[h].phase = "finally"
    /\ alarm' = (alarm \/ \E t \in Tasks : row[t].status = "claimed")
    /\ run' = [run EXCEPT ![h] = IdleRun]
    /\ UNCHANGED <<row, accounts, poolOn, wake, conn, att, inbox, tab, changes>>

\* The finally block of alarm().
Finally(h) ==
    /\ run[h].phase = "finally"
    /\ alarm' = (\/ alarm
                 \/ \E c \in Conns : IsOpen(conn[c])
                 \/ \E t \in Tasks : row[t].status = "claimed")
    /\ run' = [run EXCEPT ![h] = IdleRun]
    /\ UNCHANGED <<row, accounts, poolOn, wake, conn, att, inbox, tab, changes>>

-----------------------------------------------------------------------------
(* dispatch() after its snapshot.                                          *)

\* The kill switch, read again on every dispatch.
ReadSwitch(h) ==
    /\ run[h].phase = "switch"
    /\ run' = IF poolOn THEN [run EXCEPT ![h].phase = "select"] ELSE Over(h)
    /\ UNCHANGED <<row, accounts, poolOn, wake, conn, att, inbox, tab, alarm, changes>>

\* The first n tasks of a set, and a set in the order of the ranks.
Foremost(ts, n) == {t \in ts : Cardinality({s \in ts : Rank[s] < Rank[t]}) < n}

Ranked(ts) == {w \in [1..Cardinality(ts) -> ts] : \A i, j \in DOMAIN w : i < j => Rank[w[i]] < Rank[w[j]]}

Least(m, n) == IF m < n THEN m ELSE n

\* The candidate window: twice the pool's room, 64 at most, of the queued rows
\* of the types SOME agent takes, whether or not that agent has room.
Select(h) ==
    /\ run[h].phase = "select"
    /\ LET live == run[h].live
           copy == run[h].copy
           headroom == MapThenSumSet(LAMBDA c : Room(copy[c]), live)
           types == UNION {{y \in copy[c].config.types : MinimumCap(y) \in copy[c].config.caps} : c \in live}
           window == Foremost({t \in Tasks : CanClaim(row[t]) /\ TypeOf[t] \in types},
                              Least(headroom * 2, 64))
       IN IF headroom = 0 \/ types = {} THEN run' = Over(h)
          ELSE \E order \in Ranked(window) :
                  run' = [run EXCEPT ![h].phase = "hand", ![h].window = order]
    /\ UNCHANGED <<row, accounts, poolOn, wake, conn, att, inbox, tab, alarm, changes>>

\* Agents that may take t, as this handler sees them.
Candidates(h, t) == {c \in run[h].live : /\ Room(run[h].copy[c]) > 0
                                         /\ Capable(run[h].copy[c].config, t)}

\* The next row of the window is skipped: nobody has room for it, or the UPDATE
\* finds that it is not queued any more.
Skip(h) ==
    /\ run[h].phase = "hand" /\ run[h].window # <<>>
    /\ LET t == Head(run[h].window) IN
       Candidates(h, t) = {} \/ ~CanClaim(row[t]) \/ row[t].attempts >= MaxHandoffs
    /\ run' = [run EXCEPT ![h].window = Tail(@)]
    /\ UNCHANGED <<row, accounts, poolOn, wake, conn, att, inbox, tab, alarm, changes>>

\* The UPDATE claims t for the agent on c.
Hand(h, t, c) ==
    LET u == UserOf[TabOf[c]] IN
    /\ u \in accounts
    /\ row' = [row EXCEPT ![t] = Claimed(@, u, 1)]
    /\ run' = [run EXCEPT ![h].phase = "deliver", ![h].window = Tail(@), ![h].target = c,
                          ![h].claim = [task |-> t, user |-> u, attempts |-> row[t].attempts + 1,
                                        claimedAt |-> 1]]

HandNext(h) ==
    /\ run[h].phase = "hand" /\ run[h].window # <<>>
    /\ LET t == Head(run[h].window) IN
       /\ CanClaim(row[t]) /\ row[t].attempts < MaxHandoffs
       /\ \E c \in Candidates(h, t) : Hand(h, t, c)
    /\ UNCHANGED <<accounts, poolOn, wake, conn, att, inbox, tab, alarm, changes>>

\* The agent's account was deleted: the UPDATE fails on the foreign key, and
\* with it the rest of the run.
HandThrows(h) ==
    /\ run[h].phase = "hand" /\ run[h].window # <<>>
    /\ LET t == Head(run[h].window) IN
       /\ CanClaim(row[t])
       /\ \E c \in Candidates(h, t) : UserOf[TabOf[c]] \notin accounts
    /\ run' = Over(h)
    /\ UNCHANGED <<row, accounts, poolOn, wake, conn, att, inbox, tab, alarm, changes>>

HandedOut(h) ==
    /\ run[h].phase = "hand" /\ run[h].window = <<>>
    /\ run' = Over(h)
    /\ UNCHANGED <<row, accounts, poolOn, wake, conn, att, inbox, tab, alarm, changes>>

\* What a tab does with a task message: over budget or of a type it no longer
\* wants, it goes back; else it runs, in the slot of its task id.
Takes(b, k) == /\ Cardinality(tab[b].slots) < tab[b].config.max
               /\ TypeOf[k.task] \in tab[b].config.types

Arrive(c, k) ==
    LET b == TabOf[c] IN
    CASE conn[c] = "open" /\ Takes(b, k) ->
            /\ tab' = [tab EXCEPT ![b].running = @ \cup {k}, ![b].slots = @ \cup {k.task}]
            /\ inbox' = inbox
      [] conn[c] = "open" /\ ~Takes(b, k) ->
            /\ tab' = tab
            /\ inbox' = [inbox EXCEPT ![c] = Append(@, [type |-> "release", claim |-> k])]
      [] OTHER -> UNCHANGED <<tab, inbox>>

\* The claim is sent, and entered in the copy that becomes the attachment.
Deliver(h) ==
    /\ run[h].phase = "deliver"
    /\ LET c == run[h].target
           copy == [run[h].copy[c] EXCEPT !.holding = @ \cup {run[h].claim}]
       IN /\ conn[c] # "closed"
          /\ Arrive(c, run[h].claim)
          /\ att' = [att EXCEPT ![c] = copy]
          /\ run' = [run EXCEPT ![h].phase = "hand", ![h].copy[c] = copy,
                                ![h].target = None, ![h].claim = None]
    /\ UNCHANGED <<row, accounts, poolOn, wake, conn, alarm, changes>>

\* send() throws: the agent is dropped from this run, the row keeps its claim.
DeliverFails(h) ==
    /\ run[h].phase = "deliver"
    /\ conn[run[h].target] = "closed"
    /\ run' = [run EXCEPT ![h].phase = "hand", ![h].live = @ \ {run[h].target},
                          ![h].target = None, ![h].claim = None]
    /\ UNCHANGED <<row, accounts, poolOn, wake, conn, att, inbox, tab, alarm, changes>>

\* A D1 call throws.
Throw(h) ==
    /\ run[h].phase \in {"release", "reconcile", "switch", "select", "hand", "deliver"}
    /\ changes < MaxChanges
    /\ changes' = changes + 1
    /\ run' = Over(h)
    /\ UNCHANGED <<row, accounts, poolOn, wake, conn, att, inbox, tab, alarm>>

-----------------------------------------------------------------------------
(* The tabs.                                                               *)

Linked(b) == {c \in Conns : TabOf[c] = b /\ conn[c] = "open"}

\* send() of the tab: only over a socket that is OPEN.
Sent(b, m) == [c \in Conns |-> IF c \in Linked(b) THEN Append(inbox[c], m) ELSE inbox[c]]

Connect(b, c) ==
    /\ conn[c] = "new" /\ TabOf[c] = b
    /\ \A d \in Conns : TabOf[d] = b => conn[d] \notin {"joining", "open"}
    /\ conn' = [conn EXCEPT ![c] = "joining"]
    /\ att' = [att EXCEPT ![c].config = tab[b].config]
    /\ UNCHANGED <<row, accounts, poolOn, wake, inbox, tab, run, alarm, changes>>

\* A task ends: its result is accepted, its error is, or nothing was submitted
\* that the row accepts; then "done" is sent.
Finish(b, k, outcome) ==
    /\ k \in tab[b].running
    /\ outcome # "none" => HeldBy(row[k.task], k) /\ k.user \in accounts
    /\ row' = [row EXCEPT ![k.task] = CASE outcome = "ok"    -> CompletedRow(@, "null", 1)
                                        [] outcome = "error" -> ErrorRow(@, WillRetry(@))
                                        [] OTHER             -> @]
    /\ wake' = (wake \/ (outcome = "error" /\ WillRetry(row[k.task])))
    /\ tab' = [tab EXCEPT ![b].running = @ \ {k}, ![b].slots = @ \ {k.task}]
    /\ inbox' = Sent(b, [type |-> "done", claim |-> k])
    /\ UNCHANGED <<accounts, poolOn, conn, att, run, alarm, changes>>

\* The budget adapts, or the operator changes the settings.
Reconfigure(b, g) ==
    /\ changes < MaxChanges /\ g # tab[b].config
    /\ changes' = changes + 1
    /\ tab' = [tab EXCEPT ![b].config = g]
    /\ inbox' = Sent(b, [type |-> "config", config |-> g])
    /\ UNCHANGED <<row, accounts, poolOn, wake, conn, att, run, alarm>>

\* The connection drops; what the tab runs goes on.
Drop(c) ==
    /\ conn[c] = "open" /\ c \in Fragile
    /\ conn' = [conn EXCEPT ![c] = "dead"]
    /\ UNCHANGED <<row, accounts, poolOn, wake, att, inbox, tab, run, alarm, changes>>

\* stop(): everything the tab runs is aborted and its socket closed.
Stop(b) ==
    /\ Linked(b) \cap Fragile # {}
    /\ conn' = [c \in Conns |-> IF c \in Linked(b) THEN "dead" ELSE conn[c]]
    /\ tab' = [tab EXCEPT ![b].running = {}, ![b].slots = {}]
    /\ UNCHANGED <<row, accounts, poolOn, wake, att, inbox, run, alarm, changes>>

-----------------------------------------------------------------------------
(* The rest of the system.                                                 *)

\* dispatchWork: insert, then wakePool, whose failure is swallowed.
Enqueue(t) ==
    /\ row[t].status = "absent"
    /\ row' = [row EXCEPT ![t] = QueuedRow]
    /\ \/ wake' = TRUE /\ changes' = changes
       \/ wake' = wake /\ changes < MaxChanges /\ changes' = changes + 1
    /\ UNCHANGED <<accounts, poolOn, conn, att, inbox, tab, run, alarm>>

\* A claim's heartbeat is older than the TTL.
Lapse(t) ==
    /\ row[t].status = "claimed" /\ row[t].heartbeatAt = 1
    /\ row' = [row EXCEPT ![t].heartbeatAt = 0]
    /\ UNCHANGED <<accounts, poolOn, wake, conn, att, inbox, tab, run, alarm, changes>>

\* The cron's reclaimStaleWork, with its wake.
CronSweep ==
    /\ Swept # row
    /\ row' = Swept
    /\ wake' = (wake \/ \E t \in Tasks : row[t] # Swept[t] /\ Swept[t].status = "queued")
    /\ UNCHANGED <<accounts, poolOn, conn, att, inbox, tab, run, alarm, changes>>

SetPool(on) ==
    /\ poolOn # on /\ changes < MaxChanges
    /\ changes' = changes + 1
    /\ poolOn' = on
    /\ UNCHANGED <<row, accounts, wake, conn, att, inbox, tab, run, alarm>>

DeleteUser(u) ==
    /\ u \in accounts \cap Deletable
    /\ accounts' = accounts \ {u}
    /\ row' = [t \in Tasks |-> UserDeletedRow(row[t], u)]
    /\ UNCHANGED <<poolOn, wake, conn, att, inbox, tab, run, alarm, changes>>

\* A handler goes on, and goes on without an exception.
Proceed(h) == \/ ReleaseEnd(h) \/ Reconcile(h) \/ Finally(h)
              \/ ReadSwitch(h) \/ Select(h) \/ Skip(h)
              \/ HandNext(h) \/ HandThrows(h) \/ HandedOut(h)
              \/ Deliver(h) \/ DeliverFails(h)

HandleMessage(h, c) == Done(h, c) \/ Config(h, c) \/ Release(h, c) \/ IgnoreRelease(h, c)

Object == \E h \in Handlers :
             \/ Notify(h) \/ Alarm(h) \/ Proceed(h) \/ Throw(h)
             \/ \E c \in Conns : Join(h, c) \/ Close(h, c) \/ HandleMessage(h, c)

Browser == \E b \in Tabs :
              \/ \E c \in Conns : Connect(b, c)
              \/ \E k \in tab[b].running, o \in {"ok", "error", "none"} : Finish(b, k, o)
              \/ \E g \in Configs : Reconfigure(b, g)
              \/ Stop(b)

World == \/ \E c \in Conns : Drop(c)
         \/ \E t \in Tasks : Enqueue(t) \/ Lapse(t)
         \/ CronSweep
         \/ \E on \in BOOLEAN : SetPool(on)
         \/ \E u \in Users : DeleteUser(u)

Next == Object \/ Browser \/ World

Spec == Init /\ [][Next]_vars

\* What the runtime, the tabs and the cron do sooner or later.  Events wait for
\* the object and are all delivered, hence SF where the bound on handlers could
\* starve one; a tab's heartbeats stop when it no longer runs the claim.
Orphan(t) == \A b \in Tabs : \A k \in tab[b].running : ~HeldBy(row[t], k)

Fairness ==
    /\ \A h \in Handlers : WF_vars(Proceed(h))
    /\ SF_vars(\E h \in Handlers : Alarm(h))
    /\ SF_vars(\E h \in Handlers : Notify(h))
    /\ \A c \in Conns : /\ SF_vars(\E h \in Handlers : Join(h, c))
                        /\ SF_vars(\E h \in Handlers : HandleMessage(h, c))
    /\ \A b \in Tabs : WF_vars(\E k \in tab[b].running, o \in {"ok", "error", "none"} : Finish(b, k, o))
    /\ \A t \in Tasks : WF_vars(Orphan(t) /\ Lapse(t))
    /\ WF_vars(CronSweep)

LiveSpec == Spec /\ Fairness

-----------------------------------------------------------------------------
\* A tab that runs a claim and is heard of keeps the row: no other handler, not
\* of a connection the same user had before either, takes it away
\* (workCoordinator.ts 202-204).
KeepsWhatItRuns ==
    [][\A b \in Tabs : \A k \in tab[b].running :
         /\ HeldBy(row[k.task], k)
         /\ row[k.task].heartbeatAt = 1
         /\ accounts' = accounts
         => HeldBy(row'[k.task], k) \/ k \notin tab'[b].running]_vars

\* As long as a tab is connected the next sweep is on its way: in the alarm, or
\* in an alarm handler that will set it again, however the finally block
\* interleaves with joins and closes (workCoordinator.ts 221-248).
AlarmArmed ==
    (\E c \in Conns : IsOpen(conn[c])) =>
        alarm \/ \E h \in Handlers : run[h].isAlarm \/ run[h].phase = "finally"

Connected == \E c \in Conns : conn[c] = "open"

\* With agents that all take every row, a row that waits, for the first time or again,
\* is handed out as long as one of them is connected: a lost wake, a call that throws
\* or a copy that still counts a claim which is over delays it until the alarm
\* (workCoordinator.ts 221-248), and no longer.
EveryRowIsHandedOut ==
    \A t \in Tasks : row[t].status = "queued" ~>
        row[t].status # "queued" \/ row[t].attempts >= MaxHandoffs \/ ~Connected \/ ~poolOn

\* A claim that is over does not occupy its agent's slot for ever: again and again all
\* slots that count as held are held by claims under way. A handler that delivers a
\* later claim writes back the copy it took before "done" freed the slot, and while the
\* agent stays connected only the alarm's reconciliation, which asks the rows, ends
\* that (workCoordinator.ts 250-274, 415).
SlotsComeBack ==
    \A c \in Conns : []<>(\A k \in att[c].holding : HeldBy(row[k.task], k))

-----------------------------------------------------------------------------
(* The inductive invariant of the proofs: a claim is on its way to its tab,  *)
(* run by it or given back, in one of these places, and a later claim of the *)
(* row has a higher number.                                                  *)

Delivering(h) == run[h].phase = "deliver"
Returned(c, k) == \E i \in DOMAIN inbox[c] : inbox[c][i].type = "release" /\ inbox[c][i].claim = k

ClaimsAreCounted ==
    /\ \A h \in Handlers : Delivering(h) => run[h].claim.attempts <= row[run[h].claim.task].attempts
    /\ \A b \in Tabs : \A k \in tab[b].running : k.attempts <= row[k.task].attempts
    /\ \A c \in Conns, k \in Claim : Returned(c, k) => k.attempts <= row[k.task].attempts

ClaimsAreInOnePlace ==
    /\ \A g, h \in Handlers : Delivering(g) /\ Delivering(h) /\ g # h => run[g].claim # run[h].claim
    /\ \A a, b \in Tabs : a # b => tab[a].running \cap tab[b].running = {}
    /\ \A h \in Handlers : Delivering(h) =>
          /\ \A b \in Tabs : run[h].claim \notin tab[b].running
          /\ \A c \in Conns : ~Returned(c, run[h].claim)
    /\ \A b \in Tabs, c \in Conns : \A k \in tab[b].running : ~Returned(c, k)

AbsentRowsAreNew == \A t \in Tasks : row[t].status = "absent" => row[t].attempts = 0

IInv == TypeOK /\ ClaimsAreCounted /\ ClaimsAreInOnePlace /\ AbsentRowsAreNew

IdleIsNoAlarm == \A h \in Handlers : run[h].phase = "idle" => ~run[h].isAlarm
=============================================================================
