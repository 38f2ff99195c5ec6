------------------------ MODULE WorkCoordinatorProofs -------------------------
(***************************************************************************)
(* Theorems about WorkCoordinator, for any rows, tabs, connections,        *)
(* handlers in flight and bounds: the types, the alarm that is always on   *)
(* its way, and that a tab keeps the row it runs.                          *)
(***************************************************************************)
EXTENDS WorkCoordinator, FiniteSetTheorems, SequenceTheorems, TLAPS

\* The SET clauses of the coordinator's statements map rows to rows (WorkRows).
LEMMA StatementsKeepRows ==
    ASSUME NEW r \in Row
    PROVE  /\ QueuedRow \in Row /\ Released(r) \in Row
           /\ \A u \in Users, t \in Nat : Claimed(r, u, t) \in Row
           /\ \A n \in Notes, t \in Nat : CompletedRow(r, n, t) \in Row
           /\ \A b \in BOOLEAN : ErrorRow(r, b) \in Row /\ ReclaimedRow(r, b) \in Row
           /\ \A u \in Users : UserDeletedRow(r, u) \in Row
<1>1. QueuedRow \in Row
  BY DEF AbsentRow, QueuedRow, Row, Statuses, Notes
<1>2. CoalesceNote(r) \in Notes /\ Unclaimed(r) \in Row
  BY DEF CoalesceNote, Unclaimed, Row, Notes
<1>3. Released(r) \in Row
  BY <1>2 DEF Released, Row, Statuses
<1>4. ASSUME NEW u \in Users, NEW t \in Nat PROVE Claimed(r, u, t) \in Row
  BY DEF Claimed, Row, Statuses
<1>5. ASSUME NEW n \in Notes, NEW t \in Nat PROVE CompletedRow(r, n, t) \in Row
  BY DEF CompletedRow, Row, Statuses
<1>6. ASSUME NEW b \in BOOLEAN PROVE ErrorRow(r, b) \in Row
  BY <1>2 DEF ErrorRow, Row, Statuses, Notes
<1>7. ASSUME NEW b \in BOOLEAN PROVE ReclaimedRow(r, b) \in Row
  BY <1>2 DEF ReclaimedRow, Row, Statuses
<1>8. ASSUME NEW u \in Users PROVE UserDeletedRow(r, u) \in Row
  BY DEF UserDeletedRow, Row
<1>9. QED
  BY <1>1, <1>3, <1>4, <1>5, <1>6, <1>7, <1>8

-----------------------------------------------------------------------------
(* What the helpers return.                                                *)

\* A handler that is over is idle or, of the alarm, in its finally block.
LEMMA OverKeepsTypes ==
    ASSUME TypeOK, NEW h \in Handlers
    PROVE  /\ IdleRun \in Run
           /\ [IdleRun EXCEPT !.phase = "finally"] \in Run
           /\ Over(h) \in [Handlers -> Run]
<1>1. <<>> \in Seq(Tasks)
  OBVIOUS
<1>2. IdleRun \in Run
  BY <1>1 DEF IdleRun, Run, Phases
<1>3. [IdleRun EXCEPT !.phase = "finally"] \in Run
  BY <1>1, Zenon DEF IdleRun, Run, Phases
<1>4. QED
  BY <1>2, <1>3 DEF Over, TypeOK

\* liveAgents() copies the attachments of the live connections.
LEMMA SnapshotKeepsTypes ==
    ASSUME TypeOK, NEW h \in Handlers, NEW p \in Phases \ {"release", "deliver"}, NEW b \in BOOLEAN,
           NEW k \in [Conns -> Links], NEW a \in [Conns -> Agent],
           Snapshot(h, p, b, k, a)
    PROVE  conn' \in [Conns -> Links] /\ att' \in [Conns -> Agent] /\ run' \in [Handlers -> Run]
<1>1. PICK stale \in SUBSET {c \in Conns : k[c] = "dead"} :
        LET live == {c \in Conns \ stale : IsOpen(k[c])} IN
        /\ conn' = [c \in Conns |-> IF c \in stale THEN "closed" ELSE k[c]]
        /\ att' = [c \in Conns |-> IF c \in stale THEN [a[c] EXCEPT !.holding = {}] ELSE a[c]]
        /\ run' = [run EXCEPT ![h] =
             IF live # {}
             THEN [IdleRun EXCEPT !.phase = p, !.isAlarm = b, !.live = live,
                                  !.copy = [c \in Conns |-> IF c \in live THEN a[c] ELSE None]]
             ELSE IF b THEN [IdleRun EXCEPT !.phase = "finally"] ELSE IdleRun]
  BY Zenon DEF Snapshot
<1> DEFINE live == {c \in Conns \ stale : IsOpen(k[c])}
           taken == [c \in Conns |-> IF c \in live THEN a[c] ELSE None]
           started == [IdleRun EXCEPT !.phase = p, !.isAlarm = b, !.live = live, !.copy = taken]
<1>2. conn' \in [Conns -> Links]
  BY <1>1 DEF Links
<1>3. att' \in [Conns -> Agent]
  BY <1>1 DEF Agent
<1>4. started \in Run
  <2>1. <<>> \in Seq(Tasks)
    OBVIOUS
  <2>2. live \in SUBSET Conns
    OBVIOUS
  <2>3. taken \in [Conns -> Agent \cup {None}] /\ \A c \in live : taken[c] \in Agent
    OBVIOUS
  <2>4. b \in BOOLEAN /\ p \in Phases
    OBVIOUS
  <2> HIDE DEF live, taken
  <2>5. QED
    BY <2>1, <2>2, <2>3, <2>4 DEF IdleRun, Run
<1>5. run' \in [Handlers -> Run]
  BY <1>1, <1>4, OverKeepsTypes DEF TypeOK
<1>6. QED
  BY <1>2, <1>3, <1>5

\* The sweep changes rows to rows.
LEMMA SweptKeepsRows == ASSUME TypeOK PROVE Swept \in [Tasks -> Row]
<1>1. ASSUME NEW t \in Tasks PROVE ReclaimedRow(row[t], row[t].attempts >= MaxAttempts) \in Row
  <2>1. ReclaimedRow(row[t], TRUE) \in Row /\ ReclaimedRow(row[t], FALSE) \in Row
    BY StatementsKeepRows DEF TypeOK
  <2>2. QED
    BY <2>1 DEF ReclaimedRow
<1>2. QED
  BY <1>1 DEF Swept, TypeOK

\* Messages reach inboxes whole.
LEMMA SentKeepsTypes ==
    ASSUME TypeOK, NEW b, NEW m \in Message
    PROVE  Sent(b, m) \in [Conns -> Seq(Message)]
<1>1. ASSUME NEW c \in Conns PROVE Append(inbox[c], m) \in Seq(Message)
  BY AppendProperties DEF TypeOK
<1>2. QED
  BY <1>1 DEF Sent, TypeOK

\* The window of a handler is a sequence of rows.
LEMMA RankedIsSequence ==
    ASSUME NEW ts \in SUBSET Tasks, NEW w \in Ranked(ts)
    PROVE  w \in Seq(Tasks)
<1>1. Cardinality(ts) \in Nat
  BY TasksAssumption, FS_Subset, FS_CardinalityType
<1>2. w \in [1..Cardinality(ts) -> Tasks]
  BY DEF Ranked
<1>3. QED
  BY <1>1, <1>2, SeqDef

-----------------------------------------------------------------------------
(* Type correctness.                                                       *)

\* What the typing of a handler in flight gives.
LEMMA HandlerTypes ==
    ASSUME TypeOK, NEW h \in Handlers
    PROVE  /\ run[h] \in Run
           /\ run[h].isAlarm \in BOOLEAN
           /\ run[h].live \in SUBSET Conns
           /\ run[h].window \in Seq(Tasks)
           /\ run[h].copy \in [Conns -> Agent \cup {None}]
           /\ \A c \in run[h].live : run[h].copy[c] \in Agent
           /\ run[h].phase = "release" => run[h].target \in Conns /\ run[h].copy[run[h].target] \in Agent
           /\ run[h].phase = "deliver" => run[h].target \in run[h].live /\ run[h].claim \in Claim
BY DEF TypeOK, Run

\* A handler that dispatches takes its copies as any other.
LEMMA DispatchKeepsTypes ==
    ASSUME TypeOK, NEW h \in Handlers, NEW a \in [Conns -> Agent], Dispatch(h, a)
    PROVE  conn' \in [Conns -> Links] /\ att' \in [Conns -> Agent] /\ run' \in [Handlers -> Run]
<1>1. run[h].isAlarm \in BOOLEAN /\ conn \in [Conns -> Links] /\ "switch" \in Phases
  BY HandlerTypes DEF TypeOK, Phases
<1>2. Snapshot(h, "switch", run[h].isAlarm, conn, a)
  BY DEF Dispatch
<1>3. QED
  BY <1>1, <1>2, SnapshotKeepsTypes

\* The oldest message of an inbox is one, and taking it leaves the others.
LEMMA HandlingKeepsTypes ==
    ASSUME TypeOK, NEW h \in Handlers, NEW c \in Conns, NEW type, Handling(h, c, type)
    PROVE  /\ inbox' \in [Conns -> Seq(Message)]
           /\ Oldest(c) \in Message
           /\ type \in {"done", "release"} => Oldest(c).claim \in Claim
           /\ type = "config" => Oldest(c).config \in Configs
<1>1. Oldest(c) \in Message /\ Tail(inbox[c]) \in Seq(Message)
  BY HeadTailProperties DEF Handling, Oldest, TypeOK
<1>2. inbox' \in [Conns -> Seq(Message)]
  BY <1>1 DEF Handling, TypeOK
<1>3. Oldest(c).type = type
  BY DEF Handling
<1>4. QED
  BY <1>1, <1>2, <1>3 DEF Message

\* Init and every step of the object, the tabs and the rest keep the variables in
\* their types: a handler's copies are whole attachments of the connections it
\* took, and it delivers to one of them.
THEOREM TypeCorrect == Spec => []TypeOK
<1>1. Init => TypeOK
  <2> SUFFICES ASSUME Init PROVE TypeOK
    OBVIOUS
  <2>1. row \in [Tasks -> Row]
    BY DEF Init, AbsentRow, Row, Statuses, Notes
  <2>2. <<>> \in Seq(Message) /\ <<>> \in Seq(Tasks)
    OBVIOUS
  <2>3. IdleRun \in Run
    BY <2>2 DEF IdleRun, Run, Phases
  <2>4. att \in [Conns -> Agent] /\ tab \in [Tabs -> [config : Configs, running : SUBSET Claim, slots : SUBSET Tasks]]
    BY TabAssumption, ConfigAssumption DEF Init, Agent
  <2>5. /\ conn \in [Conns -> Links] /\ inbox \in [Conns -> Seq(Message)]
        /\ run \in [Handlers -> Run]
    BY <2>2, <2>3 DEF Init, Links
  <2>6. changes \in 0..MaxChanges
    BY CoordinatorBounds DEF Init
  <2>7. QED
    BY <2>1, <2>4, <2>5, <2>6 DEF Init, TypeOK
<1>2. TypeOK /\ [Next]_vars => TypeOK'
  <2> SUFFICES ASSUME TypeOK, [Next]_vars PROVE TypeOK'
    OBVIOUS
  <2>a. /\ \A t \in Tasks : row[t] \in Row
        /\ \A c \in Conns : att[c] \in Agent /\ conn[c] \in Links
        /\ conn \in [Conns -> Links] /\ att \in [Conns -> Agent]
        /\ \A t \in Tasks, r \in Row : [row EXCEPT ![t] = r] \in [Tasks -> Row]
        /\ \A h \in Handlers, r \in Run : [run EXCEPT ![h] = r] \in [Handlers -> Run]
    BY DEF TypeOK
  <2>1. ASSUME NEW h \in Handlers, Notify(h) PROVE TypeOK'
    <3>1. Dispatch(h, att)
      BY <2>1 DEF Notify
    <3>2. alarm' \in BOOLEAN
      BY <2>1 DEF Notify, TypeOK
    <3>3. QED
      BY <2>1, <2>a, <3>1, <3>2, DispatchKeepsTypes DEF Notify, TypeOK
  <2>2. ASSUME NEW h \in Handlers, NEW c \in Conns, Join(h, c) PROVE TypeOK'
    <3>1. [conn EXCEPT ![c] = "open"] \in [Conns -> Links] /\ "switch" \in Phases /\ FALSE \in BOOLEAN
      BY <2>a DEF Links, Phases
    <3>2. Snapshot(h, "switch", FALSE, [conn EXCEPT ![c] = "open"], att)
      BY <2>2 DEF Join
    <3>3. conn' \in [Conns -> Links] /\ att' \in [Conns -> Agent] /\ run' \in [Handlers -> Run]
      BY <2>a, <3>1, <3>2, SnapshotKeepsTypes
    <3>4. QED
      BY <2>2, <3>3 DEF Join, TypeOK
  <2>3. ASSUME NEW h \in Handlers, NEW c \in Conns, Done(h, c) PROVE TypeOK'
    <3>1. [att EXCEPT ![c].holding = @ \ {Oldest(c).claim}] \in [Conns -> Agent]
      BY <2>a DEF Agent
    <3>2. conn' \in [Conns -> Links] /\ att' \in [Conns -> Agent] /\ run' \in [Handlers -> Run]
      BY <2>3, <3>1, DispatchKeepsTypes DEF Done
    <3>3. QED
      BY <2>3, <3>2, HandlingKeepsTypes DEF Done, TypeOK
  <2>4. ASSUME NEW h \in Handlers, NEW c \in Conns, Config(h, c) PROVE TypeOK'
    <3>1. Handling(h, c, "config")
      BY <2>4 DEF Config
    <3>2. Oldest(c).config \in Configs
      BY <3>1, HandlingKeepsTypes
    <3>3. [att EXCEPT ![c].config = Oldest(c).config] \in [Conns -> Agent]
      BY <2>a, <3>2 DEF Agent
    <3>4. conn' \in [Conns -> Links] /\ att' \in [Conns -> Agent] /\ run' \in [Handlers -> Run]
      BY <2>4, <3>3, DispatchKeepsTypes DEF Config
    <3>5. QED
      BY <2>4, <3>1, <3>4, HandlingKeepsTypes DEF Config, TypeOK
  <2>5. ASSUME NEW h \in Handlers, NEW c \in Conns, Release(h, c) PROVE TypeOK'
    <3>1. Handling(h, c, "release")
      BY <2>5 DEF Release
    <3>2. inbox' \in [Conns -> Seq(Message)] /\ Oldest(c).claim \in Claim
      BY <3>1, HandlingKeepsTypes
    <3>3. Oldest(c).claim.task \in Tasks
      BY <3>2 DEF Claim
    <3>4. row' \in [Tasks -> Row]
      BY <2>5, <2>a, <3>3, StatementsKeepRows DEF Release
    <3> DEFINE r == [IdleRun EXCEPT !.phase = "release", !.target = c, !.claim = Oldest(c).claim,
                                    !.live = {c}, !.copy[c] = att[c]]
    <3>5. r \in Run
      <4>1. <<>> \in Seq(Tasks)
        OBVIOUS
      <4>2. att[c] \in Agent
        BY <2>a
      <4>3. [[d \in Conns |-> None] EXCEPT ![c] = att[c]] \in [Conns -> Agent \cup {None}]
        BY <4>2
      <4>4. QED
        BY <3>2, <4>1, <4>2, <4>3, ZenonT(30) DEF IdleRun, Run, Phases
    <3>6. run' \in [Handlers -> Run]
      BY <2>5, <2>a, <3>5 DEF Release
    <3>7. QED
      BY <2>5, <3>2, <3>4, <3>6 DEF Release, TypeOK
  <2>6. ASSUME NEW h \in Handlers, NEW c \in Conns, IgnoreRelease(h, c) PROVE TypeOK'
    BY <2>6, HandlingKeepsTypes DEF IgnoreRelease, TypeOK
  <2>7. ASSUME NEW h \in Handlers, ReleaseEnd(h) PROVE TypeOK'
    <3> DEFINE c == run[h].target
               copy == [run[h].copy[c] EXCEPT !.holding = @ \ {run[h].claim}]
               a == IF conn[c] = "closed" THEN att ELSE [att EXCEPT ![c] = copy]
    <3>1. copy \in Agent /\ c \in Conns
      BY <2>7, HandlerTypes, Zenon DEF ReleaseEnd, Agent
    <3>2. a \in [Conns -> Agent]
      BY <2>a, <3>1
    <3>3. Dispatch(h, a)
      BY <2>7 DEF ReleaseEnd
    <3> HIDE DEF a
    <3>4. conn' \in [Conns -> Links] /\ att' \in [Conns -> Agent] /\ run' \in [Handlers -> Run]
      BY <3>2, <3>3, DispatchKeepsTypes
    <3>5. QED
      BY <2>7, <3>4, Zenon DEF ReleaseEnd, TypeOK
  <2>8. ASSUME NEW h \in Handlers, NEW c \in Conns, Close(h, c) PROVE TypeOK'
    <3> DEFINE k == [conn EXCEPT ![c] = "closed"]
               a == [att EXCEPT ![c].holding = {}]
    <3>1. k \in [Conns -> Links] /\ a \in [Conns -> Agent]
      BY <2>a DEF Links, Agent
    <3>2. inbox' \in [Conns -> Seq(Message)]
      BY <2>8 DEF Close, TypeOK
    <3>3. CASE att[c].holding = {}
      BY <2>8, <3>1, <3>2, <3>3 DEF Close, TypeOK
    <3>4. CASE att[c].holding # {}
      <4>1. Snapshot(h, "switch", FALSE, k, a) /\ "switch" \in Phases
        BY <2>8, <3>4 DEF Close, Phases
      <4> HIDE DEF k, a
      <4>2. conn' \in [Conns -> Links] /\ att' \in [Conns -> Agent] /\ run' \in [Handlers -> Run]
        BY <3>1, <4>1, SnapshotKeepsTypes
      <4>3. QED
        BY <2>8, <3>2, <4>2 DEF Close, TypeOK
    <3>5. QED
      BY <3>3, <3>4
  <2>9. ASSUME NEW h \in Handlers, Alarm(h) PROVE TypeOK'
    <3>1. Snapshot(h, "reconcile", TRUE, conn, att) /\ "reconcile" \in Phases /\ TRUE \in BOOLEAN
      BY <2>9 DEF Alarm, Phases
    <3>2. conn' \in [Conns -> Links] /\ att' \in [Conns -> Agent] /\ run' \in [Handlers -> Run]
      BY <2>a, <3>1, SnapshotKeepsTypes
    <3>3. QED
      BY <2>9, <3>2, SweptKeepsRows DEF Alarm, TypeOK
  <2>10. ASSUME NEW h \in Handlers, Reconcile(h) PROVE TypeOK'
    <3> DEFINE copy == run[h].copy
               kept(c) == {k \in copy[c].holding : HeldBy(row[k.task], k)}
               a == [c \in Conns |->
                      IF c \in run[h].live /\ conn[c] # "closed" /\ kept(c) # copy[c].holding
                      THEN [copy[c] EXCEPT !.holding = kept(c)]
                      ELSE att[c]]
    <3>1. ASSUME NEW c \in run[h].live PROVE [copy[c] EXCEPT !.holding = kept(c)] \in Agent
      <4>1. copy[c] \in Agent
        BY HandlerTypes
      <4>2. QED
        BY <4>1 DEF Agent
    <3>2. a \in [Conns -> Agent]
      BY <2>a, <3>1
    <3>3. Dispatch(h, a)
      BY <2>10 DEF Reconcile
    <3> HIDE DEF a
    <3>4. conn' \in [Conns -> Links] /\ att' \in [Conns -> Agent] /\ run' \in [Handlers -> Run]
      BY <3>2, <3>3, DispatchKeepsTypes
    <3>5. QED
      BY <2>10, <3>4 DEF Reconcile, TypeOK
  <2>11. ASSUME NEW h \in Handlers, Finally(h) PROVE TypeOK'
    <3>1. alarm' \in BOOLEAN
      BY <2>11 DEF Finally, TypeOK
    <3>2. QED
      BY <2>11, <2>a, <3>1, OverKeepsTypes DEF Finally, TypeOK
  <2>12. ASSUME NEW h \in Handlers, ReadSwitch(h) PROVE TypeOK'
    <3>1. [run[h] EXCEPT !.phase = "select"] \in Run
      BY <2>12, HandlerTypes DEF Run, Phases
    <3>2. run' \in [Handlers -> Run]
      BY <2>12, <3>1, OverKeepsTypes DEF ReadSwitch, TypeOK
    <3>3. QED
      BY <2>12, <3>2 DEF ReadSwitch, TypeOK
  <2>13. ASSUME NEW h \in Handlers, Select(h) PROVE TypeOK'
    <3>1. ASSUME NEW ts \in SUBSET Tasks, NEW w \in Ranked(ts)
          PROVE  [run[h] EXCEPT !.phase = "hand", !.window = w] \in Run
      BY HandlerTypes, RankedIsSequence, ZenonT(30) DEF Run, Phases
    <3>2. \/ run' = Over(h)
          \/ \E ts \in SUBSET Tasks : \E w \in Ranked(ts) :
                run' = [run EXCEPT ![h].phase = "hand", ![h].window = w]
      BY <2>13 DEF Select, Foremost
    <3>3. ASSUME NEW ts \in SUBSET Tasks, NEW w \in Ranked(ts),
                 run' = [run EXCEPT ![h].phase = "hand", ![h].window = w]
          PROVE  run' \in [Handlers -> Run]
      BY <2>a, <3>1, <3>3 DEF TypeOK
    <3>4. run' \in [Handlers -> Run]
      BY <3>2, <3>3, OverKeepsTypes
    <3>5. QED
      BY <2>13, <3>4 DEF Select, TypeOK
  <2>14. ASSUME NEW h \in Handlers, Skip(h) PROVE TypeOK'
    <3>1. Tail(run[h].window) \in Seq(Tasks)
      BY <2>14, HandlerTypes, HeadTailProperties DEF Skip
    <3>2. [run[h] EXCEPT !.window = Tail(@)] \in Run
      BY <3>1, HandlerTypes DEF Run
    <3>3. run' \in [Handlers -> Run]
      BY <2>14, <3>2 DEF Skip, TypeOK
    <3>4. QED
      BY <2>14, <3>3 DEF Skip, TypeOK
  <2>15. ASSUME NEW h \in Handlers, HandNext(h) PROVE TypeOK'
    <3> DEFINE t == Head(run[h].window)
    <3>1. PICK c \in Candidates(h, t) : Hand(h, t, c)
      BY <2>15 DEF HandNext
    <3> DEFINE u == UserOf[TabOf[c]]
               k == [task |-> t, user |-> u, attempts |-> row[t].attempts + 1, claimedAt |-> 1]
    <3>2. t \in Tasks /\ Tail(run[h].window) \in Seq(Tasks)
      BY <2>15, HandlerTypes, HeadTailProperties DEF HandNext
    <3>3. c \in run[h].live /\ c \in Conns /\ u \in Users
      BY HandlerTypes, TabAssumption DEF Candidates
    <3>4. k \in Claim
      BY <2>a, <3>2, <3>3 DEF Claim, Row
    <3>5. row' \in [Tasks -> Row]
      <4>1. Claimed(row[t], u, 1) \in Row
        BY <2>a, <3>2, <3>3, StatementsKeepRows
      <4>2. QED
        BY <2>a, <3>1, <3>2, <4>1 DEF Hand
    <3>6. [run[h] EXCEPT !.phase = "deliver", !.window = Tail(@), !.target = c, !.claim = k] \in Run
      <4> HIDE DEF k
      <4>1. QED
        BY <3>2, <3>3, <3>4, HandlerTypes, ZenonT(30) DEF Run, Phases
    <3>7. run' \in [Handlers -> Run]
      BY <2>a, <3>1, <3>6 DEF Hand, TypeOK
    <3>8. QED
      BY <2>15, <3>5, <3>7 DEF HandNext, TypeOK
  <2>16. ASSUME NEW h \in Handlers, HandThrows(h) \/ HandedOut(h) PROVE TypeOK'
    BY <2>16, OverKeepsTypes, SMTT(30) DEF HandThrows, HandedOut, TypeOK
  <2>17. ASSUME NEW h \in Handlers, Deliver(h) PROVE TypeOK'
    <3> DEFINE c == run[h].target
               k == run[h].claim
               copy == [run[h].copy[c] EXCEPT !.holding = @ \cup {k}]
    <3>1. /\ c \in Conns /\ c \in run[h].live /\ k \in Claim /\ run[h].copy[c] \in Agent
          /\ TabOf[c] \in Tabs /\ k.task \in Tasks
      BY <2>17, HandlerTypes, TabAssumption DEF Deliver, Claim
    <3>2. copy \in Agent
      BY <3>1 DEF Agent
    <3>3. [type |-> "release", claim |-> k] \in Message
      BY <3>1 DEF Message
    <3>4. /\ tab' \in [Tabs -> [config : Configs, running : SUBSET Claim, slots : SUBSET Tasks]]
          /\ inbox' \in [Conns -> Seq(Message)]
      <4>1. Append(inbox[c], [type |-> "release", claim |-> k]) \in Seq(Message)
        BY <3>1, <3>3, AppendProperties, SMTT(30) DEF TypeOK
      <4>2. Arrive(c, k)
        BY <2>17 DEF Deliver
      <4> HIDE DEF k, c
      <4>3. \/ /\ tab' = [tab EXCEPT ![TabOf[c]].running = @ \cup {k}, ![TabOf[c]].slots = @ \cup {k.task}]
               /\ inbox' = inbox
            \/ /\ tab' = tab
               /\ inbox' = [inbox EXCEPT ![c] = Append(@, [type |-> "release", claim |-> k])]
            \/ UNCHANGED <<tab, inbox>>
        BY <4>2 DEF Arrive
      <4>4. CASE /\ tab' = [tab EXCEPT ![TabOf[c]].running = @ \cup {k}, ![TabOf[c]].slots = @ \cup {k.task}]
                 /\ inbox' = inbox
        BY <3>1, <4>4, ZenonT(30) DEF TypeOK
      <4>5. CASE /\ tab' = tab
                 /\ inbox' = [inbox EXCEPT ![c] = Append(@, [type |-> "release", claim |-> k])]
        BY <4>1, <4>5 DEF TypeOK
      <4>6. QED
        BY <4>3, <4>4, <4>5 DEF TypeOK
    <3>5. [run[h] EXCEPT !.phase = "hand", !.copy[c] = copy, !.target = None, !.claim = None] \in Run
      <4> HIDE DEF copy, c
      <4>1. QED
        BY <3>1, <3>2, HandlerTypes, ZenonT(30) DEF Run, Phases
    <3>6. run' \in [Handlers -> Run] /\ att' \in [Conns -> Agent]
      BY <2>17, <2>a, <3>1, <3>2, <3>5 DEF Deliver, TypeOK
    <3>7. QED
      BY <2>17, <3>4, <3>6, SMTT(30) DEF Deliver, TypeOK
  <2>18. ASSUME NEW h \in Handlers, DeliverFails(h) PROVE TypeOK'
    <3>1. [run[h] EXCEPT !.phase = "hand", !.live = @ \ {run[h].target}, !.target = None, !.claim = None] \in Run
      BY HandlerTypes, ZenonT(30) DEF Run, Phases
    <3>2. run' \in [Handlers -> Run]
      BY <2>18, <2>a, <3>1 DEF DeliverFails, TypeOK
    <3>3. QED
      BY <2>18, <3>2 DEF DeliverFails, TypeOK
  <2>19. ASSUME NEW h \in Handlers, Throw(h) PROVE TypeOK'
    BY <2>19, OverKeepsTypes, CoordinatorBounds DEF Throw, TypeOK
  <2>20. ASSUME NEW b \in Tabs, NEW c \in Conns, Connect(b, c) PROVE TypeOK'
    <3>1. att' \in [Conns -> Agent] /\ conn' \in [Conns -> Links]
      BY <2>20, <2>a, ZenonT(30) DEF Connect, TypeOK, Agent, Links
    <3>2. QED
      BY <2>20, <3>1 DEF Connect, TypeOK
  <2>21. ASSUME NEW b \in Tabs, NEW k \in tab[b].running, NEW o, Finish(b, k, o) PROVE TypeOK'
    <3>1. k \in Claim /\ k.task \in Tasks
      BY DEF TypeOK, Claim
    <3>2. row' \in [Tasks -> Row]
      <4>1. /\ CompletedRow(row[k.task], "null", 1) \in Row
            /\ ErrorRow(row[k.task], WillRetry(row[k.task])) \in Row
        <5>1. row[k.task] \in Row /\ "null" \in Notes
          BY <2>a, <3>1 DEF Notes
        <5>2. ErrorRow(row[k.task], TRUE) \in Row /\ ErrorRow(row[k.task], FALSE) \in Row
          BY <5>1, StatementsKeepRows
        <5>3. CompletedRow(row[k.task], "null", 1) \in Row
          BY <5>1, StatementsKeepRows
        <5>4. QED
          BY <5>2, <5>3 DEF ErrorRow
      <4>2. QED
        BY <2>21, <2>a, <3>1, <4>1 DEF Finish
    <3>3. tab' \in [Tabs -> [config : Configs, running : SUBSET Claim, slots : SUBSET Tasks]]
      BY <2>21 DEF Finish, TypeOK
    <3>4. inbox' \in [Conns -> Seq(Message)]
      <4>1. [type |-> "done", claim |-> k] \in Message
        BY <3>1 DEF Message
      <4>2. QED
        BY <2>21, <4>1, SentKeepsTypes DEF Finish
    <3>5. wake' \in BOOLEAN
      BY <2>21 DEF Finish, TypeOK
    <3>6. QED
      BY <2>21, <3>2, <3>3, <3>4, <3>5 DEF Finish, TypeOK
  <2>22. ASSUME NEW b \in Tabs, NEW g \in Configs, Reconfigure(b, g) PROVE TypeOK'
    <3>1. [type |-> "config", config |-> g] \in Message
      BY DEF Message
    <3>2. inbox' \in [Conns -> Seq(Message)]
      BY <2>22, <3>1, SentKeepsTypes DEF Reconfigure
    <3>3. tab' \in [Tabs -> [config : Configs, running : SUBSET Claim, slots : SUBSET Tasks]]
      BY <2>22 DEF Reconfigure, TypeOK
    <3>4. changes' \in 0..MaxChanges
      BY <2>22, CoordinatorBounds DEF Reconfigure, TypeOK
    <3>5. QED
      BY <2>22, <3>2, <3>3, <3>4 DEF Reconfigure, TypeOK
  <2>23. ASSUME NEW c \in Conns, Drop(c) PROVE TypeOK'
    BY <2>23 DEF Drop, TypeOK, Links
  <2>24. ASSUME NEW b \in Tabs, Stop(b) PROVE TypeOK'
    BY <2>24, ZenonT(30) DEF Stop, TypeOK, Links
  <2>25. ASSUME NEW t \in Tasks, Enqueue(t) PROVE TypeOK'
    <3>1. row' \in [Tasks -> Row]
      BY <2>25, <2>a, StatementsKeepRows DEF Enqueue
    <3>2. wake' \in BOOLEAN
      BY <2>25 DEF Enqueue, TypeOK
    <3>3. changes' = changes \/ (changes < MaxChanges /\ changes' = changes + 1)
      BY <2>25 DEF Enqueue
    <3>4. changes' \in 0..MaxChanges
      BY <3>3, CoordinatorBounds DEF TypeOK
    <3>5. QED
      BY <2>25, <3>1, <3>2, <3>4 DEF Enqueue, TypeOK
  <2>26. ASSUME NEW t \in Tasks, Lapse(t) PROVE TypeOK'
    <3>1. [row[t] EXCEPT !.heartbeatAt = 0] \in Row
      BY <2>a DEF Row
    <3>2. row' \in [Tasks -> Row]
      BY <2>26, <3>1 DEF Lapse, TypeOK
    <3>3. QED
      BY <2>26, <3>2 DEF Lapse, TypeOK
  <2>27. CASE CronSweep
    BY <2>27, SweptKeepsRows DEF CronSweep, TypeOK
  <2>28. ASSUME NEW on \in BOOLEAN, SetPool(on) PROVE TypeOK'
    BY <2>28, CoordinatorBounds DEF SetPool, TypeOK
  <2>29. ASSUME NEW u \in Users, DeleteUser(u) PROVE TypeOK'
    <3>1. \A t \in Tasks : UserDeletedRow(row[t], u) \in Row
      BY <2>a, StatementsKeepRows, Zenon
    <3>2. QED
      BY <2>29, <3>1 DEF DeleteUser, TypeOK
  <2>30. CASE UNCHANGED vars
    BY <2>30 DEF vars, TypeOK
  <2>31. QED
    <3>1. CASE Object
      BY <3>1, <2>1, <2>2, <2>3, <2>4, <2>5, <2>6, <2>7, <2>8, <2>9, <2>10, <2>11, <2>12,
         <2>13,
         <2>14, <2>15, <2>16, <2>17, <2>18, <2>19 DEF Object, Proceed, HandleMessage
    <3>2. CASE Browser
      BY <3>2, <2>20, <2>21, <2>22, <2>24 DEF Browser
    <3>3. CASE World
      BY <3>3, <2>23, <2>25, <2>26, <2>27, <2>28, <2>29 DEF World
    <3>4. QED
      BY <3>1, <3>2, <3>3, <2>30 DEF Next
<1>3. QED
  BY <1>1, <1>2, PTL DEF Spec

-----------------------------------------------------------------------------
(* The sweep is always on its way.                                         *)

\* Handlers of the alarm that have not reached the end of their finally block.
Sweeping(h) == run[h].isAlarm \/ run[h].phase = "finally"

\* A handler that takes its copies stays the alarm's if it was; no connection
\* opens meanwhile, and no other handler is touched.
LEMMA SnapshotChanges ==
    ASSUME TypeOK, NEW h \in Handlers, NEW p \in Phases \ {"idle"}, NEW b \in BOOLEAN,
           NEW k \in [Conns -> Links], NEW a, Snapshot(h, p, b, k, a)
    PROVE  /\ \A g \in Handlers \ {h} : run'[g] = run[g]
           /\ b => Sweeping(h)'
           /\ run'[h].phase = "idle" => ~run'[h].isAlarm
           /\ run'[h].phase \in {p, "finally", "idle"}
           /\ \A c \in Conns : IsOpen(conn'[c]) => IsOpen(k[c])
<1>1. PICK stale \in SUBSET {c \in Conns : k[c] = "dead"} :
        LET live == {c \in Conns \ stale : IsOpen(k[c])} IN
        /\ conn' = [c \in Conns |-> IF c \in stale THEN "closed" ELSE k[c]]
        /\ run' = [run EXCEPT ![h] =
             IF live # {}
             THEN [IdleRun EXCEPT !.phase = p, !.isAlarm = b, !.live = live,
                                  !.copy = [c \in Conns |-> IF c \in live THEN a[c] ELSE None]]
             ELSE IF b THEN [IdleRun EXCEPT !.phase = "finally"] ELSE IdleRun]
  BY Zenon DEF Snapshot
<1>2. \/ run'[h].phase = p /\ run'[h].isAlarm = b
      \/ b /\ run'[h].phase = "finally"
      \/ ~b /\ run'[h].phase = "idle" /\ ~run'[h].isAlarm
  BY <1>1 DEF IdleRun, TypeOK
<1>3. \A c \in Conns : IsOpen(conn'[c]) => IsOpen(k[c])
  BY <1>1 DEF IsOpen
<1>4. \A g \in Handlers \ {h} : run'[g] = run[g]
  BY <1>1 DEF TypeOK
<1>5. QED
  BY <1>2, <1>3, <1>4 DEF Sweeping

\* So does one that dispatches, and one that is over.
LEMMA DispatchChanges ==
    ASSUME TypeOK, NEW h \in Handlers, NEW a, Dispatch(h, a)
    PROVE  /\ \A g \in Handlers \ {h} : run'[g] = run[g]
           /\ run[h].isAlarm => Sweeping(h)'
           /\ run'[h].phase = "idle" => ~run'[h].isAlarm
           /\ run'[h].phase \in {"switch", "finally", "idle"}
           /\ \A c \in Conns : IsOpen(conn'[c]) => IsOpen(conn[c])
<1>1. "switch" \in Phases \ {"idle"} /\ run[h].isAlarm \in BOOLEAN /\ conn \in [Conns -> Links]
  BY HandlerTypes DEF Phases, TypeOK
<1>2. Snapshot(h, "switch", run[h].isAlarm, conn, a)
  BY DEF Dispatch
<1>3. QED
  BY <1>1, <1>2, SnapshotChanges

LEMMA OverChanges ==
    ASSUME TypeOK, NEW h \in Handlers, run' = Over(h)
    PROVE  /\ \A g \in Handlers \ {h} : run'[g] = run[g]
           /\ run[h].isAlarm => Sweeping(h)'
           /\ run'[h].phase = "idle" => ~run'[h].isAlarm
           /\ run'[h].phase \in {"finally", "idle"}
BY DEF Over, IdleRun, TypeOK, Sweeping

\* A step that changes one handler, opens no connection and neither clears the
\* alarm nor ends a sweep keeps the next sweep on its way.
LEMMA StaysArmed ==
    ASSUME AlarmArmed, IdleIsNoAlarm, NEW h \in Handlers,
           \A g \in Handlers \ {h} : run'[g] = run[g],
           Sweeping(h) => Sweeping(h)',
           run'[h].phase = "idle" => ~run'[h].isAlarm,
           \A c \in Conns : IsOpen(conn'[c]) => IsOpen(conn[c]),
           alarm' = alarm
    PROVE  AlarmArmed' /\ IdleIsNoAlarm'
BY DEF AlarmArmed, IdleIsNoAlarm, Sweeping

\* As long as a tab is connected the alarm is set or its handler will set it again,
\* however the finally block interleaves with joins, closes and failing calls
\* (workCoordinator.ts 221-248).  Inductive with the fact that an idle handler is
\* not the alarm's: a handler of the alarm cannot end but in its finally block.
THEOREM SweepIsOnItsWay == Spec => []AlarmArmed
<1> DEFINE Armed == AlarmArmed /\ IdleIsNoAlarm
<1>1. Init => Armed
  BY DEF Init, AlarmArmed, IdleIsNoAlarm, IsOpen, IdleRun
<1>2. TypeOK /\ Armed /\ [Next]_vars => Armed'
  <2> SUFFICES ASSUME TypeOK, AlarmArmed, IdleIsNoAlarm, [Next]_vars PROVE Armed'
    OBVIOUS
  <2>1. ASSUME NEW h \in Handlers, Notify(h) PROVE Armed'
    <3>1. /\ \A g \in Handlers \ {h} : run'[g] = run[g]
          /\ run'[h].phase = "idle" => ~run'[h].isAlarm
      BY <2>1, DispatchChanges DEF Notify
    <3>2. IdleIsNoAlarm'
      BY <3>1 DEF IdleIsNoAlarm
    <3>3. QED
      BY <2>1, <3>2 DEF Notify, AlarmArmed
  <2>2. ASSUME NEW h \in Handlers, NEW c \in Conns, Join(h, c) PROVE Armed'
    <3> DEFINE k == [conn EXCEPT ![c] = "open"]
    <3>1. k \in [Conns -> Links] /\ "switch" \in Phases \ {"idle"} /\ FALSE \in BOOLEAN
      BY DEF TypeOK, Links, Phases
    <3>2. Snapshot(h, "switch", FALSE, k, att)
      BY <2>2 DEF Join
    <3> HIDE DEF k
    <3>3. /\ \A g \in Handlers \ {h} : run'[g] = run[g]
          /\ run'[h].phase = "idle" => ~run'[h].isAlarm
      BY <3>1, <3>2, SnapshotChanges
    <3>4. IdleIsNoAlarm'
      BY <3>3 DEF IdleIsNoAlarm
    <3>5. QED
      BY <2>2, <3>4 DEF Join, AlarmArmed
  <2>3. ASSUME NEW h \in Handlers, NEW c \in Conns, Done(h, c) \/ Config(h, c) PROVE Armed'
    <3>1. PICK a : Dispatch(h, a)
      BY <2>3 DEF Done, Config
    <3>2. ~Sweeping(h) /\ alarm' = alarm
      BY <2>3 DEF Done, Config, Handling, Sweeping, IdleIsNoAlarm
    <3>3. QED
      BY <3>1, <3>2, DispatchChanges, StaysArmed
  <2>4. ASSUME NEW h \in Handlers, NEW c \in Conns, Release(h, c) PROVE Armed'
    <3>1. ~Sweeping(h)
      BY <2>4 DEF Release, Handling, Sweeping, IdleIsNoAlarm
    <3>2. run'[h].phase = "release" /\ \A g \in Handlers \ {h} : run'[g] = run[g]
      BY <2>4 DEF Release, IdleRun, TypeOK
    <3>3. conn' = conn /\ alarm' = alarm
      BY <2>4 DEF Release
    <3>4. QED
      BY <3>1, <3>2, <3>3, StaysArmed
  <2>5. ASSUME NEW h \in Handlers, ReleaseEnd(h) \/ Reconcile(h) PROVE Armed'
    <3>1. PICK a : Dispatch(h, a)
      BY <2>5 DEF ReleaseEnd, Reconcile
    <3>2. run[h].phase # "finally" /\ alarm' = alarm
      BY <2>5 DEF ReleaseEnd, Reconcile
    <3>3. QED
      BY <3>1, <3>2, DispatchChanges, StaysArmed DEF Sweeping
  <2>6. ASSUME NEW h \in Handlers, NEW c \in Conns, Close(h, c) PROVE Armed'
    <3> DEFINE k == [conn EXCEPT ![c] = "closed"]
               a == [att EXCEPT ![c].holding = {}]
    <3>1. ~Sweeping(h) /\ alarm' = alarm
      BY <2>6 DEF Close, Sweeping, IdleIsNoAlarm
    <3>2. k \in [Conns -> Links] /\ \A d \in Conns : IsOpen(k[d]) => IsOpen(conn[d])
      BY DEF TypeOK, Links, IsOpen
    <3>3. CASE conn' = k /\ run' = run
      BY <3>1, <3>2, <3>3, StaysArmed DEF IdleIsNoAlarm
    <3>4. CASE Snapshot(h, "switch", FALSE, k, a)
      <4>1. "switch" \in Phases \ {"idle"} /\ FALSE \in BOOLEAN
        BY DEF Phases
      <4> HIDE DEF k, a
      <4>2. QED
        BY <3>1, <3>2, <3>4, <4>1, SnapshotChanges, StaysArmed
    <3>5. QED
      BY <2>6, <3>3, <3>4 DEF Close
  <2>7. ASSUME NEW h \in Handlers, Alarm(h) PROVE Armed'
    <3>1. "reconcile" \in Phases \ {"idle"} /\ TRUE \in BOOLEAN /\ conn \in [Conns -> Links]
      BY DEF Phases, TypeOK
    <3>2. Snapshot(h, "reconcile", TRUE, conn, att)
      BY <2>7 DEF Alarm
    <3>3. /\ \A g \in Handlers \ {h} : run'[g] = run[g]
          /\ Sweeping(h)'
          /\ run'[h].phase = "idle" => ~run'[h].isAlarm
      BY <3>1, <3>2, SnapshotChanges
    <3>4. QED
      BY <3>3 DEF AlarmArmed, IdleIsNoAlarm, Sweeping
  <2>8. ASSUME NEW h \in Handlers, Finally(h) PROVE Armed'
    <3>1. run'[h] = IdleRun /\ \A g \in Handlers \ {h} : run'[g] = run[g]
      BY <2>8 DEF Finally, TypeOK
    <3>2. IdleIsNoAlarm'
      BY <3>1 DEF IdleIsNoAlarm, IdleRun
    <3>3. AlarmArmed'
      BY <2>8 DEF Finally, AlarmArmed
    <3>4. QED
      BY <3>2, <3>3
  <2>9. ASSUME NEW h \in Handlers,
               \/ ReadSwitch(h) \/ Select(h) \/ Skip(h) \/ HandNext(h) \/ HandThrows(h)
               \/ HandedOut(h) \/ Deliver(h) \/ DeliverFails(h) \/ Throw(h)
        PROVE  Armed'
    <3>1. conn' = conn /\ alarm' = alarm /\ run[h].phase # "finally" /\ run[h].phase # "idle"
      BY <2>9, Zenon DEF ReadSwitch, Select, Skip, HandNext, Hand, HandThrows, HandedOut, Deliver,
         DeliverFails, Throw
    <3>2. \/ run' = Over(h)
          \/ /\ \A g \in Handlers \ {h} : run'[g] = run[g]
             /\ run'[h].isAlarm = run[h].isAlarm
             /\ run'[h].phase # "idle"
      <4>1. CASE ReadSwitch(h)
        BY <4>1 DEF ReadSwitch, TypeOK, Run
      <4>2. CASE Select(h)
        <5>1. \/ run' = Over(h)
              \/ \E w : run' = [run EXCEPT ![h].phase = "hand", ![h].window = w]
          BY <4>2 DEF Select
        <5>2. ASSUME NEW w, run' = [run EXCEPT ![h].phase = "hand", ![h].window = w]
              PROVE  /\ \A g \in Handlers \ {h} : run'[g] = run[g]
                     /\ run'[h].isAlarm = run[h].isAlarm
                     /\ run'[h].phase # "idle"
          BY <5>2 DEF TypeOK, Run
        <5>3. QED
          BY <5>1, <5>2
      <4>3. CASE Skip(h)
        BY <4>3 DEF Skip, TypeOK, Run
      <4>4. CASE HandNext(h)
        BY <4>4, SMTT(30) DEF HandNext, Hand, TypeOK, Run
      <4>5. CASE Deliver(h) \/ DeliverFails(h)
        BY <4>5 DEF Deliver, DeliverFails, TypeOK, Run
      <4>6. QED
        BY <2>9, <4>1, <4>2, <4>3, <4>4, <4>5 DEF HandThrows, HandedOut, Throw
    <3>3. QED
      BY <3>1, <3>2, OverChanges, StaysArmed, Zenon DEF Sweeping
  <2>10. ASSUME run' = run, alarm' = alarm, \A c \in Conns : IsOpen(conn'[c]) => IsOpen(conn[c])
         PROVE  Armed'
    BY <2>10 DEF AlarmArmed, IdleIsNoAlarm
  <2>11. CASE Object
    <3>1. ASSUME NEW h \in Handlers, NEW c \in Conns, IgnoreRelease(h, c) PROVE Armed'
      BY <3>1, <2>10 DEF IgnoreRelease
    <3>2. QED
      BY <2>11, <2>1, <2>2, <2>3, <2>4, <2>5, <2>6, <2>7, <2>8, <2>9, <3>1 DEF Object,
         Proceed, HandleMessage
  <2>12. CASE Browser
    <3>1. run' = run /\ alarm' = alarm /\ \A c \in Conns : IsOpen(conn'[c]) => IsOpen(conn[c])
      BY <2>12, ZenonT(30) DEF Browser, Connect, Finish, Reconfigure, Stop, Linked, IsOpen, TypeOK
    <3>2. QED
      BY <3>1, <2>10
  <2>13. CASE World
    <3>1. run' = run /\ alarm' = alarm /\ \A c \in Conns : IsOpen(conn'[c]) => IsOpen(conn[c])
      BY <2>13 DEF World, Drop, Enqueue, Lapse, CronSweep, SetPool, DeleteUser, IsOpen,
         TypeOK
    <3>2. QED
      BY <3>1, <2>10
  <2>14. CASE UNCHANGED vars
    BY <2>14, <2>10 DEF vars
  <2>15. QED
    BY <2>11, <2>12, <2>13, <2>14 DEF Next
<1>3. QED
  BY <1>1, <1>2, TypeCorrect, PTL DEF Spec

-----------------------------------------------------------------------------
(* A claim is in one place, and the row counts it.                         *)

\* What an inbox gives back after a message was added or taken.
LEMMA AppendReturns ==
    ASSUME NEW s \in Seq(Message), NEW m \in Message, NEW i \in DOMAIN Append(s, m)
    PROVE  (i \in DOMAIN s /\ Append(s, m)[i] = s[i]) \/ Append(s, m)[i] = m
<1>1. DOMAIN s = 1..Len(s) /\ DOMAIN Append(s, m) = 1..(Len(s) + 1) /\ Len(s) \in Nat
  OBVIOUS
<1>2. CASE i = Len(s) + 1
  BY <1>2
<1>3. CASE i \in 1..Len(s)
  BY <1>1, <1>3
<1>4. QED
  BY <1>1, <1>2, <1>3

LEMMA TailReturns ==
    ASSUME NEW s \in Seq(Message), s # <<>>, NEW i \in DOMAIN Tail(s)
    PROVE  i + 1 \in DOMAIN s /\ Tail(s)[i] = s[i + 1]
OBVIOUS

\* Messages other than "release", and taking one, give no claim back.
LEMMA SentReturnsNothing ==
    ASSUME TypeOK, NEW b, NEW m \in Message, m.type # "release", inbox' = Sent(b, m),
           NEW c \in Conns, NEW k, Returned(c, k)'
    PROVE  Returned(c, k)
<1>1. PICK i \in DOMAIN inbox'[c] : inbox'[c][i].type = "release" /\ inbox'[c][i].claim = k
  BY DEF Returned
<1>2. inbox'[c] = Append(inbox[c], m) \/ inbox'[c] = inbox[c]
  BY DEF Sent
<1>3. inbox[c] \in Seq(Message)
  BY DEF TypeOK
<1>4. i \in DOMAIN inbox[c] /\ inbox'[c][i] = inbox[c][i]
  BY <1>1, <1>2, <1>3, AppendReturns
<1>5. QED
  BY <1>1, <1>4 DEF Returned

LEMMA HandlingReturnsNothing ==
    ASSUME TypeOK, NEW h \in Handlers, NEW d \in Conns, NEW type, Handling(h, d, type),
           NEW c \in Conns, NEW k, Returned(c, k)'
    PROVE  Returned(c, k)
<1>1. PICK i \in DOMAIN inbox'[c] : inbox'[c][i].type = "release" /\ inbox'[c][i].claim = k
  BY DEF Returned
<1>2. CASE c = d
  <2>1. inbox'[c] = Tail(inbox[c]) /\ inbox[c] \in Seq(Message) /\ inbox[c] # <<>>
    BY <1>2 DEF Handling, TypeOK
  <2>2. i + 1 \in DOMAIN inbox[c] /\ inbox'[c][i] = inbox[c][i + 1]
    BY <1>1, <2>1, TailReturns
  <2>3. QED
    BY <1>1, <2>2 DEF Returned
<1>3. CASE c # d
  BY <1>1, <1>3 DEF Handling, TypeOK, Returned
<1>4. QED
  BY <1>2, <1>3

\* A step that puts no claim anywhere, and no row back, keeps the invariant.
RowsCount == \A t \in Tasks : /\ row'[t].attempts >= row[t].attempts
                              /\ row'[t].status = "absent" => row'[t].attempts = 0

ClaimsStay ==
    /\ \A h \in Handlers : Delivering(h)' => Delivering(h) /\ run'[h].claim = run[h].claim
    /\ \A b \in Tabs : tab'[b].running \subseteq tab[b].running
    /\ \A c \in Conns, k \in Claim : Returned(c, k)' => Returned(c, k)

LEMMA StaysCounted ==
    ASSUME IInv, TypeOK', RowsCount, ClaimsStay
    PROVE  IInv'
<1>1. /\ \A h \in Handlers : Delivering(h) => run[h].claim \in Claim
      /\ \A b \in Tabs : tab[b].running \subseteq Claim
      /\ \A k \in Claim : k.task \in Tasks /\ k.attempts \in Nat
      /\ \A t \in Tasks : row[t].attempts \in Nat /\ row'[t].attempts \in Nat
  BY HandlerTypes DEF IInv, TypeOK, Delivering, Claim, Row
<1>2. ClaimsAreCounted'
  <2>1. ASSUME NEW h \in Handlers, Delivering(h)'
        PROVE  run'[h].claim.attempts <= row'[run'[h].claim.task].attempts
    BY <1>1, <2>1 DEF IInv, ClaimsAreCounted, RowsCount, ClaimsStay
  <2>2. ASSUME NEW b \in Tabs, NEW k \in tab'[b].running PROVE k.attempts <= row'[k.task].attempts
    BY <1>1, <2>2 DEF IInv, ClaimsAreCounted, RowsCount, ClaimsStay
  <2>3. ASSUME NEW c \in Conns, NEW k \in Claim, Returned(c, k)' PROVE k.attempts <= row'[k.task].attempts
    BY <1>1, <2>3 DEF IInv, ClaimsAreCounted, RowsCount, ClaimsStay
  <2>4. QED
    BY <2>1, <2>2, <2>3 DEF ClaimsAreCounted, Delivering, Returned
<1>3. ClaimsAreInOnePlace'
  BY <1>1 DEF IInv, ClaimsAreInOnePlace, ClaimsStay
<1>4. AbsentRowsAreNew'
  BY DEF AbsentRowsAreNew, RowsCount
<1>5. QED
  BY <1>2, <1>3, <1>4 DEF IInv

\* The statements keep the count, and no row comes back from nowhere.
LEMMA StatementsKeepCount ==
    ASSUME TypeOK, NEW t \in Tasks
    PROVE  /\ \A r \in {Released(row[t]), Swept[t], CompletedRow(row[t], "null", 1),
                        ErrorRow(row[t], WillRetry(row[t])), [row[t] EXCEPT !.heartbeatAt = 0]} :
                 /\ r.attempts = row[t].attempts
                 /\ r.status # "absent" \/ r = row[t] \/ r.status = row[t].status
           /\ \A u \in Users : LET r == UserDeletedRow(row[t], u) IN
                 r.attempts = row[t].attempts /\ r.status = row[t].status
<1>1. row[t] \in Row
  BY DEF TypeOK
<1>2. /\ Unclaimed(row[t]).attempts = row[t].attempts
      /\ Unclaimed(row[t]) \in Row
  BY <1>1 DEF Unclaimed, Row
<1>3. Released(row[t]).attempts = row[t].attempts /\ Released(row[t]).status # "absent"
  BY <1>2 DEF Released, Row
<1>4. Swept[t].attempts = row[t].attempts /\ (Swept[t].status # "absent" \/ Swept[t] = row[t])
  <2>1. CASE IsStale(row[t], 1)
    BY <1>2, <2>1 DEF Swept, ReclaimedRow, Row
  <2>2. CASE ~IsStale(row[t], 1)
    BY <2>2 DEF Swept
  <2>3. QED
    BY <2>1, <2>2
<1>5. CompletedRow(row[t], "null", 1).attempts = row[t].attempts /\ CompletedRow(row[t], "null", 1).status # "absent"
  BY <1>1 DEF CompletedRow, Row
<1>6. LET r == ErrorRow(row[t], WillRetry(row[t])) IN r.attempts = row[t].attempts /\ r.status # "absent"
  BY <1>2 DEF ErrorRow, Row
<1>7. LET r == [row[t] EXCEPT !.heartbeatAt = 0] IN r.attempts = row[t].attempts /\ r.status = row[t].status
  BY <1>1 DEF Row
<1>8. \A u \in Users : LET r == UserDeletedRow(row[t], u) IN
        r.attempts = row[t].attempts /\ r.status = row[t].status
  BY <1>1 DEF UserDeletedRow, Row
<1>9. QED
  BY <1>3, <1>4, <1>5, <1>6, <1>7, <1>8

\* A claim is on its way to its tab, run by it or given back, in one of these
\* places, and a later claim of the row has a higher number: the coordinator gives
\* no two tabs the same claim, however its handlers interleave.
THEOREM OneClaimOnePlace == Spec => []IInv
<1>1. Init => ClaimsAreCounted /\ ClaimsAreInOnePlace /\ AbsentRowsAreNew
  BY DEF Init, ClaimsAreCounted, ClaimsAreInOnePlace, AbsentRowsAreNew, AbsentRow, IdleRun,
     Delivering, Returned
<1>2. IInv /\ TypeOK' /\ [Next]_vars => IInv'
  <2> SUFFICES ASSUME IInv, TypeOK', [Next]_vars PROVE IInv'
    OBVIOUS
  <2>a. /\ TypeOK
        /\ \A t \in Tasks : row[t] \in Row /\ row[t].attempts \in Nat
        /\ row \in [Tasks -> Row] /\ AbsentRowsAreNew
    BY DEF IInv, TypeOK, Row
  <2>b. row' = row => RowsCount
    BY <2>a DEF RowsCount, AbsentRowsAreNew
  <2>c. row' = Swept => RowsCount
    BY <2>a, StatementsKeepCount DEF RowsCount, AbsentRowsAreNew
  <2>d. ASSUME NEW h \in Handlers, \A g \in Handlers \ {h} : run'[g] = run[g],
               run'[h].phase # "deliver", UNCHANGED tab,
               \A c \in Conns, k \in Claim : Returned(c, k)' => Returned(c, k)
        PROVE  ClaimsStay
    BY <2>d DEF ClaimsStay, Delivering
  <2>e. ASSUME UNCHANGED run, \A b \in Tabs : tab'[b].running \subseteq tab[b].running,
               \A c \in Conns, k \in Claim : Returned(c, k)' => Returned(c, k)
        PROVE  ClaimsStay
    BY <2>e DEF ClaimsStay, Delivering
  <2>f. UNCHANGED inbox => \A c \in Conns, k \in Claim : Returned(c, k)' => Returned(c, k)
    BY DEF Returned
  <2>1. ASSUME NEW h \in Handlers, Notify(h) \/ ReleaseEnd(h) \/ Reconcile(h) PROVE IInv'
    <3>1. PICK a : Dispatch(h, a)
      BY <2>1 DEF Notify, ReleaseEnd, Reconcile
    <3>2. row' = row /\ tab' = tab /\ inbox' = inbox
      BY <2>1 DEF Notify, ReleaseEnd, Reconcile
    <3>3. ClaimsStay
      BY <2>a, <2>d, <2>f, <3>1, <3>2, DispatchChanges
    <3>4. QED
      BY <2>b, <3>2, <3>3, StaysCounted
  <2>2. ASSUME NEW h \in Handlers, NEW c \in Conns, Join(h, c) PROVE IInv'
    <3> DEFINE k == [conn EXCEPT ![c] = "open"]
    <3>1. k \in [Conns -> Links] /\ "switch" \in Phases \ {"idle"} /\ FALSE \in BOOLEAN
      BY <2>a DEF TypeOK, Links, Phases
    <3>2. Snapshot(h, "switch", FALSE, k, att) /\ row' = row /\ tab' = tab /\ inbox' = inbox
      BY <2>2 DEF Join
    <3> HIDE DEF k
    <3>3. ClaimsStay
      BY <2>a, <2>d, <2>f, <3>1, <3>2, SnapshotChanges
    <3>4. QED
      BY <2>b, <3>2, <3>3, StaysCounted
  <2>3. ASSUME NEW h \in Handlers, NEW c \in Conns, Done(h, c) \/ Config(h, c) PROVE IInv'
    <3>1. PICK a : Dispatch(h, a)
      BY <2>3 DEF Done, Config
    <3>2. PICK type : Handling(h, c, type)
      BY <2>3 DEF Done, Config
    <3>3. row' = row /\ tab' = tab
      BY <2>3 DEF Done, Config
    <3>4. ClaimsStay
      BY <2>a, <2>d, <3>1, <3>2, <3>3, DispatchChanges, HandlingReturnsNothing
    <3>5. QED
      BY <2>b, <3>3, <3>4, StaysCounted
  <2>4. ASSUME NEW h \in Handlers, NEW c \in Conns, Release(h, c) PROVE IInv'
    <3>1. Handling(h, c, "release") /\ tab' = tab
      BY <2>4 DEF Release
    <3>2. Oldest(c).claim.task \in Tasks
      BY <2>a, <3>1, HandlingKeepsTypes DEF Claim
    <3>3. RowsCount
      BY <2>4, <2>a, <3>2, StatementsKeepCount DEF Release, RowsCount, AbsentRowsAreNew
    <3>4. run'[h].phase = "release" /\ \A g \in Handlers \ {h} : run'[g] = run[g]
      BY <2>4, <2>a DEF Release, IdleRun, TypeOK
    <3>5. ClaimsStay
      BY <2>a, <2>d, <3>1, <3>4, HandlingReturnsNothing
    <3>6. QED
      BY <3>3, <3>5, StaysCounted
  <2>5. ASSUME NEW h \in Handlers, NEW c \in Conns, IgnoreRelease(h, c) PROVE IInv'
    <3>1. Handling(h, c, "release") /\ UNCHANGED <<row, tab, run>>
      BY <2>5 DEF IgnoreRelease
    <3>2. ClaimsStay
      BY <2>a, <2>e, <3>1, HandlingReturnsNothing
    <3>3. QED
      BY <2>b, <3>1, <3>2, StaysCounted
  <2>6. ASSUME NEW h \in Handlers, NEW c \in Conns, Close(h, c) PROVE IInv'
    <3> DEFINE k == [conn EXCEPT ![c] = "closed"]
               a == [att EXCEPT ![c].holding = {}]
    <3>1. row' = row /\ tab' = tab /\ k \in [Conns -> Links]
          /\ "switch" \in Phases \ {"idle"} /\ FALSE \in BOOLEAN
      BY <2>6, <2>a DEF Close, TypeOK, Links, Phases
    <3>2. \A d \in Conns, l \in Claim : Returned(d, l)' => Returned(d, l)
      BY <2>6, <2>a DEF Close, TypeOK, Returned
    <3>3. run' = run \/ Snapshot(h, "switch", FALSE, k, a)
      BY <2>6 DEF Close
    <3> HIDE DEF k, a
    <3>4. ClaimsStay
      BY <2>a, <2>d, <2>e, <3>1, <3>2, <3>3, SnapshotChanges
    <3>5. QED
      BY <2>b, <3>1, <3>4, StaysCounted
  <2>7. ASSUME NEW h \in Handlers, Alarm(h) PROVE IInv'
    <3>1. /\ Snapshot(h, "reconcile", TRUE, conn, att)
          /\ row' = Swept /\ tab' = tab /\ inbox' = inbox
          /\ "reconcile" \in Phases \ {"idle"} /\ TRUE \in BOOLEAN /\ conn \in [Conns -> Links]
      BY <2>7, <2>a DEF Alarm, Phases, TypeOK
    <3>2. ClaimsStay
      BY <2>a, <2>d, <2>f, <3>1, SnapshotChanges
    <3>3. QED
      BY <2>c, <3>1, <3>2, StaysCounted
  <2>8. ASSUME NEW h \in Handlers,
               \/ Finally(h) \/ ReadSwitch(h) \/ Select(h) \/ Skip(h) \/ HandThrows(h)
               \/ HandedOut(h) \/ DeliverFails(h) \/ Throw(h)
        PROVE  IInv'
    <3>1. row' = row /\ tab' = tab /\ inbox' = inbox
      BY <2>8, Zenon DEF Finally, ReadSwitch, Select, Skip, HandThrows, HandedOut, DeliverFails,
         Throw
    <3>2. (\A g \in Handlers \ {h} : run'[g] = run[g]) /\ run'[h].phase # "deliver"
      <4>1. CASE run' = Over(h)
        BY <2>a, <4>1, OverChanges
      <4>2. CASE run' = [run EXCEPT ![h] = IdleRun]
        BY <2>a, <4>2 DEF TypeOK, IdleRun
      <4>3. ASSUME NEW p, p # "deliver", run' = [run EXCEPT ![h].phase = p]
            PROVE  (\A g \in Handlers \ {h} : run'[g] = run[g]) /\ run'[h].phase # "deliver"
        BY <2>a, <4>3 DEF TypeOK, Run
      <4>4. ASSUME NEW w, run' = [run EXCEPT ![h].phase = "hand", ![h].window = w]
            PROVE  (\A g \in Handlers \ {h} : run'[g] = run[g]) /\ run'[h].phase # "deliver"
        BY <2>a, <4>4 DEF TypeOK, Run
      <4>5. CASE Skip(h) \/ DeliverFails(h)
        BY <2>a, <4>5 DEF Skip, DeliverFails, TypeOK, Run
      <4>6. QED
        BY <2>8, <4>1, <4>2, <4>3, <4>4, <4>5, Zenon
           DEF Finally, ReadSwitch, Select, HandThrows, HandedOut, Throw
    <3>3. ClaimsStay
      BY <2>d, <2>f, <3>1, <3>2
    <3>4. QED
      BY <2>b, <3>1, <3>3, StaysCounted, Zenon
  <2>9. ASSUME NEW h \in Handlers, HandNext(h) PROVE IInv'
    <3> DEFINE t == Head(run[h].window)
    <3>1. PICK c \in Candidates(h, t) : Hand(h, t, c)
      BY <2>9 DEF HandNext
    <3> DEFINE k == [task |-> t, user |-> UserOf[TabOf[c]], attempts |-> row[t].attempts + 1, claimedAt |-> 1]
    <3>2. t \in Tasks /\ row[t].status = "queued"
      BY <2>9, <2>a, HandlerTypes, HeadTailProperties DEF HandNext, CanClaim
    <3>3. /\ tab' = tab /\ inbox' = inbox
          /\ \A g \in Handlers \ {h} : run'[g] = run[g]
          /\ Delivering(h)' /\ run'[h].claim = k /\ ~Delivering(h)
      <4>1. tab' = tab /\ inbox' = inbox /\ run[h].phase = "hand"
        BY <2>9 DEF HandNext
      <4>2. run \in [Handlers -> Run]
        BY <2>a DEF TypeOK
      <4>3. run' = [run EXCEPT ![h].phase = "deliver", ![h].window = Tail(@), ![h].target = c, ![h].claim = k]
        BY <3>1 DEF Hand
      <4> HIDE DEF k, t
      <4>4. \A g \in Handlers \ {h} : run'[g] = run[g]
        BY <4>2, <4>3
      <4>5. run'[h].phase = "deliver" /\ run'[h].claim = k
        BY <4>2, <4>3 DEF Run
      <4>6. QED
        BY <4>1, <4>4, <4>5 DEF Delivering
    <3>4. /\ row'[t].attempts = row[t].attempts + 1 /\ row'[t].status # "absent"
          /\ \A s \in Tasks \ {t} : row'[s] = row[s]
      BY <2>a, <3>1, <3>2 DEF Hand, Claimed
    <3>5. k.task = t /\ k.attempts = row[t].attempts + 1
      OBVIOUS
    <3> HIDE DEF k, t
    <3>6. RowsCount
      BY <2>a, <3>2, <3>4 DEF RowsCount, AbsentRowsAreNew
    <3>7. /\ \A g \in Handlers : Delivering(g) => run[g].claim \in Claim /\ run[g].claim # k
          /\ \A b \in Tabs : \A l \in tab[b].running : l \in Claim /\ l # k
          /\ \A d \in Conns, l \in Claim : Returned(d, l) => l # k
      <4>1. \A l \in Claim : l.attempts <= row[l.task].attempts => l # k
        BY <2>a, <3>2, <3>5
      <4>2. /\ \A g \in Handlers : Delivering(g) => run[g].claim \in Claim
            /\ \A b \in Tabs : \A l \in tab[b].running : l \in Claim
        BY <2>a, HandlerTypes DEF TypeOK, Delivering
      <4>3. QED
        BY <4>1, <4>2 DEF IInv, ClaimsAreCounted
    <3>8. k \in Claim
      BY <3>3, HandlerTypes DEF Delivering, TypeOK, Run
    <3>9. ClaimsAreCounted'
      <4>1. \A l \in Claim : l.attempts <= row[l.task].attempts => l.attempts <= row'[l.task].attempts
        BY <2>a, <3>6 DEF RowsCount, Claim, TypeOK, Row
      <4>2. \A g \in Handlers : Delivering(g)' => run'[g].claim.attempts <= row'[run'[g].claim.task].attempts
        <5>1. ASSUME NEW g \in Handlers \ {h}, Delivering(g)'
              PROVE  run'[g].claim.attempts <= row'[run'[g].claim.task].attempts
          BY <3>3, <3>7, <4>1, <5>1 DEF IInv, ClaimsAreCounted, Delivering
        <5>2. run'[h].claim.attempts <= row'[run'[h].claim.task].attempts
          BY <2>a, <3>2, <3>3, <3>4, <3>5
        <5>3. QED
          BY <5>1, <5>2
      <4>3. QED
        BY <3>3, <3>7, <4>1, <4>2 DEF IInv, ClaimsAreCounted, Delivering, Returned
    <3>10. ClaimsAreInOnePlace'
      BY <3>3, <3>7, <3>8 DEF IInv, ClaimsAreInOnePlace, Delivering, Returned
    <3>11. AbsentRowsAreNew'
      BY <3>6 DEF AbsentRowsAreNew, RowsCount
    <3>12. QED
      BY <3>9, <3>10, <3>11 DEF IInv
  <2>10. ASSUME NEW h \in Handlers, Deliver(h) PROVE IInv'
    <3> DEFINE c == run[h].target
               k == run[h].claim
    <3>1. /\ c \in Conns /\ TabOf[c] \in Tabs /\ k \in Claim /\ k.task \in Tasks
          /\ inbox[c] \in Seq(Message) /\ [type |-> "release", claim |-> k] \in Message
      BY <2>10, <2>a, HandlerTypes, TabAssumption, SMTT(30) DEF Deliver, Claim, Message, TypeOK
    <3>2. /\ row' = row /\ ~Delivering(h)' /\ Delivering(h)
          /\ \A g \in Handlers \ {h} : run'[g] = run[g]
      <4>1. row' = row /\ Delivering(h)
        BY <2>10 DEF Deliver, Delivering
      <4>2. run[h] \in Run /\ run \in [Handlers -> Run]
        BY <2>a, SMTT(30) DEF TypeOK
      <4>3. run'[h].phase = "hand" /\ \A g \in Handlers \ {h} : run'[g] = run[g]
        <5>1. \E copy : run' = [run EXCEPT ![h].phase = "hand", ![h].copy[run[h].target] = copy,
                                          ![h].target = None, ![h].claim = None]
          BY <2>10, Zenon DEF Deliver
        <5>2. ASSUME NEW copy, run' = [run EXCEPT ![h].phase = "hand", ![h].copy[run[h].target] = copy,
                                          ![h].target = None, ![h].claim = None]
              PROVE  run'[h].phase = "hand" /\ \A g \in Handlers \ {h} : run'[g] = run[g]
          BY <4>2, <5>2, SMTT(30) DEF Run
        <5>3. QED
          BY <5>1, <5>2, Zenon
      <4>4. QED
        BY <4>1, <4>3 DEF Delivering
    <3>3. Arrive(c, k)
      BY <2>10 DEF Deliver
    <3> HIDE DEF c, k
    <3>4. k = run[h].claim
      BY DEF k
    <3>5. \/ /\ inbox' = inbox
             /\ \A b \in Tabs : tab'[b].running = IF b = TabOf[c] THEN tab[b].running \cup {k} ELSE tab[b].running
          \/ /\ tab' = tab
             /\ inbox' = [inbox EXCEPT ![c] = Append(@, [type |-> "release", claim |-> k])]
          \/ UNCHANGED <<tab, inbox>>
      <4>1. \/ /\ tab' = [tab EXCEPT ![TabOf[c]].running = @ \cup {k}, ![TabOf[c]].slots = @ \cup {k.task}]
               /\ inbox' = inbox
            \/ /\ tab' = tab
               /\ inbox' = [inbox EXCEPT ![c] = Append(@, [type |-> "release", claim |-> k])]
            \/ UNCHANGED <<tab, inbox>>
        BY <3>3 DEF Arrive
      <4>2. CASE tab' = [tab EXCEPT ![TabOf[c]].running = @ \cup {k}, ![TabOf[c]].slots = @ \cup {k.task}]
        <5>1. \A b \in Tabs : tab'[b].running = IF b = TabOf[c] THEN tab[b].running \cup {k} ELSE tab[b].running
          BY <2>a, <3>1, <4>2 DEF TypeOK
        <5>2. QED
          BY <4>1, <4>2, <5>1
      <4>3. QED
        BY <4>1, <4>2
    <3>6. /\ k.attempts <= row[k.task].attempts
          /\ \A g \in Handlers \ {h} : Delivering(g) => run[g].claim # k
          /\ \A b \in Tabs : k \notin tab[b].running
          /\ \A d \in Conns : ~Returned(d, k)
      BY <3>2, <3>4 DEF IInv, ClaimsAreCounted, ClaimsAreInOnePlace
    <3>7. /\ \A g \in Handlers : Delivering(g)' => g # h /\ Delivering(g) /\ run'[g].claim = run[g].claim
          /\ \A g \in Handlers : Delivering(g) => run[g].claim \in Claim
          /\ \A b \in Tabs : tab[b].running \subseteq Claim
      BY <2>a, <3>2, HandlerTypes DEF Delivering, TypeOK
    <3>8. CASE /\ inbox' = inbox
               /\ \A b \in Tabs : tab'[b].running = IF b = TabOf[c] THEN tab[b].running \cup {k} ELSE tab[b].running
      <4>a. /\ \A d \in Conns, l \in Claim : Returned(d, l)' <=> Returned(d, l)
            /\ \A b \in Tabs : tab'[b].running \subseteq tab[b].running \cup {k}
            /\ \A a, b \in Tabs : a # b => k \notin tab'[a].running \/ k \notin tab'[b].running
        BY <3>6, <3>8 DEF Returned
      <4>1. ClaimsAreCounted'
        <5>1. \A b \in Tabs : \A l \in tab'[b].running : l.attempts <= row'[l.task].attempts
          BY <3>2, <3>6, <4>a DEF IInv, ClaimsAreCounted
        <5>2. \A d \in Conns, l \in Claim : Returned(d, l)' => l.attempts <= row'[l.task].attempts
          BY <3>2, <4>a DEF IInv, ClaimsAreCounted
        <5>3. \A g \in Handlers : Delivering(g)' => run'[g].claim.attempts <= row'[run'[g].claim.task].attempts
          BY <3>2, <3>7 DEF IInv, ClaimsAreCounted
        <5>4. QED
          BY <5>1, <5>2, <5>3 DEF ClaimsAreCounted, Delivering, Returned
      <4>2. ClaimsAreInOnePlace'
        <5>1. \A f, g \in Handlers : Delivering(f)' /\ Delivering(g)' /\ f # g => run'[f].claim # run'[g].claim
          BY <3>7 DEF IInv, ClaimsAreInOnePlace
        <5>2. \A a, b \in Tabs : a # b => tab'[a].running \cap tab'[b].running = {}
          BY <4>a DEF IInv, ClaimsAreInOnePlace
        <5>3. \A g \in Handlers : Delivering(g)' =>
                /\ \A b \in Tabs : run'[g].claim \notin tab'[b].running
                /\ \A d \in Conns : ~Returned(d, run[g].claim)'
          BY <3>2, <3>6, <3>7, <4>a DEF IInv, ClaimsAreInOnePlace
        <5>4. \A b \in Tabs, d \in Conns : \A l \in tab'[b].running : ~Returned(d, l)'
          BY <3>1, <3>6, <3>7, <4>a DEF IInv, ClaimsAreInOnePlace
        <5>5. QED
          BY <5>1, <5>2, <5>3, <5>4 DEF ClaimsAreInOnePlace, Delivering, Returned
      <4>3. QED
        BY <3>2, <4>1, <4>2 DEF IInv, AbsentRowsAreNew
    <3>9. CASE /\ tab' = tab
               /\ inbox' = [inbox EXCEPT ![c] = Append(@, [type |-> "release", claim |-> k])]
      <4>1. \A d \in Conns, l \in Claim : Returned(d, l)' => Returned(d, l) \/ l = k
        <5> SUFFICES ASSUME NEW d \in Conns, NEW l \in Claim, Returned(d, l)', l # k PROVE Returned(d, l)
          OBVIOUS
        <5>1. PICK i \in DOMAIN inbox'[d] : inbox'[d][i].type = "release" /\ inbox'[d][i].claim = l
          BY DEF Returned
        <5>2. CASE d = c
          <6>1. inbox'[d] = Append(inbox[c], [type |-> "release", claim |-> k])
            BY <2>a, <3>1, <3>9, <5>2 DEF TypeOK
          <6>2. i \in DOMAIN inbox[c] /\ inbox'[d][i] = inbox[c][i]
            BY <3>1, <5>1, <6>1, AppendReturns
          <6>3. QED
            BY <5>1, <5>2, <6>2 DEF Returned
        <5>3. CASE d # c
          BY <2>a, <3>9, <5>1, <5>3 DEF TypeOK, Returned
        <5>4. QED
          BY <5>2, <5>3
      <4>2. ClaimsAreCounted'
        <5>1. \A d \in Conns, l \in Claim : Returned(d, l)' => l.attempts <= row'[l.task].attempts
          BY <3>2, <3>6, <4>1 DEF IInv, ClaimsAreCounted
        <5>2. QED
          BY <3>2, <3>7, <3>9, <5>1 DEF IInv, ClaimsAreCounted, Delivering, Returned
      <4>3. ClaimsAreInOnePlace'
        <5>1. \A d \in Conns : \A g \in Handlers : Delivering(g)' => ~Returned(d, run[g].claim)'
          BY <3>2, <3>6, <3>7, <4>1 DEF IInv, ClaimsAreInOnePlace
        <5>2. \A d \in Conns, b \in Tabs : \A l \in tab'[b].running : ~Returned(d, l)'
          BY <3>6, <3>7, <3>9, <4>1 DEF IInv, ClaimsAreInOnePlace
        <5>3. QED
          BY <3>7, <3>9, <5>1, <5>2 DEF IInv, ClaimsAreInOnePlace, Delivering, Returned
      <4>4. QED
        BY <3>2, <4>2, <4>3 DEF IInv, AbsentRowsAreNew
    <3>10. CASE UNCHANGED <<tab, inbox>>
      <4>1. ClaimsStay
        BY <3>7, <3>10 DEF ClaimsStay, Returned
      <4>2. QED
        BY <2>b, <3>2, <4>1, StaysCounted
    <3>11. QED
      BY <3>5, <3>8, <3>9, <3>10
  <2>11. ASSUME NEW b \in Tabs, NEW k \in tab[b].running, NEW o, Finish(b, k, o) PROVE IInv'
    <3>1. k.task \in Tasks /\ [type |-> "done", claim |-> k] \in Message
      BY <2>a DEF TypeOK, Claim, Message
    <3>2. RowsCount
      <4>1. \A t \in Tasks \ {k.task} : row'[t] = row[t]
        BY <2>11, <2>a, <3>1 DEF Finish
      <4>2. row'[k.task] \in {row[k.task], CompletedRow(row[k.task], "null", 1),
                              ErrorRow(row[k.task], WillRetry(row[k.task]))}
        BY <2>11, <2>a, <3>1 DEF Finish
      <4>3. QED
        BY <2>a, <3>1, <4>1, <4>2, StatementsKeepCount DEF RowsCount, AbsentRowsAreNew
    <3>3. /\ run' = run /\ inbox' = Sent(b, [type |-> "done", claim |-> k])
          /\ \A d \in Tabs : tab'[d].running \subseteq tab[d].running
      BY <2>11, <2>a DEF Finish, TypeOK
    <3>4. ClaimsStay
      BY <2>a, <2>e, <3>1, <3>3, SentReturnsNothing
    <3>5. QED
      BY <3>2, <3>4, StaysCounted
  <2>12. ASSUME NEW b \in Tabs, NEW g \in Configs, Reconfigure(b, g) PROVE IInv'
    <3>1. /\ row' = row /\ run' = run /\ inbox' = Sent(b, [type |-> "config", config |-> g])
          /\ [type |-> "config", config |-> g] \in Message
          /\ \A d \in Tabs : tab'[d].running \subseteq tab[d].running
      BY <2>12, <2>a DEF Reconfigure, TypeOK, Message
    <3>2. ClaimsStay
      BY <2>a, <2>e, <3>1, SentReturnsNothing
    <3>3. QED
      BY <2>b, <3>1, <3>2, StaysCounted
  <2>13. ASSUME RowsCount, UNCHANGED <<run, inbox>>, \A b \in Tabs : tab'[b].running \subseteq tab[b].running
         PROVE  IInv'
    BY <2>e, <2>f, <2>13, StaysCounted
  <2>14. ASSUME NEW b \in Tabs, NEW c \in Conns, Connect(b, c) PROVE IInv'
    <3>1. UNCHANGED <<run, inbox, row, tab>>
      BY <2>14 DEF Connect
    <3>2. QED
      BY <2>b, <2>13, <3>1
  <2>15. CASE World
    <3>1. UNCHANGED <<run, inbox, tab>>
      BY <2>15 DEF World, Drop, Enqueue, Lapse, CronSweep, SetPool, DeleteUser
    <3>2. RowsCount
      <4>1. CASE row' = row \/ row' = Swept
        BY <2>b, <2>c, <4>1
      <4>2. ASSUME NEW t \in Tasks, Enqueue(t) PROVE RowsCount
        BY <4>2, <2>a DEF Enqueue, RowsCount, AbsentRowsAreNew, QueuedRow, AbsentRow
      <4>3. ASSUME NEW t \in Tasks, Lapse(t) PROVE RowsCount
        BY <4>3, <2>a, StatementsKeepCount DEF Lapse, RowsCount, AbsentRowsAreNew
      <4>4. ASSUME NEW u \in Users, DeleteUser(u) PROVE RowsCount
        BY <4>4, <2>a, StatementsKeepCount DEF DeleteUser, RowsCount, AbsentRowsAreNew
      <4>5. QED
        BY <2>15, <4>1, <4>2, <4>3, <4>4 DEF World, Drop, CronSweep, SetPool
    <3>3. QED
      BY <2>13, <3>1, <3>2
  <2>16. CASE UNCHANGED vars
    <3>1. UNCHANGED <<run, inbox, tab, row>>
      BY <2>16 DEF vars
    <3>2. QED
      BY <2>b, <2>13, <3>1
  <2>17. ASSUME NEW b \in Tabs, Stop(b) PROVE IInv'
    <3>1. UNCHANGED <<run, inbox, row>> /\ \A d \in Tabs : tab'[d].running \subseteq tab[d].running
      BY <2>17, <2>a DEF Stop, TypeOK
    <3>2. QED
      BY <2>b, <2>13, <3>1
  <2>18. QED
    <3>1. CASE Object
      BY <3>1, <2>1, <2>2, <2>3, <2>4, <2>5, <2>6, <2>7, <2>8, <2>9, <2>10 DEF Object,
         Proceed, HandleMessage
    <3>2. CASE Browser
      BY <3>2, <2>11, <2>12, <2>14, <2>17 DEF Browser
    <3>3. QED
      BY <3>1, <3>2, <2>15, <2>16 DEF Next
<1>3. QED
  <2>1. Init /\ TypeOK => IInv
    BY <1>1 DEF IInv
  <2>2. QED
    BY <1>2, <2>1, TypeCorrect, PTL DEF Spec

\* A tab that runs a claim and is heard of keeps the row: no other handler, not of
\* a connection the same user had before either, takes it away.  A claim given
\* back or finished is not the one the tab runs, since that is in one place; a
\* sweep spares what is heard of; and rows are handed out only when queued.
THEOREM WorkIsKept == Spec => KeepsWhatItRuns
<1> DEFINE Kept == \A b \in Tabs : \A k \in tab[b].running :
                      /\ HeldBy(row[k.task], k)
                      /\ row[k.task].heartbeatAt = 1
                      /\ accounts' = accounts
                      => HeldBy(row'[k.task], k) \/ k \notin tab'[b].running
<1>1. ASSUME IInv, Next PROVE Kept
  <2> SUFFICES ASSUME NEW b \in Tabs, NEW k \in tab[b].running,
                      HeldBy(row[k.task], k), row[k.task].heartbeatAt = 1, accounts' = accounts,
                      k \in tab'[b].running
               PROVE  HeldBy(row'[k.task], k)
    OBVIOUS
  <2>a. /\ TypeOK /\ k \in Claim /\ k.task \in Tasks /\ row \in [Tasks -> Row]
        /\ row[k.task] \in Row /\ row[k.task].status = "claimed"
    BY <1>1 DEF IInv, TypeOK, Claim, HeldBy
  <2>b. \A l \in Claim : l.task = k.task /\ HeldBy(row[l.task], l) => l = k
    <3>1. ASSUME NEW l \in Claim
          PROVE  l = [task |-> l.task, user |-> l.user, attempts |-> l.attempts, claimedAt |-> l.claimedAt]
      BY DEF Claim
    <3>2. ASSUME NEW l \in Claim, l.task = k.task, HeldBy(row[l.task], l) PROVE l = k
      <4>1. l.user = k.user /\ l.attempts = k.attempts /\ l.claimedAt = k.claimedAt
        BY <3>2 DEF HeldBy
      <4>2. QED
        BY <2>a, <3>1, <3>2, <4>1
    <3>3. QED
      BY <3>2
  <2>1. row'[k.task] = row[k.task] => HeldBy(row'[k.task], k)
    OBVIOUS
  <2>2. ASSUME NEW h \in Handlers, NEW c \in Conns, Release(h, c) PROVE row'[k.task] = row[k.task]
    <3>1. Handling(h, c, "release")
      BY <2>2 DEF Release
    <3>2. Oldest(c) \in Message /\ Oldest(c).claim \in Claim
      BY <2>a, <3>1, HandlingKeepsTypes
    <3>3. Returned(c, Oldest(c).claim)
      <4>1. inbox[c] \in Seq(Message) /\ inbox[c] # <<>> /\ Oldest(c).type = "release"
        BY <2>a, <3>1 DEF Handling, TypeOK
      <4>2. 1 \in DOMAIN inbox[c] /\ Oldest(c) = inbox[c][1]
        BY <4>1 DEF Oldest
      <4>3. QED
        BY <4>1, <4>2 DEF Returned
    <3>4. Oldest(c).claim # k
      BY <1>1, <3>3 DEF IInv, ClaimsAreInOnePlace
    <3>5. \/ Oldest(c).claim.task # k.task
          \/ ~HeldBy(row[Oldest(c).claim.task], Oldest(c).claim)
      BY <2>b, <3>2, <3>4
    <3>6. QED
      BY <2>2, <2>a, <3>5 DEF Release
  <2>3. ASSUME row' = Swept PROVE row'[k.task] = row[k.task]
    BY <2>3, <2>a DEF Swept, IsStale
  <2>4. ASSUME NEW h \in Handlers, HandNext(h) PROVE row'[k.task] = row[k.task]
    BY <2>4, <2>a DEF HandNext, Hand, CanClaim
  <2>5. ASSUME NEW d \in Tabs, NEW l \in tab[d].running, NEW o, Finish(d, l, o)
        PROVE  row'[k.task] = row[k.task]
    <3>1. l # k
      <4>1. CASE d = b
        BY <2>5, <2>a, <4>1 DEF Finish, TypeOK
      <4>2. CASE d # b
        BY <1>1, <4>2 DEF IInv, ClaimsAreInOnePlace
      <4>3. QED
        BY <4>1, <4>2
    <3>2. l \in Claim
      BY <2>a DEF TypeOK
    <3>3. l.task # k.task \/ ~HeldBy(row[l.task], l)
      BY <2>b, <3>1, <3>2
    <3>4. CASE l.task # k.task
      BY <2>5, <2>a, <3>4 DEF Finish
    <3>5. CASE ~HeldBy(row[l.task], l)
      <4>1. o = "none"
        BY <2>5, <3>5 DEF Finish
      <4>2. QED
        BY <2>5, <2>a, <4>1 DEF Finish
    <3>6. QED
      BY <3>3, <3>4, <3>5
  <2>6. ASSUME NEW t \in Tasks, Enqueue(t) PROVE row'[k.task] = row[k.task]
    BY <2>6, <2>a DEF Enqueue
  <2>7. ASSUME NEW t \in Tasks, Lapse(t) PROVE HeldBy(row'[k.task], k)
    <3>1. CASE t = k.task
      BY <2>7, <2>a, <3>1 DEF Lapse, HeldBy, Row
    <3>2. CASE t # k.task
      BY <2>7, <2>1, <2>a, <3>2 DEF Lapse
    <3>3. QED
      BY <3>1, <3>2
  <2>8. ASSUME NEW u \in Users, DeleteUser(u) PROVE FALSE
    BY <2>8 DEF DeleteUser
  <2>9. CASE Object
    <3>1. PICK h \in Handlers : \/ Notify(h) \/ Alarm(h) \/ Proceed(h) \/ Throw(h)
                               \/ \E c \in Conns : Join(h, c) \/ Close(h, c) \/ HandleMessage(h, c)
      BY <2>9 DEF Object
    <3>a. CASE Notify(h) \/ Alarm(h) \/ Throw(h)
      <4>1. row' = row \/ row' = Swept
        BY <3>a DEF Notify, Alarm, Throw
      <4>2. QED
        BY <2>1, <2>3, <4>1
    <3>b. CASE Proceed(h)
      <4>1. CASE ReleaseEnd(h) \/ Finally(h) \/ ReadSwitch(h) \/ Select(h) \/ Skip(h)
        <5>1. row' = row
          BY <4>1 DEF ReleaseEnd, Finally, ReadSwitch, Select, Skip
        <5>2. QED
          BY <2>1, <5>1
      <4>2. CASE HandThrows(h) \/ HandedOut(h)
        <5>1. row' = row
          BY <4>2 DEF HandThrows, HandedOut
        <5>2. QED
          BY <2>1, <5>1
      <4>3. CASE Deliver(h) \/ DeliverFails(h)
        <5>1. row' = row
          BY <4>3 DEF Deliver, DeliverFails
        <5>2. QED
          BY <2>1, <5>1
      <4>4. CASE Reconcile(h)
        <5>1. row' = row
          BY <4>4 DEF Reconcile
        <5>2. QED
          BY <2>1, <5>1
      <4>5. CASE HandNext(h)
        BY <2>1, <2>4, <4>5
      <4>6. QED
        BY <3>b, <4>1, <4>2, <4>3, <4>4, <4>5 DEF Proceed
    <3>c. ASSUME NEW c \in Conns, Join(h, c) \/ Close(h, c) \/ HandleMessage(h, c)
          PROVE  HeldBy(row'[k.task], k) \/ k \notin tab'[b].running
      <4>1. CASE Release(h, c)
        BY <2>1, <2>2, <4>1
      <4>2. CASE Join(h, c) \/ Close(h, c) \/ Done(h, c) \/ Config(h, c) \/ IgnoreRelease(h, c)
        <5>1. row' = row
          BY <4>2 DEF Join, Close, Done, Config, IgnoreRelease
        <5>2. QED
          BY <2>1, <5>1
      <4>3. QED
        BY <3>c, <4>1, <4>2 DEF HandleMessage
    <3>2. QED
      BY <3>1, <3>a, <3>b, <3>c
  <2>10. CASE Browser
    BY <2>1, <2>5, <2>10 DEF Browser, Connect, Reconfigure, Stop
  <2>11. CASE World
    BY <2>1, <2>3, <2>6, <2>7, <2>8, <2>11 DEF World, Drop, CronSweep, SetPool
  <2>12. QED
    BY <1>1, <2>9, <2>10, <2>11 DEF Next
<1>2. ASSUME IInv, [Next]_vars PROVE [Kept]_vars
  BY <1>1, <1>2
<1>3. QED
  BY <1>2, OneClaimOnePlace, PTL DEF Spec, KeepsWhatItRuns
=============================================================================
