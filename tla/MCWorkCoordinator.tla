-------------------------- MODULE MCWorkCoordinator ---------------------------
(* Small instances of WorkCoordinator. *)
EXTENDS WorkCoordinator, TLC

CONSTANTS t1, t2, u1, b1, c1, c2, h1, h2

MCOneTask == {t1}
MCTwoTasks == {t1, t2}
MCRank == [t \in Tasks |-> IF t = t1 THEN 1 ELSE 2]
MCMetadata == [t \in Tasks |-> "metadata"]
MCNoCaps == [t \in Tasks |-> {}]

MCUsers == {u1}
MCNobody == {}
MCOneTab == {b1}
MCSameUser == [b \in Tabs |-> u1]
MCOneConn == {c1}
MCTwoConns == {c1, c2}
MCReconnect == [c \in Conns |-> b1]
MCHandlers == {h1, h2}
Agents(max) == [types |-> {"metadata"}, caps |-> {"music-metadata", "scrape"}, max |-> max]
MCConfigs == {Agents(1), Agents(2)}
MCConfigsTwo == {Agents(2)}
MCBudgetOne == [b \in Tabs |-> Agents(1)]
MCBudgetTwo == [b \in Tabs |-> Agents(2)]

Overlapping == \A h \in Handlers : run[h].phase # "idle"

\* A connection that drops and comes back (on the row's second claim handlers
\* overlap only while no message or wake waits), failures and changes of a single
\* one, or two rows that compete for it.
Corner ==
    /\ \A c \in Conns : Len(inbox[c]) <= 1
    /\ \/ /\ changes = 0 /\ accounts = Users /\ row[t2].status = "absent"
          /\ row[t1].attempts > 1 /\ Overlapping => ~wake /\ \A c \in Conns : inbox[c] = <<>>
       \/ conn[c2] = "new" /\ row[t1].attempts <= 1 /\ row[t2].status = "absent"
       \/ /\ conn[c2] = "new" /\ changes = 0 /\ accounts = Users
          /\ \A t \in Tasks : row[t].attempts <= 1
          /\ ~Overlapping

\* What disturbs a single row's hand-outs: one change or drop, before the row's first
\* claim is over, no switch flipped in the middle of two handlers.  No fairness is about
\* these steps.
Disturbs == changes' # changes \/ \E c \in Conns : conn[c] = "open" /\ conn'[c] = "dead"
Gently ==
    Disturbs => /\ changes = 0 /\ \A c \in Conns : conn[c] \notin {"dead", "closed"}
                /\ \A t \in Tasks : row[t].attempts <= (IF row[t].status = "claimed" THEN 1 ELSE 0)
                /\ poolOn' = poolOn \/ ~Overlapping

MCSymmetry == Permutations(Handlers)
=============================================================================
