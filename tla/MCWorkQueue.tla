----------------------------- MODULE MCWorkQueue ------------------------------
(***************************************************************************)
(* A small instance of WorkQueue: a metadata row that is never redispatched,*)
(* a scrape row and a lossless row that are.  No statement reads two rows, *)
(* so a history has one of them.                                           *)
(***************************************************************************)
EXTENDS WorkQueue, TLC

CONSTANTS t1, t2, t3, u1, u2, alarm, cron

MCTasks == {t1, t2, t3}
MCUpserted == {t2, t3}
MCKind == (t1 :> "metadata") @@ (t2 :> "scrape") @@ (t3 :> "lossless")
MCUsers == {u1, u2}
MCSweepers == {alarm, cron}

OneRow == Cardinality({t \in Tasks : row[t].status # "absent"}) <= 1

\* Three claims for the plain row, two for those that start over.
Small == OneRow /\ \A t \in Upserted : claims[t] <= 2

MCSymmetry == Permutations(MCUsers) \cup Permutations(MCSweepers)
=============================================================================
