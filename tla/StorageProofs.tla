---------------------------- MODULE StorageProofs ----------------------------
(***************************************************************************)
(* Proofs about the components around the stored files (MCStorage): the    *)
(* scan of a source (StorageScan), for any files, any number of scans and  *)
(* of changes meanwhile, and the cloning of another server (Clone), for    *)
(* any songs, any playlist and chunks, and any number of runs and upsets.  *)
(***************************************************************************)
EXTENDS MCStorage, FiniteSetTheorems, NaturalsInduction, SequenceTheorems, TLAPS

-----------------------------------------------------------------------------
(* The scan of a source.                                                   *)

\* What Scan!IInv says of one scan.
ScanHolds(s) ==
    /\ \A f \in Scan!Files : Scan!Running(s) /\ disk[f] = 0 => f \in scan[s].gone
    /\ \A f \in Scan!Covered(s) : scan[s].found[f] = 0 => f \in scan[s].gone \cup scan[s].hidden
    /\ Scan!Calm(s) => /\ \A o \in Scans : Scan!Running(o) => o = s
                       /\ \A f \in Scan!Covered(s) : scan[s].found[f] = disk[f]
    /\ Scan!At(s, "write") => scan[s].todo \subseteq Scan!Listed(s)
    /\ Scan!Writing(s) =>
         \A f \in Scan!Files : scan[s].prior[f] # None \/ (f \in Scan!Passed(s) /\ Scan!Insertable(f)) => instances[f] # None
    /\ Scan!Calm(s) /\ Scan!Writing(s) =>
         /\ \A f \in Scan!Passed(s) : scan[s].prior[f] # None \/ Scan!Owed(f) => Scan!Fresh(s, f)
         /\ Scan!At(s, "write") => \A f \in Scan!Files \ Scan!Passed(s) : Scan!AsRead(s, f)
         /\ ~Scan!At(s, "write") /\ Scan!MayMark(s) =>
              \A f \in Scan!Files \ Scan!Listed(s) : instances[f] # None => instances[f].missing

\* The parts of the invariant that concern no scan.
ScanFacts == Scan!TypeOK /\ Scan!SongsHaveRows

LEMMA ScanByScan == Scan!IInv <=> ScanFacts /\ \A s \in Scans : ScanHolds(s)
BY DEF Scan!IInv, ScanFacts, ScanHolds, Scan!GoneIsKnown, Scan!UnfoundWasGone,
   Scan!CalmIsAlone,
       Scan!TodoIsListed, Scan!RowsStay, Scan!CalmRowsStand

LEMMA ScanByScanThen == Scan!IInv' <=> ScanFacts' /\ \A s \in Scans : ScanHolds(s)'
BY DEF Scan!IInv, ScanFacts, ScanHolds, Scan!GoneIsKnown, Scan!UnfoundWasGone,
   Scan!CalmIsAlone,
       Scan!TodoIsListed, Scan!RowsStay, Scan!CalmRowsStand

LEMMA ScanSorts ==
    /\ Scan!ScanStates' = Scan!ScanStates /\ Scan!RowStates' = Scan!RowStates
    /\ Scan!TaskStates' = Scan!TaskStates /\ Scan!Generations' = Scan!Generations /\ Scan!Files' = Scan!Files
BY DEF Scan!ScanStates, Scan!RowStates, Scan!TaskStates, Scan!Generations, Scan!Files,
   Scan!Statuses, Scan!Ended

LEMMA IdleScan == Scan!Idle \in Scan!ScanStates
<1>1. 0 \in Scan!Generations
  BY StorageAssumption DEF Scan!Generations
<1>2. [f \in Scan!Files |-> 0] \in [Scan!Files -> Scan!Generations]
      /\ [f \in Scan!Files |-> None] \in [Scan!Files -> Scan!RowStates \cup {None}]
  BY <1>1
<1>3. "new" \in Scan!Statuses
  BY DEF Scan!Statuses, Scan!Ended
<1>4. QED
  BY <1>2, <1>3 DEF Scan!Idle, Scan!ScanStates

LEMMA OverScan == ASSUME NEW at \in Scan!Statuses PROVE [Scan!Idle EXCEPT !.at = at] \in Scan!ScanStates
BY IdleScan DEF Scan!ScanStates

\* A scan that is not under way promises nothing.
LEMMA RestingScan == ASSUME NEW s \in Scans, ~Scan!Running(s) PROVE ScanHolds(s)
BY DEF ScanHolds, Scan!Running, Scan!Covered, Scan!Calm, Scan!Writing, Scan!Ended, Scan!At

\* Who looks on while another scan or the storage writes: it is not calm any more.
LEMMA DisturbedScan ==
    ASSUME NEW s \in Scans, ScanHolds(s), Scan!Running(s) => ~scan'[s].calm,
           scan'[s].at = scan[s].at, scan'[s].found = scan[s].found, scan'[s].complete = scan[s].complete,
           scan'[s].prior = scan[s].prior, scan'[s].todo = scan[s].todo, scan'[s].hidden = scan[s].hidden,
           scan[s].gone \subseteq scan'[s].gone,
           \A f \in Scan!Files : Scan!Running(s) /\ disk'[f] = 0 => f \in scan'[s].gone,
           \A f \in Scan!Files : instances[f] # None => instances'[f] # None,
           \A f \in Scan!Files : Scan!Insertable(f)' => Scan!Insertable(f)
    PROVE  ScanHolds(s)'
<1>1. Scan!Running(s)' = Scan!Running(s) /\ Scan!Covered(s)' = Scan!Covered(s) /\ Scan!Passed(s)' = Scan!Passed(s)
      /\ Scan!Writing(s)' = Scan!Writing(s) /\ Scan!Passed(s) \subseteq Scan!Files
  BY DEF Scan!Running, Scan!Covered, Scan!Passed, Scan!Writing, Scan!At, Scan!Listed
<1>2. ~Scan!Calm(s)'
  BY <1>1 DEF Scan!Calm
<1>3. \A f \in Scan!Covered(s)' : scan'[s].found[f] = 0 => f \in scan'[s].gone \cup scan'[s].hidden
  BY <1>1 DEF ScanHolds
<1>4. Scan!Writing(s)' =>
         \A f \in Scan!Files : scan'[s].prior[f] # None \/ (f \in Scan!Passed(s)' /\ Scan!Insertable(f)') => instances'[f] # None
  BY <1>1 DEF ScanHolds
<1>5. Scan!At(s, "write")' => scan'[s].todo \subseteq Scan!Listed(s)'
  BY DEF ScanHolds, Scan!At, Scan!Listed
<1>6. QED
  BY <1>1, <1>2, <1>3, <1>4, <1>5 DEF ScanHolds

\* Who looks on while nothing but tags changes.
LEMMA UndisturbedScan ==
    ASSUME NEW s \in Scans, ScanHolds(s), scan'[s] = scan[s], UNCHANGED <<kind, mode, disk, entry>>,
           \A o \in Scans : Scan!Running(o)' => Scan!Running(o),
           \A f \in Scan!Files : /\ instances'[f] = None <=> instances[f] = None
                                 /\ instances[f] # None => /\ instances'[f].print = instances[f].print
                                                           /\ instances'[f].missing = instances[f].missing
    PROVE  ScanHolds(s)'
<1>1. Scan!Running(s)' = Scan!Running(s) /\ Scan!Covered(s)' = Scan!Covered(s) /\ Scan!Passed(s)' = Scan!Passed(s)
      /\ Scan!Writing(s)' = Scan!Writing(s) /\ Scan!Passed(s) \subseteq Scan!Files /\ Scan!Calm(s)' = Scan!Calm(s)
      /\ Scan!Listed(s)' = Scan!Listed(s) /\ Scan!MayMark(s)' = Scan!MayMark(s)
      /\ \A at : Scan!At(s, at)' = Scan!At(s, at)
  BY DEF Scan!Running, Scan!Covered, Scan!Passed, Scan!Writing, Scan!At, Scan!Listed,
     Scan!Calm, Scan!MayMark
<1>2. \A f \in Scan!Files : Scan!Insertable(f)' = Scan!Insertable(f) /\ Scan!Owed(f)' = Scan!Owed(f)
  BY DEF Scan!Insertable, Scan!Owed
<1>3. \A f \in Scan!Files : (Scan!Fresh(s, f) => Scan!Fresh(s, f)') /\ (Scan!AsRead(s, f) => Scan!AsRead(s, f)')
  BY DEF Scan!Fresh, Scan!AsRead
<1>4. \A f \in Scan!Files : Scan!Running(s)' /\ disk'[f] = 0 => f \in scan'[s].gone
  BY <1>1 DEF ScanHolds
<1>5. \A f \in Scan!Covered(s)' : scan'[s].found[f] = 0 => f \in scan'[s].gone \cup scan'[s].hidden
  BY <1>1 DEF ScanHolds
<1>6. Scan!Calm(s)' => /\ \A o \in Scans : Scan!Running(o)' => o = s
                       /\ \A f \in Scan!Covered(s)' : scan'[s].found[f] = disk'[f]
  BY <1>1 DEF ScanHolds
<1>7. Scan!Writing(s)' =>
         \A f \in Scan!Files : scan'[s].prior[f] # None \/ (f \in Scan!Passed(s)' /\ Scan!Insertable(f)') => instances'[f] # None
  BY <1>1, <1>2 DEF ScanHolds
<1>8. Scan!Calm(s)' /\ Scan!Writing(s)' =>
         \A f \in Scan!Passed(s)' : scan'[s].prior[f] # None \/ Scan!Owed(f)' => Scan!Fresh(s, f)'
  BY <1>1, <1>2, <1>3 DEF ScanHolds
<1>9. Scan!Calm(s)' /\ Scan!Writing(s)' /\ Scan!At(s, "write")' => \A f \in Scan!Files \ Scan!Passed(s)' : Scan!AsRead(s, f)'
  BY <1>1, <1>3 DEF ScanHolds
<1>10. Scan!Calm(s)' /\ Scan!Writing(s)' /\ ~Scan!At(s, "write")' /\ Scan!MayMark(s)' =>
              \A f \in Scan!Files \ Scan!Listed(s)' : instances'[f] # None => instances'[f].missing
  BY <1>1 DEF ScanHolds
<1>11. Scan!At(s, "write")' => scan'[s].todo \subseteq Scan!Listed(s)'
  BY <1>1 DEF ScanHolds
<1>12. QED
  BY <1>4, <1>5, <1>6, <1>7, <1>8, <1>9, <1>10, <1>11 DEF ScanHolds

\* A step of one scan that writes no rows.
LEMMA ScanTurns ==
    ASSUME Scan!IInv, NEW s \in Scans, NEW r \in Scan!ScanStates, scan' = [scan EXCEPT ![s] = r],
           UNCHANGED <<kind, mode, disk, changes, instances, entry>>, tasks' \in [Scan!Files -> Scan!TaskStates \cup {None}],
           Scan!Running(s), ScanHolds(s)'
    PROVE  Scan!IInv'
<1>1. scan' \in [Scans -> Scan!ScanStates] /\ scan'[s] = r /\ \A o \in Scans \ {s} : scan'[o] = scan[o]
  BY DEF Scan!IInv, Scan!TypeOK
<1>2. ScanFacts'
  <2>1. Scan!TypeOK'
    BY <1>1, ScanSorts DEF Scan!IInv, Scan!TypeOK
  <2>2. Scan!SongsHaveRows'
    BY DEF Scan!IInv, Scan!SongsHaveRows
  <2>3. QED
    BY <2>1, <2>2 DEF ScanFacts
<1>3. \A o \in Scans : Scan!Running(o)' => Scan!Running(o)
  BY <1>1 DEF Scan!Running
<1>4. ASSUME NEW o \in Scans \ {s} PROVE ScanHolds(o)'
  <2>1. ScanHolds(o) /\ scan'[o] = scan[o]
    BY <1>1, ScanByScan
  <2>2. QED
    BY <2>1, <1>3, UndisturbedScan
<1>5. QED
  BY <1>2, <1>4, ScanByScanThen

\* A listing goes on: what it covers now is what is there, or was covered, or is hidden.
Heard(s, r) == \A f \in Scan!Covered(s)' : \/ r.found[f] = disk[f]
                                           \/ f \in Scan!Covered(s) /\ r.found[f] = scan[s].found[f]
                                           \/ f \in r.hidden /\ ~r.calm

LEMMA ListingGoesOn ==
    ASSUME Scan!IInv, NEW s \in Scans, Scan!Running(s), NEW r \in Scan!ScanStates, scan' = [scan EXCEPT ![s] = r],
           UNCHANGED <<kind, mode, disk, changes, instances, entry, tasks>>,
           r.at \in {"below", "rows"}, r.gone = scan[s].gone, r.complete => scan[s].complete,
           scan[s].hidden \subseteq r.hidden, r.calm => scan[s].calm /\ r.hidden = scan[s].hidden,
           Heard(s, r)
    PROVE  Scan!IInv'
<1>1. scan'[s] = r /\ \A o \in Scans \ {s} : scan'[o] = scan[o]
  BY DEF Scan!IInv, Scan!TypeOK
<1>2. ScanHolds(s)
  BY ScanByScan
<1>3. ~Scan!Writing(s)'
  BY <1>1 DEF Scan!Writing
<1>4. \A f \in Scan!Files : disk'[f] = 0 => f \in scan'[s].gone
  BY <1>1, <1>2 DEF ScanHolds
<1>5. Scan!Covered(s)' \subseteq Scan!Files
  BY DEF Scan!Covered, Scan!Files
<1>6. \A f \in Scan!Covered(s)' : scan'[s].found[f] = 0 => f \in scan'[s].gone \cup scan'[s].hidden
  BY <1>1, <1>2, <1>4, <1>5 DEF ScanHolds, Heard
<1>7. Scan!Calm(s)' => Scan!Calm(s)
  BY <1>1 DEF Scan!Calm
<1>8. \A o \in Scans : Scan!Running(o)' => Scan!Running(o)
  BY <1>1 DEF Scan!Running
<1>9. Scan!Calm(s)' => \A o \in Scans : Scan!Running(o)' => o = s
  BY <1>2, <1>7, <1>8 DEF ScanHolds
<1>10. Scan!Calm(s)' => \A f \in Scan!Covered(s)' : scan'[s].found[f] = disk'[f]
  <2> SUFFICES ASSUME Scan!Calm(s)', NEW f \in Scan!Covered(s)' PROVE r.found[f] = disk[f]
    BY <1>1
  <2>1. r.calm /\ Scan!Calm(s)
    BY <1>1, <1>7 DEF Scan!Calm
  <2>2. f \in Scan!Covered(s) => scan[s].found[f] = disk[f]
    BY <2>1, <1>2 DEF ScanHolds
  <2>3. QED
    BY <2>1, <2>2 DEF Heard
<1>11. ~Scan!At(s, "write")'
  BY <1>1 DEF Scan!At
<1>12. ScanHolds(s)'
  BY <1>3, <1>4, <1>6, <1>9, <1>10, <1>11 DEF ScanHolds
<1>13. QED
  BY <1>12, ScanTurns DEF Scan!IInv, Scan!TypeOK

LEMMA FindsFiles == ASSUME Scan!TypeOK, NEW s \in Scans, NEW S PROVE Scan!Finds(s, S) \in [Scan!Files -> Scan!Generations]
BY DEF Scan!Finds, Scan!TypeOK, Scan!ScanStates

LEMMA ListsKeeps ==
    ASSUME Scan!IInv, NEW s \in Scans, Scan!ListsDeep(s) \/ Scan!ListsRoot(s) \/ Scan!ListsBelow(s) \/ Scan!ListsPage(s)
    PROVE  Scan!IInv'
<1> DEFINE found(S) == Scan!Finds(s, S)
<1>1. scan[s] \in Scan!ScanStates /\ Scan!TypeOK
  BY DEF Scan!IInv, Scan!TypeOK
<1>2. \A S : found(S) \in [Scan!Files -> Scan!Generations] /\ \A f \in Scan!Files : found(S)[f] = IF f \in S THEN disk[f] ELSE scan[s].found[f]
  BY <1>1, FindsFiles DEF Scan!Finds
<1>3. UNCHANGED <<kind, mode, disk, changes, instances, entry, tasks>>
  BY DEF Scan!ListsDeep, Scan!ListsRoot, Scan!ListsBelow, Scan!ListsPage, Scan!Rest
<1>4. Scan!Running(s)
  BY DEF Scan!ListsDeep, Scan!ListsRoot, Scan!ListsBelow, Scan!ListsPage, Scan!Running,
     Scan!At, Scan!Ended
<1>5. CASE Scan!Over(s, "failed")
  <2>1. PICK r \in Scan!ScanStates : r = [Scan!Idle EXCEPT !.at = "failed"]
    BY OverScan DEF Scan!Statuses, Scan!Ended
  <2>2. scan' = [scan EXCEPT ![s] = r]
    BY <1>5, <2>1 DEF Scan!Over
  <2>3. scan'[s].at = "failed"
    BY <2>1, <2>2 DEF Scan!IInv, Scan!TypeOK, Scan!Idle
  <2>4. ScanHolds(s)'
    BY <2>3, RestingScan DEF Scan!Running, Scan!Ended, ScanHolds, Scan!Covered, Scan!Calm,
       Scan!Writing, Scan!At
  <2>5. QED
    BY <2>2, <2>4, <1>3, <1>4, ScanTurns DEF Scan!IInv, Scan!TypeOK
<1>6. CASE scan' = [scan EXCEPT ![s] = [@ EXCEPT !.at = "rows", !.found = found(Scan!Files)]]
  <2>1. PICK r : r = [scan[s] EXCEPT !.at = "rows", !.found = found(Scan!Files)]
    OBVIOUS
  <2>2. r \in Scan!ScanStates /\ r.at = "rows" /\ r.found = found(Scan!Files) /\ r.complete = scan[s].complete
        /\ r.gone = scan[s].gone /\ r.hidden = scan[s].hidden /\ r.calm = scan[s].calm
    BY <1>1, <1>2, <2>1 DEF Scan!ScanStates, Scan!Statuses
  <2>3. scan' = [scan EXCEPT ![s] = r]
    BY <1>6, <2>1
  <2>4. Heard(s, r)
    BY <1>2, <2>2 DEF Scan!Covered, Scan!Files, Heard
  <2>5. QED
    BY <2>2, <2>3, <2>4, <1>3, <1>4, ListingGoesOn
<1>7. CASE scan' = [scan EXCEPT ![s] = [@ EXCEPT !.at = "below", !.found = found(Top)]]
  <2>1. PICK r : r = [scan[s] EXCEPT !.at = "below", !.found = found(Top)]
    OBVIOUS
  <2>2. r \in Scan!ScanStates /\ r.at = "below" /\ r.found = found(Top) /\ r.complete = scan[s].complete
        /\ r.gone = scan[s].gone /\ r.hidden = scan[s].hidden /\ r.calm = scan[s].calm
    BY <1>1, <1>2, <2>1 DEF Scan!ScanStates, Scan!Statuses
  <2>3. scan' = [scan EXCEPT ![s] = r]
    BY <1>7, <2>1
  <2>4. scan'[s] = r
    BY <2>3, <1>1 DEF Scan!TypeOK
  <2>5. Heard(s, r)
    BY <1>2, <2>2, <2>4 DEF Scan!Covered, Scan!Files, Scan!At, Heard
  <2>6. QED
    BY <2>2, <2>3, <2>5, <1>3, <1>4, ListingGoesOn
<1>8. CASE Scan!At(s, "below") /\ scan' = [scan EXCEPT ![s] = [@ EXCEPT !.at = "rows", !.found = found(Nested)]]
  <2>1. PICK r : r = [scan[s] EXCEPT !.at = "rows", !.found = found(Nested)]
    OBVIOUS
  <2>2. r \in Scan!ScanStates /\ r.at = "rows" /\ r.found = found(Nested) /\ r.complete = scan[s].complete
        /\ r.gone = scan[s].gone /\ r.hidden = scan[s].hidden /\ r.calm = scan[s].calm
    BY <1>1, <1>2, <2>1 DEF Scan!ScanStates, Scan!Statuses
  <2>3. scan' = [scan EXCEPT ![s] = r]
    BY <1>8, <2>1
  <2>4. scan'[s] = r
    BY <2>3, <1>1 DEF Scan!TypeOK
  <2>5. Heard(s, r)
    BY <1>2, <1>4, <1>8, <2>2, <2>4 DEF Scan!Covered, Scan!Files, Scan!At, Heard
  <2>6. QED
    BY <2>2, <2>3, <2>5, <1>3, <1>4, ListingGoesOn
<1>9. CASE Scan!At(s, "below") /\ scan' = [scan EXCEPT ![s] = [@ EXCEPT !.at = "rows", !.hidden = Nested, !.calm = FALSE]]
  <2>1. PICK r : r = [scan[s] EXCEPT !.at = "rows", !.hidden = Nested, !.calm = FALSE]
    OBVIOUS
  <2>2. r \in Scan!ScanStates /\ r.at = "rows" /\ r.found = scan[s].found /\ r.complete = scan[s].complete
        /\ r.gone = scan[s].gone /\ r.hidden = Nested /\ r.calm = FALSE
    BY <1>1, <1>2, <2>1 DEF Scan!ScanStates, Scan!Statuses, Scan!Files
  <2>3. scan' = [scan EXCEPT ![s] = r]
    BY <1>9, <2>1
  <2>4. scan'[s] = r
    BY <2>3, <1>1 DEF Scan!TypeOK
  <2>5. Heard(s, r)
    BY <1>4, <1>9, <2>2, <2>4 DEF Scan!Covered, Scan!Files, Scan!At, Heard
  <2>6. scan[s].hidden \subseteq r.hidden
    BY <1>1, <2>2 DEF Scan!ScanStates
  <2>7. QED
    BY <2>2, <2>3, <2>5, <2>6, <1>3, <1>4, ListingGoesOn
<1>10. CASE scan' = [scan EXCEPT ![s] = [@ EXCEPT !.at = "rows", !.complete = FALSE]]
  <2>1. PICK r : r = [scan[s] EXCEPT !.at = "rows", !.complete = FALSE]
    OBVIOUS
  <2>2. r \in Scan!ScanStates /\ r.at = "rows" /\ r.complete = FALSE
        /\ r.gone = scan[s].gone /\ r.hidden = scan[s].hidden /\ r.calm = scan[s].calm
    BY <1>1, <1>2, <2>1 DEF Scan!ScanStates, Scan!Statuses
  <2>3. scan' = [scan EXCEPT ![s] = r]
    BY <1>10, <2>1
  <2>4. scan'[s] = r
    BY <2>3, <1>1 DEF Scan!TypeOK
  <2>5. Heard(s, r)
    BY <2>2, <2>4 DEF Scan!Covered, Heard
  <2>6. QED
    BY <2>2, <2>3, <2>5, <1>3, <1>4, ListingGoesOn
<1>11. QED
  BY <1>5, <1>6, <1>7, <1>8, <1>9, <1>10 DEF Scan!ListsDeep, Scan!ListsRoot,
     Scan!ListsBelow, Scan!ListsPage

\* The end of a scan, whatever its status.
LEMMA OverKeeps ==
    ASSUME Scan!IInv, NEW s \in Scans, NEW at \in Scan!Ended, Scan!Running(s), Scan!Over(s, at),
           UNCHANGED <<kind, mode, disk, changes, instances, entry, tasks>>
    PROVE  Scan!IInv'
<1>1. PICK r \in Scan!ScanStates : r = [Scan!Idle EXCEPT !.at = at]
  BY OverScan DEF Scan!Statuses
<1>2. scan' = [scan EXCEPT ![s] = r]
  BY <1>1 DEF Scan!Over
<1>3. scan'[s].at = at
  BY <1>1, <1>2 DEF Scan!IInv, Scan!TypeOK, Scan!Idle
<1>4. ScanHolds(s)'
  BY <1>3 DEF Scan!Running, Scan!Ended, ScanHolds, Scan!Covered, Scan!Calm, Scan!Writing,
     Scan!At
<1>5. QED
  BY <1>2, <1>4, ScanTurns DEF Scan!IInv, Scan!TypeOK

LEMMA ReadsRowsKeeps == ASSUME Scan!IInv, NEW s \in Scans, Scan!ReadsRows(s) PROVE Scan!IInv'
<1>1. scan[s] \in Scan!ScanStates /\ Scan!TypeOK /\ ScanHolds(s) /\ scan[s].at = "rows"
  BY ScanByScan DEF Scan!IInv, Scan!TypeOK, Scan!ReadsRows, Scan!At
<1>2. PICK r : r = [scan[s] EXCEPT !.at = "write", !.prior = instances, !.todo = Scan!Listed(s)]
  OBVIOUS
<1>3. r.at = "write" /\ r.prior = instances /\ r.todo = Scan!Listed(s) /\ r.found = scan[s].found /\ r.gone = scan[s].gone
      /\ r.hidden = scan[s].hidden /\ r.calm = scan[s].calm /\ r.complete = scan[s].complete
  BY <1>1, <1>2, SMTT(30) DEF Scan!ScanStates
<1>4. r \in Scan!ScanStates
  BY <1>1, <1>2 DEF Scan!ScanStates, Scan!TypeOK, Scan!Statuses, Scan!Listed
<1>5. scan' = [scan EXCEPT ![s] = r] /\ scan'[s] = r /\ Scan!Running(s)
  BY <1>1, <1>2 DEF Scan!ReadsRows, Scan!TypeOK, Scan!Running, Scan!Ended
<1>6. UNCHANGED <<kind, mode, disk, changes, instances, entry, tasks>>
  BY DEF Scan!ReadsRows, Scan!Rest
<1>7. Scan!Listed(s)' = Scan!Listed(s) /\ Scan!Passed(s)' = {} /\ Scan!Calm(s)' = Scan!Calm(s)
      /\ Scan!Covered(s)' = Scan!Covered(s) /\ Scan!At(s, "write")'
  BY <1>1, <1>3, <1>5 DEF Scan!Listed, Scan!Passed, Scan!Calm, Scan!Covered, Scan!Running,
     Scan!At, Scan!Ended
<1>8. \A f \in Scan!Files : Scan!AsRead(s, f)'
  BY <1>3, <1>5, <1>6 DEF Scan!AsRead
<1>9. \A o \in Scans : Scan!Running(o)' => Scan!Running(o)
  BY <1>5, <1>1 DEF Scan!Running, Scan!TypeOK
<1>10. \A f \in Scan!Files : disk'[f] = 0 => f \in scan'[s].gone
  BY <1>1, <1>3, <1>5, <1>6 DEF ScanHolds
<1>11. \A f \in Scan!Covered(s)' : scan'[s].found[f] = 0 => f \in scan'[s].gone \cup scan'[s].hidden
  BY <1>1, <1>3, <1>5, <1>7 DEF ScanHolds
<1>12. Scan!Calm(s)' => /\ \A o \in Scans : Scan!Running(o)' => o = s
                        /\ \A f \in Scan!Covered(s)' : scan'[s].found[f] = disk'[f]
  BY <1>1, <1>3, <1>5, <1>6, <1>7, <1>9 DEF ScanHolds
<1>13. ScanHolds(s)'
  BY <1>3, <1>5, <1>6, <1>7, <1>8, <1>10, <1>11, <1>12 DEF ScanHolds
<1>14. QED
  BY <1>4, <1>5, <1>6, <1>13, ScanTurns DEF Scan!TypeOK, Scan!IInv

\* A step of one scan that writes rows: every other scan that runs knows that it is not alone.
LEMMA ScanWrites ==
    ASSUME Scan!IInv, NEW s \in Scans, NEW r \in Scan!ScanStates, scan' = [scan EXCEPT ![s] = r],
           UNCHANGED <<kind, mode, disk, changes, tasks>>, Scan!Running(s), ScanHolds(s)',
           instances' \in [Scan!Files -> Scan!RowStates \cup {None}], entry' \in [Scan!Files -> {None, "file", "song"}],
           \A f \in Scan!Files : /\ instances[f] # None => instances'[f] # None
                                 /\ entry'[f] = entry[f] \/ (entry'[f] = "song" /\ kind = "r2" /\ instances'[f] # None)
    PROVE  Scan!IInv'
<1>1. scan' \in [Scans -> Scan!ScanStates] /\ scan'[s] = r /\ \A o \in Scans \ {s} : scan'[o] = scan[o]
  BY DEF Scan!IInv, Scan!TypeOK
<1>2. ScanFacts'
  <2>1. Scan!TypeOK'
    BY <1>1, ScanSorts DEF Scan!IInv, Scan!TypeOK
  <2>2. Scan!SongsHaveRows'
    BY ScanSorts DEF Scan!IInv, Scan!SongsHaveRows
  <2>3. QED
    BY <2>1, <2>2 DEF ScanFacts
<1>3. ASSUME NEW o \in Scans \ {s} PROVE ScanHolds(o)'
  <2>1. ScanHolds(o) /\ scan'[o] = scan[o]
    BY <1>1, ScanByScan
  <2>2. Scan!Running(o) => ~scan[o].calm
    BY <2>1 DEF ScanHolds, Scan!Calm
  <2>3. \A f \in Scan!Files : Scan!Insertable(f)' => Scan!Insertable(f)
    BY DEF Scan!Insertable
  <2>4. \A f \in Scan!Files : Scan!Running(o) /\ disk'[f] = 0 => f \in scan'[o].gone
    BY <2>1 DEF ScanHolds
  <2>5. QED
    BY <2>1, <2>2, <2>3, <2>4, DisturbedScan
<1>4. QED
  BY <1>2, <1>3, ScanByScanThen

\* The loop deals with one file.
LEMMA LoopGoesOn ==
    ASSUME Scan!IInv, NEW s \in Scans, Scan!At(s, "write"), NEW f \in scan[s].todo, NEW T \in SUBSET Scan!Files,
           scan' = [scan EXCEPT ![s] = [scan[s] EXCEPT !.todo = scan[s].todo \ {f}, !.targets = T]],
           UNCHANGED <<kind, mode, disk, changes, entry, tasks>>,
           instances' \in [Scan!Files -> Scan!RowStates \cup {None}],
           \A g \in Scan!Files \ {f} : instances'[g] = instances[g],
           scan[s].prior[f] # None \/ Scan!Insertable(f) \/ instances[f] # None => instances'[f] # None,
           Scan!Calm(s) /\ (scan[s].prior[f] # None \/ Scan!Owed(f)) =>
               instances'[f] # None /\ ~instances'[f].missing /\ instances'[f].print = scan[s].found[f]
    PROVE  Scan!IInv'
<1>1. scan[s] \in Scan!ScanStates /\ Scan!TypeOK /\ ScanHolds(s) /\ scan[s].at = "write"
  BY ScanByScan DEF Scan!IInv, Scan!TypeOK, Scan!At
<1>2. PICK r : r = [scan[s] EXCEPT !.todo = scan[s].todo \ {f}, !.targets = T]
  OBVIOUS
<1>3. r.at = "write" /\ r.prior = scan[s].prior /\ r.todo = scan[s].todo \ {f} /\ r.found = scan[s].found
      /\ r.gone = scan[s].gone /\ r.hidden = scan[s].hidden /\ r.calm = scan[s].calm /\ r.complete = scan[s].complete
  BY <1>1, <1>2 DEF Scan!ScanStates
<1>4. r \in Scan!ScanStates
  BY <1>1, <1>2 DEF Scan!ScanStates
<1>a. scan' = [scan EXCEPT ![s] = r]
  BY <1>2
<1>5. scan' = [scan EXCEPT ![s] = r] /\ scan'[s] = r /\ Scan!Running(s)
  BY <1>1, <1>a DEF Scan!TypeOK, Scan!Running, Scan!Ended
<1>6. f \in Scan!Files /\ f \in Scan!Listed(s) /\ f \notin Scan!Passed(s)
  BY <1>1 DEF ScanHolds, Scan!At, Scan!Listed, Scan!Passed
<1>7. Scan!Listed(s)' = Scan!Listed(s) /\ Scan!Calm(s)' = Scan!Calm(s) /\ Scan!Covered(s)' = Scan!Covered(s)
      /\ Scan!At(s, "write") /\ Scan!At(s, "write")' /\ Scan!Writing(s)
  BY <1>1, <1>3, <1>5 DEF Scan!Listed, Scan!Calm, Scan!Covered, Scan!Running, Scan!At,
     Scan!Writing
<1>8. Scan!Passed(s)' = Scan!Passed(s) \cup {f} /\ Scan!Passed(s) \subseteq Scan!Files
  BY <1>3, <1>5, <1>6, <1>7 DEF Scan!Passed, Scan!Listed
<1>9. \A o \in Scans : Scan!Running(o)' => Scan!Running(o)
  BY <1>5, <1>1 DEF Scan!Running, Scan!TypeOK
<1>10. \A g \in Scan!Files : disk'[g] = 0 => g \in scan'[s].gone
  BY <1>1, <1>3, <1>5 DEF ScanHolds
<1>11. \A g \in Scan!Covered(s)' : scan'[s].found[g] = 0 => g \in scan'[s].gone \cup scan'[s].hidden
  BY <1>1, <1>3, <1>5, <1>7 DEF ScanHolds
<1>12. Scan!Calm(s)' => /\ \A o \in Scans : Scan!Running(o)' => o = s
                        /\ \A g \in Scan!Covered(s)' : scan'[s].found[g] = disk'[g]
  BY <1>1, <1>3, <1>5, <1>7, <1>9 DEF ScanHolds
<1>13. \A g \in Scan!Files : Scan!Insertable(g)' = Scan!Insertable(g) /\ Scan!Owed(g)' = Scan!Owed(g)
  BY DEF Scan!Insertable, Scan!Owed
<1>14. \A g \in Scan!Files : scan'[s].prior[g] # None \/ (g \in Scan!Passed(s)' /\ Scan!Insertable(g)') => instances'[g] # None
  BY <1>1, <1>3, <1>5, <1>7, <1>8, <1>13 DEF ScanHolds
<1>15. ASSUME Scan!Calm(s)', NEW g \in Scan!Passed(s)', scan'[s].prior[g] # None \/ Scan!Owed(g)' PROVE Scan!Fresh(s, g)'
  <2>1. CASE g = f
    BY <1>3, <1>5, <1>6, <1>7, <1>13, <1>15, <2>1 DEF Scan!Fresh
  <2>2. CASE g # f
    <3>1. g \in Scan!Passed(s) /\ g \in Scan!Files /\ (scan[s].prior[g] # None \/ Scan!Owed(g))
      BY <1>3, <1>5, <1>8, <1>13, <1>15, <2>2
    <3>2. Scan!Fresh(s, g)
      BY <1>1, <1>3, <1>5, <1>7, <1>8, <1>13, <1>15, <2>2 DEF ScanHolds
    <3>3. QED
      BY <1>3, <1>5, <1>8, <1>15, <2>2, <3>2 DEF Scan!Fresh
  <2>3. QED
    BY <2>1, <2>2
<1>16. Scan!Calm(s)' => \A g \in Scan!Files \ Scan!Passed(s)' : Scan!AsRead(s, g)'
  <2> SUFFICES ASSUME Scan!Calm(s)', NEW g \in Scan!Files \ Scan!Passed(s)' PROVE Scan!AsRead(s, g)'
    OBVIOUS
  <2>1. g # f /\ Scan!AsRead(s, g)
    BY <1>1, <1>7, <1>8 DEF ScanHolds
  <2>2. QED
    BY <1>3, <1>5, <2>1 DEF Scan!AsRead
<1>17. scan'[s].todo \subseteq Scan!Listed(s)'
  BY <1>1, <1>3, <1>5, <1>7 DEF ScanHolds
<1>18. ScanHolds(s)'
  BY <1>7, <1>10, <1>11, <1>12, <1>14, <1>15, <1>16, <1>17 DEF ScanHolds
<1>19. QED
  <2>1. \A g \in Scan!Files : instances[g] # None => instances'[g] # None
    OBVIOUS
  <2>2. entry' \in [Scan!Files -> {None, "file", "song"}]
    BY <1>1 DEF Scan!TypeOK
  <2>3. QED
    BY <1>4, <1>5, <1>18, <2>1, <2>2, ScanWrites

LEMMA PassesMeans ==
    ASSUME Scan!TypeOK, NEW s \in Scans, NEW f \in Scan!Files, NEW queue, Scan!Passes(s, f, queue)
    PROVE  \E T \in SUBSET Scan!Files :
             scan' = [scan EXCEPT ![s] = [scan[s] EXCEPT !.todo = scan[s].todo \ {f}, !.targets = T]]
<1>1. scan[s] \in Scan!ScanStates
  BY DEF Scan!TypeOK
<1>2. PICK T : T = IF queue /\ scan[s].pool THEN scan[s].targets \cup {f} ELSE scan[s].targets
  OBVIOUS
<1>3. T \in SUBSET Scan!Files
  BY <1>1, <1>2 DEF Scan!ScanStates
<1>4. scan' = [scan EXCEPT ![s] = [scan[s] EXCEPT !.todo = scan[s].todo \ {f}, !.targets = T]]
  BY <1>1, <1>2 DEF Scan!Passes, Scan!ScanStates
<1>5. QED
  BY <1>3, <1>4

\* What the loop finds a file to be: a row as it was read when the scan is calm.
LEMMA TurnMeans ==
    ASSUME Scan!IInv, NEW s \in Scans, NEW f \in Scan!Files, Scan!Turn(s, f)
    PROVE  /\ Scan!At(s, "write") /\ f \in scan[s].todo /\ scan[s] \in Scan!ScanStates /\ Scan!TypeOK
           /\ scan[s].prior[f] # None => instances[f] # None
           /\ Scan!Calm(s) => Scan!AsRead(s, f)
           /\ scan[s].found[f] \in Scan!Generations
<1>1. Scan!At(s, "write") /\ f \in scan[s].todo /\ scan[s] \in Scan!ScanStates /\ Scan!TypeOK /\ ScanHolds(s)
  BY ScanByScan DEF Scan!Turn, Scan!IInv, Scan!TypeOK
<1>2. Scan!Writing(s) /\ f \notin Scan!Passed(s)
  BY <1>1 DEF Scan!Writing, Scan!At, Scan!Passed
<1>3. scan[s].prior[f] # None => instances[f] # None
  BY <1>1, <1>2 DEF ScanHolds
<1>4. Scan!Calm(s) => Scan!AsRead(s, f)
  BY <1>1, <1>2 DEF ScanHolds
<1>5. scan[s].found[f] \in Scan!Generations
  BY <1>1 DEF Scan!ScanStates
<1>6. QED
  BY <1>1, <1>3, <1>4, <1>5

LEMMA FileSkippedKeeps ==
    ASSUME Scan!IInv, NEW s \in Scans, NEW f \in Scan!Files, Scan!FileSkipped(s, f) PROVE Scan!IInv'
<1>1. Scan!Turn(s, f) /\ scan[s].prior[f] # None /\ Scan!Same(s, f) /\ Scan!Passes(s, f, ~scan[s].prior[f].scanned)
      /\ UNCHANGED <<kind, mode, disk, changes, entry, tasks, instances>>
  BY DEF Scan!FileSkipped, Scan!Rest
<1>2. Scan!At(s, "write") /\ f \in scan[s].todo /\ scan[s] \in Scan!ScanStates /\ Scan!TypeOK /\ instances[f] # None
      /\ (Scan!Calm(s) => Scan!AsRead(s, f))
  BY <1>1, TurnMeans
<1>4. PICK T \in SUBSET Scan!Files :
        scan' = [scan EXCEPT ![s] = [scan[s] EXCEPT !.todo = scan[s].todo \ {f}, !.targets = T]]
  BY <1>1, <1>2, PassesMeans
<1>5. Scan!Calm(s) => instances'[f] # None /\ ~instances'[f].missing /\ instances'[f].print = scan[s].found[f]
  BY <1>1, <1>2 DEF Scan!AsRead, Scan!Same
<1>6. instances' \in [Scan!Files -> Scan!RowStates \cup {None}]
  BY <1>1, <1>2 DEF Scan!TypeOK
<1>7. QED
  BY <1>1, <1>2, <1>4, <1>5, <1>6, LoopGoesOn

LEMMA FileUpdatedKeeps ==
    ASSUME Scan!IInv, NEW s \in Scans, NEW f \in Scan!Files, Scan!FileUpdated(s, f) PROVE Scan!IInv'
<1>1. PICK kept \in BOOLEAN :
        /\ Scan!Turn(s, f) /\ scan[s].prior[f] # None /\ Scan!Passes(s, f, ~kept)
        /\ instances' = [instances EXCEPT ![f] = [@ EXCEPT !.print = scan[s].found[f], !.missing = FALSE, !.scanned = kept]]
        /\ UNCHANGED <<kind, mode, disk, changes, entry, tasks>>
  <2>1. (Scan!FirstPrint(s, f) /\ scan[s].prior[f].scanned) \in BOOLEAN
    OBVIOUS
  <2>2. QED
    BY <2>1 DEF Scan!FileUpdated, Scan!Rest
<1>2. Scan!At(s, "write") /\ f \in scan[s].todo /\ scan[s] \in Scan!ScanStates /\ Scan!TypeOK /\ instances[f] # None
      /\ scan[s].found[f] \in Scan!Generations
  BY <1>1, TurnMeans
<1>4. PICK T \in SUBSET Scan!Files :
        scan' = [scan EXCEPT ![s] = [scan[s] EXCEPT !.todo = scan[s].todo \ {f}, !.targets = T]]
  BY <1>1, <1>2, PassesMeans
<1>5. PICK r : r = [instances[f] EXCEPT !.print = scan[s].found[f], !.missing = FALSE, !.scanned = kept]
  OBVIOUS
<1>6. instances[f] \in Scan!RowStates
  BY <1>2 DEF Scan!TypeOK
<1>7. r \in Scan!RowStates /\ ~r.missing /\ r.print = scan[s].found[f]
  BY <1>2, <1>5, <1>6 DEF Scan!RowStates
<1>8. instances' = [instances EXCEPT ![f] = r]
  BY <1>1, <1>5
<1>9. instances' \in [Scan!Files -> Scan!RowStates \cup {None}] /\ instances'[f] = r
      /\ \A g \in Scan!Files \ {f} : instances'[g] = instances[g]
  BY <1>2, <1>7, <1>8 DEF Scan!TypeOK
<1>10. r # None
  BY <1>7, StorageAssumption
<1>11. QED
  BY <1>1, <1>2, <1>4, <1>7, <1>9, <1>10, LoopGoesOn

LEMMA FileInsertedKeeps ==
    ASSUME Scan!IInv, NEW s \in Scans, NEW f \in Scan!Files, Scan!FileInserted(s, f) PROVE Scan!IInv'
<1>1. /\ Scan!Turn(s, f) /\ scan[s].prior[f] = None /\ Scan!Passes(s, f, Scan!Insertable(f))
      /\ instances' = IF Scan!Insertable(f) /\ instances[f] = None
                      THEN [instances EXCEPT ![f] = Scan!InitRow(scan[s].found[f])] ELSE instances
      /\ UNCHANGED <<kind, mode, disk, changes, entry, tasks>>
  BY DEF Scan!FileInserted, Scan!Rest
<1>2. Scan!At(s, "write") /\ f \in scan[s].todo /\ scan[s] \in Scan!ScanStates /\ Scan!TypeOK
      /\ scan[s].found[f] \in Scan!Generations /\ (Scan!Calm(s) => Scan!AsRead(s, f))
  BY <1>1, TurnMeans
<1>4. PICK T \in SUBSET Scan!Files :
        scan' = [scan EXCEPT ![s] = [scan[s] EXCEPT !.todo = scan[s].todo \ {f}, !.targets = T]]
  <2>1. Scan!TypeOK
    BY <1>2
  <2>2. QED
    BY <1>1, <2>1, PassesMeans
<1>5. PICK r : r = Scan!InitRow(scan[s].found[f])
  OBVIOUS
<1>6. r \in Scan!RowStates /\ ~r.missing /\ r.print = scan[s].found[f]
  BY <1>2, <1>5 DEF Scan!RowStates, Scan!InitRow
<1>7. r # None
  BY <1>6, StorageAssumption
<1>8. Scan!Calm(s) /\ Scan!Owed(f) => Scan!Insertable(f) /\ instances[f] = None
  <2>1. Scan!Calm(s) => instances[f] = None
    BY <1>1, <1>2 DEF Scan!AsRead
  <2>2. instances[f] = None => entry[f] # "song"
    BY DEF Scan!IInv, Scan!SongsHaveRows
  <2>3. entry[f] \in {None, "file", "song"}
    BY <1>2, SMTT(30) DEF Scan!TypeOK
  <2>4. QED
    BY <2>1, <2>2, <2>3 DEF Scan!Owed, Scan!Insertable
<1>9. CASE Scan!Insertable(f) /\ instances[f] = None
  <2>1. instances' \in [Scan!Files -> Scan!RowStates \cup {None}] /\ instances'[f] = r
        /\ \A g \in Scan!Files \ {f} : instances'[g] = instances[g]
    BY <1>1, <1>2, <1>5, <1>6, <1>9, SMTT(30) DEF Scan!TypeOK
  <2>2. QED
    BY <1>1, <1>2, <1>4, <1>6, <1>7, <2>1, LoopGoesOn
<1>10. CASE ~(Scan!Insertable(f) /\ instances[f] = None)
  <2>1. instances' \in [Scan!Files -> Scan!RowStates \cup {None}] /\ instances' = instances
    BY <1>1, <1>2, <1>10 DEF Scan!TypeOK
  <2>2. QED
    BY <1>1, <1>2, <1>4, <1>8, <1>10, <2>1, LoopGoesOn
<1>11. QED
  BY <1>9, <1>10

LEMMA markMissingKeeps == ASSUME Scan!IInv, NEW s \in Scans, Scan!markMissing(s) PROVE Scan!IInv'
<1>1. scan[s] \in Scan!ScanStates /\ Scan!TypeOK /\ ScanHolds(s) /\ Scan!At(s, "write") /\ scan[s].todo = {}
  BY ScanByScan DEF Scan!IInv, Scan!TypeOK, Scan!markMissing
<1>2. PICK r : r = [scan[s] EXCEPT !.at = "queue"]
  OBVIOUS
<1>3. r.at = "queue" /\ r.prior = scan[s].prior /\ r.found = scan[s].found
      /\ r.gone = scan[s].gone /\ r.hidden = scan[s].hidden /\ r.calm = scan[s].calm /\ r.complete = scan[s].complete
  BY <1>1, <1>2 DEF Scan!ScanStates
<1>4. r \in Scan!ScanStates
  BY <1>1, <1>2 DEF Scan!ScanStates, Scan!Statuses
<1>5. scan' = [scan EXCEPT ![s] = r]
  BY <1>1, <1>2 DEF Scan!markMissing, Scan!TypeOK
<1>6. scan'[s] = r /\ Scan!Running(s) /\ UNCHANGED <<kind, mode, disk, changes, tasks>>
  BY <1>1, <1>5 DEF Scan!markMissing, Scan!TypeOK, Scan!Running, Scan!Ended, Scan!At
<1>7. Scan!Listed(s)' = Scan!Listed(s) /\ Scan!Calm(s)' = Scan!Calm(s) /\ Scan!Covered(s)' = Scan!Covered(s)
      /\ ~Scan!At(s, "write")' /\ Scan!Writing(s) /\ Scan!Passed(s) = Scan!Listed(s) /\ Scan!Passed(s)' = Scan!Listed(s)
      /\ Scan!MayMark(s)' = Scan!MayMark(s) /\ Scan!Listed(s) \subseteq Scan!Files
  <2>1. Scan!Listed(s)' = Scan!Listed(s) /\ Scan!Listed(s) \subseteq Scan!Files /\ ~Scan!At(s, "write")' /\ Scan!Writing(s)
    BY <1>1, <1>3, <1>6 DEF Scan!Listed, Scan!At, Scan!Writing
  <2>2. Scan!Calm(s)' = Scan!Calm(s) /\ Scan!Covered(s)' = Scan!Covered(s)
    BY <1>1, <1>3, <1>6 DEF Scan!Calm, Scan!Covered, Scan!Running, Scan!At, Scan!Ended
  <2>3. Scan!Passed(s) = Scan!Listed(s) /\ Scan!Passed(s)' = Scan!Listed(s)
    BY <1>1, <2>1 DEF Scan!Passed
  <2>4. Scan!MayMark(s)' = Scan!MayMark(s)
    BY <1>3, <1>6, <2>1 DEF Scan!MayMark
  <2>5. QED
    BY <2>1, <2>2, <2>3, <2>4
<1>8. ASSUME NEW f \in Scan!Files
      PROVE  /\ instances'[f] \in Scan!RowStates \cup {None}
             /\ instances'[f] = None <=> instances[f] = None
             /\ Scan!MayMark(s) /\ f \in Scan!Unseen(s) => instances'[f].missing
             /\ ~(Scan!MayMark(s) /\ f \in Scan!Unseen(s)) => instances'[f] = instances[f]
  <2>1. instances'[f] = IF Scan!MayMark(s) /\ f \in Scan!Unseen(s) THEN [instances[f] EXCEPT !.missing = TRUE] ELSE instances[f]
    BY DEF Scan!markMissing
  <2>2. f \in Scan!Unseen(s) => instances[f] # None
    BY <1>1, <1>7 DEF ScanHolds, Scan!Unseen
  <2>3. instances[f] \in Scan!RowStates \cup {None}
    BY <1>1 DEF Scan!TypeOK
  <2>4. PICK g : g = [instances[f] EXCEPT !.missing = TRUE]
    OBVIOUS
  <2>5. instances[f] \in Scan!RowStates => g \in Scan!RowStates /\ g.missing
    BY <2>4 DEF Scan!RowStates
  <2>6. instances[f] \in Scan!RowStates => g # None
    BY <2>5, StorageAssumption
  <2>7. QED
    BY <2>1, <2>2, <2>3, <2>4, <2>5, <2>6
<1>9. instances' \in [Scan!Files -> Scan!RowStates \cup {None}]
  BY <1>8 DEF Scan!markMissing
<1>10. \A f \in Scan!Files : entry'[f] = IF f \in Scan!Made(s) THEN "song" ELSE entry[f]
  BY DEF Scan!markMissing
<1>11. entry' \in [Scan!Files -> {None, "file", "song"}]
  BY <1>1 DEF Scan!markMissing, Scan!TypeOK
<1>12. \A f \in Scan!Made(s) : f \in Scan!Files /\ kind = "r2" /\ mode = "library" /\ entry[f] = "file" /\ instances[f] # None
  <2> SUFFICES ASSUME NEW f \in Scan!Made(s)
      PROVE f \in Scan!Files /\ kind = "r2" /\ mode = "library" /\ entry[f] = "file" /\ instances[f] # None
    OBVIOUS
  <2>1. f \in Scan!Listed(s) /\ f \in Scan!Files /\ mode = "library" /\ scan[s].prior[f] = None /\ entry[f] = "file"
    BY <1>7 DEF Scan!Made
  <2>2. kind = "r2"
    BY <2>1, StorageAssumption DEF Scan!IInv, Scan!SongsHaveRows
  <2>3. Scan!Insertable(f)
    BY <2>1 DEF Scan!Insertable
  <2>4. instances[f] # None
    BY <1>1, <1>7, <2>1, <2>3 DEF ScanHolds
  <2>5. QED
    BY <2>1, <2>2, <2>4
<1>13. \A f \in Scan!Files : /\ instances[f] # None => instances'[f] # None
                             /\ entry'[f] = entry[f] \/ (entry'[f] = "song" /\ kind = "r2" /\ instances'[f] # None)
  BY <1>8, <1>10, <1>12
<1>14. \A f \in Scan!Files : /\ Scan!Insertable(f)' => Scan!Insertable(f)
                             /\ Scan!Owed(f)' => Scan!Owed(f)
  BY <1>6, <1>10, <1>12, StorageAssumption DEF Scan!Insertable, Scan!Owed
<1>15. \A o \in Scans : Scan!Running(o)' => Scan!Running(o)
  BY <1>5, <1>6, <1>1 DEF Scan!Running, Scan!TypeOK
<1>16. \A f \in Scan!Files : disk'[f] = 0 => f \in scan'[s].gone
  BY <1>1, <1>3, <1>6 DEF ScanHolds
<1>17. \A f \in Scan!Covered(s)' : scan'[s].found[f] = 0 => f \in scan'[s].gone \cup scan'[s].hidden
  BY <1>1, <1>3, <1>6, <1>7 DEF ScanHolds
<1>18. Scan!Calm(s)' => /\ \A o \in Scans : Scan!Running(o)' => o = s
                        /\ \A f \in Scan!Covered(s)' : scan'[s].found[f] = disk'[f]
  BY <1>1, <1>3, <1>6, <1>7, <1>15 DEF ScanHolds
<1>19. \A f \in Scan!Files : scan'[s].prior[f] # None \/ (f \in Scan!Passed(s)' /\ Scan!Insertable(f)') => instances'[f] # None
  BY <1>1, <1>3, <1>6, <1>7, <1>13, <1>14 DEF ScanHolds
<1>20. ASSUME Scan!Calm(s)', NEW f \in Scan!Passed(s)', scan'[s].prior[f] # None \/ Scan!Owed(f)' PROVE Scan!Fresh(s, f)'
  <2>1. f \in Scan!Files /\ f \in Scan!Passed(s) /\ (scan[s].prior[f] # None \/ Scan!Owed(f)) /\ Scan!Calm(s)
    BY <1>3, <1>6, <1>7, <1>14, <1>20
  <2>2. Scan!Fresh(s, f)
    BY <1>1, <1>7, <2>1 DEF ScanHolds
  <2>3. instances'[f] = instances[f]
    BY <1>7, <1>8, <2>1 DEF Scan!Unseen
  <2>4. QED
    BY <1>3, <1>6, <2>2, <2>3 DEF Scan!Fresh
<1>21. ASSUME Scan!Calm(s)', Scan!MayMark(s)', NEW f \in Scan!Files \ Scan!Listed(s)', instances'[f] # None
       PROVE  instances'[f].missing
  <2>1. f \in Scan!Files /\ f \notin Scan!Listed(s) /\ Scan!Calm(s) /\ Scan!MayMark(s) /\ instances[f] # None
    BY <1>7, <1>8, <1>21
  <2>2. Scan!AsRead(s, f)
    BY <1>1, <1>7, <2>1 DEF ScanHolds
  <2>3. f \in Scan!Unseen(s) \/ instances[f].missing
    BY <2>1, <2>2 DEF Scan!AsRead, Scan!Unseen
  <2>4. QED
    BY <1>8, <2>1, <2>3
<1>22. ScanHolds(s)'
  BY <1>7, <1>16, <1>17, <1>18, <1>19, <1>20, <1>21 DEF ScanHolds
<1>23. QED
  BY <1>4, <1>5, <1>6, <1>9, <1>11, <1>13, <1>22, ScanWrites

LEMMA dispatchKeeps == ASSUME Scan!IInv, NEW s \in Scans, Scan!dispatchWorkBatch(s) PROVE Scan!IInv'
<1>1. scan[s] \in Scan!ScanStates /\ Scan!TypeOK /\ ScanHolds(s) /\ scan[s].at = "queue"
  BY ScanByScan DEF Scan!IInv, Scan!TypeOK, Scan!dispatchWorkBatch, Scan!At
<1>2. PICK r : r = [scan[s] EXCEPT !.at = "end"]
  OBVIOUS
<1>3. r.at = "end" /\ r.prior = scan[s].prior /\ r.found = scan[s].found
      /\ r.gone = scan[s].gone /\ r.hidden = scan[s].hidden /\ r.calm = scan[s].calm /\ r.complete = scan[s].complete
  BY <1>1, <1>2 DEF Scan!ScanStates
<1>4. r \in Scan!ScanStates
  BY <1>1, <1>2 DEF Scan!ScanStates, Scan!Statuses
<1>5. scan' = [scan EXCEPT ![s] = r]
  BY <1>1, <1>2 DEF Scan!dispatchWorkBatch, Scan!TypeOK
<1>6. scan'[s] = r /\ Scan!Running(s) /\ UNCHANGED <<kind, mode, disk, changes, entry, instances>>
  BY <1>1, <1>5 DEF Scan!dispatchWorkBatch, Scan!TypeOK, Scan!Running, Scan!Ended, Scan!At,
     Scan!Rest
<1>7. tasks' \in [Scan!Files -> Scan!TaskStates \cup {None}]
  <2>1. [status |-> "queued", read |-> 0] \in Scan!TaskStates
    BY StorageAssumption DEF Scan!TaskStates, Scan!Generations
  <2>2. QED
    BY <1>1, <2>1 DEF Scan!dispatchWorkBatch, Scan!TypeOK
<1>8. Scan!Listed(s)' = Scan!Listed(s) /\ Scan!MayMark(s)' = Scan!MayMark(s)
  BY <1>3, <1>6 DEF Scan!Listed, Scan!MayMark
<1>9. Scan!Passed(s)' = Scan!Passed(s) /\ Scan!Calm(s)' = Scan!Calm(s) /\ Scan!Covered(s)' = Scan!Covered(s)
      /\ ~Scan!At(s, "write") /\ ~Scan!At(s, "write")' /\ Scan!Writing(s)
  BY <1>1, <1>3, <1>6, <1>8 DEF Scan!Passed, Scan!Calm, Scan!Covered, Scan!Running, Scan!At,
     Scan!Ended, Scan!Writing
<1>10. \A f \in Scan!Files : /\ Scan!Insertable(f)' = Scan!Insertable(f) /\ Scan!Owed(f)' = Scan!Owed(f)
                             /\ Scan!Fresh(s, f)' = Scan!Fresh(s, f)
  BY <1>3, <1>6 DEF Scan!Insertable, Scan!Owed, Scan!Fresh
<1>11. \A o \in Scans : Scan!Running(o)' => Scan!Running(o)
  BY <1>5, <1>6, <1>1 DEF Scan!Running, Scan!TypeOK
<1>12. Scan!Passed(s) \subseteq Scan!Files
  BY DEF Scan!Passed, Scan!Listed
<1>13. \A f \in Scan!Files : disk'[f] = 0 => f \in scan'[s].gone
  BY <1>1, <1>3, <1>6 DEF ScanHolds
<1>14. \A f \in Scan!Covered(s)' : scan'[s].found[f] = 0 => f \in scan'[s].gone \cup scan'[s].hidden
  BY <1>1, <1>3, <1>6, <1>9 DEF ScanHolds
<1>15. Scan!Calm(s)' => /\ \A o \in Scans : Scan!Running(o)' => o = s
                        /\ \A f \in Scan!Covered(s)' : scan'[s].found[f] = disk'[f]
  BY <1>1, <1>3, <1>6, <1>9, <1>11 DEF ScanHolds
<1>16. \A f \in Scan!Files : scan'[s].prior[f] # None \/ (f \in Scan!Passed(s)' /\ Scan!Insertable(f)') => instances'[f] # None
  BY <1>1, <1>3, <1>6, <1>9, <1>10 DEF ScanHolds
<1>17. Scan!Calm(s)' => \A f \in Scan!Passed(s)' : scan'[s].prior[f] # None \/ Scan!Owed(f)' => Scan!Fresh(s, f)'
  BY <1>1, <1>3, <1>6, <1>9, <1>10, <1>12 DEF ScanHolds
<1>18. Scan!Calm(s)' /\ Scan!MayMark(s)' => \A f \in Scan!Files \ Scan!Listed(s)' : instances'[f] # None => instances'[f].missing
  BY <1>1, <1>6, <1>8, <1>9 DEF ScanHolds
<1>19. ScanHolds(s)'
  BY <1>9, <1>13, <1>14, <1>15, <1>16, <1>17, <1>18 DEF ScanHolds
<1>20. QED
  BY <1>4, <1>5, <1>6, <1>7, <1>19, ScanTurns

LEMMA BeginKeeps ==
    ASSUME Scan!IInv, NEW s \in Scans, NEW force \in BOOLEAN, NEW pool \in BOOLEAN, Scan!Begin(s, force, pool)
    PROVE  Scan!IInv'
<1>1. Scan!TypeOK /\ ~Scan!Running(s)
  BY DEF Scan!IInv, Scan!Begin, Scan!At, Scan!Running, Scan!Ended
<1>2. PICK alone \in BOOLEAN : alone = \A o \in Scans : ~Scan!Running(o)
  OBVIOUS
<1>3. PICK r : r = [Scan!Idle EXCEPT !.at = "list", !.force = force, !.pool = pool, !.calm = alone,
                                     !.gone = {f \in Scan!Files : disk[f] = 0}]
  OBVIOUS
<1>4. r \in Scan!ScanStates /\ r.at = "list" /\ r.calm = alone /\ r.gone = {f \in Scan!Files : disk[f] = 0} /\ r.complete
  BY <1>3, IdleScan, ZenonT(30) DEF Scan!ScanStates, Scan!Statuses, Scan!Idle
<1>5. scan' = [o \in Scans |-> IF o = s THEN r ELSE IF Scan!Running(o) THEN [scan[o] EXCEPT !.calm = FALSE] ELSE scan[o]]
      /\ UNCHANGED <<kind, mode, disk, changes, entry, instances, tasks>>
  BY <1>2, <1>3 DEF Scan!Begin, Scan!Rest
<1>6. \A o \in Scans : scan[o] \in Scan!ScanStates
  BY <1>1 DEF Scan!TypeOK
<1>7. ASSUME NEW o \in Scans PROVE [scan[o] EXCEPT !.calm = FALSE] \in Scan!ScanStates
  BY <1>6 DEF Scan!ScanStates
<1>8. scan' \in [Scans -> Scan!ScanStates]
  BY <1>4, <1>5, <1>6, <1>7
<1>9. ScanFacts'
  <2>1. Scan!TypeOK'
    BY <1>1, <1>5, <1>8, ScanSorts DEF Scan!TypeOK
  <2>2. Scan!SongsHaveRows'
    BY <1>5 DEF Scan!IInv, Scan!SongsHaveRows
  <2>3. QED
    BY <2>1, <2>2 DEF ScanFacts
<1>10. scan'[s] = r
  BY <1>5
<1>11. ScanHolds(s)'
  <2>1. Scan!Covered(s)' = {} /\ ~Scan!Writing(s)' /\ ~Scan!At(s, "write")'
    BY <1>4, <1>10 DEF Scan!Covered, Scan!Writing, Scan!At
  <2>2. \A f \in Scan!Files : disk'[f] = 0 => f \in scan'[s].gone
    BY <1>4, <1>5, <1>10
  <2>3. Scan!Calm(s)' => \A o \in Scans : Scan!Running(o)' => o = s
    <3> SUFFICES ASSUME alone, NEW o \in Scans, o # s PROVE ~Scan!Running(o)'
      BY <1>4, <1>10 DEF Scan!Calm
    <3>1. ~Scan!Running(o) /\ scan'[o] = scan[o]
      BY <1>2, <1>5
    <3>2. QED
      BY <3>1 DEF Scan!Running
  <2>4. QED
    BY <2>1, <2>2, <2>3 DEF ScanHolds
<1>12. ASSUME NEW o \in Scans, o # s PROVE ScanHolds(o)'
  <2>1. ScanHolds(o)
    BY ScanByScan
  <2>2. CASE Scan!Running(o)
    <3>1. scan'[o] = [scan[o] EXCEPT !.calm = FALSE]
      BY <1>5, <1>12, <2>2
    <3>2. ~scan'[o].calm /\ scan'[o].at = scan[o].at /\ scan'[o].found = scan[o].found /\ scan'[o].complete = scan[o].complete
          /\ scan'[o].prior = scan[o].prior /\ scan'[o].todo = scan[o].todo /\ scan'[o].hidden = scan[o].hidden
          /\ scan'[o].gone = scan[o].gone
      BY <3>1, <1>6 DEF Scan!ScanStates
    <3>3. \A f \in Scan!Files : Scan!Running(o) /\ disk'[f] = 0 => f \in scan'[o].gone
      BY <3>2, <2>1, <1>5 DEF ScanHolds
    <3>4. \A f \in Scan!Files : (Scan!Insertable(f)' => Scan!Insertable(f)) /\ (instances[f] # None => instances'[f] # None)
      BY <1>5 DEF Scan!Insertable
    <3>5. QED
      BY <2>1, <3>2, <3>3, <3>4, DisturbedScan
  <2>3. CASE ~Scan!Running(o)
    <3>1. scan'[o] = scan[o]
      BY <1>5, <1>12, <2>3
    <3>2. ~Scan!Running(o)' /\ ~Scan!Writing(o)' /\ ~Scan!At(o, "write")' /\ Scan!Covered(o)' = {} /\ ~Scan!Calm(o)'
      BY <3>1, <2>3 DEF Scan!Running, Scan!Writing, Scan!At, Scan!Covered, Scan!Calm,
         Scan!Ended
    <3>3. QED
      BY <3>2 DEF ScanHolds
  <2>4. QED
    BY <2>2, <2>3
<1>13. QED
  BY <1>9, <1>11, <1>12, ScanByScanThen

\* The storage changes under the scans that run.
LEMMA WitnessMeans ==
    ASSUME Scan!IInv, NEW f \in Scan!Files, NEW gone \in BOOLEAN, Scan!Witness(f, gone), NEW s \in Scans
    PROVE  /\ scan'[s] \in Scan!ScanStates /\ (Scan!Running(s) => ~scan'[s].calm)
           /\ scan'[s].at = scan[s].at /\ scan'[s].found = scan[s].found /\ scan'[s].complete = scan[s].complete
           /\ scan'[s].prior = scan[s].prior /\ scan'[s].todo = scan[s].todo /\ scan'[s].hidden = scan[s].hidden
           /\ scan[s].gone \subseteq scan'[s].gone
           /\ Scan!Running(s) /\ gone => f \in scan'[s].gone
<1>1. scan[s] \in Scan!ScanStates
  BY DEF Scan!IInv, Scan!TypeOK
<1>2. scan'[s] = IF Scan!Running(s) THEN [scan[s] EXCEPT !.calm = FALSE, !.gone = IF gone THEN scan[s].gone \cup {f} ELSE scan[s].gone]
                 ELSE scan[s]
  BY <1>1 DEF Scan!Witness, Scan!ScanStates
<1>3. CASE Scan!Running(s) /\ gone
  <2>1. PICK r : r = [scan[s] EXCEPT !.calm = FALSE, !.gone = scan[s].gone \cup {f}]
    OBVIOUS
  <2>2. r \in Scan!ScanStates /\ ~r.calm /\ r.at = scan[s].at /\ r.found = scan[s].found /\ r.complete = scan[s].complete
        /\ r.prior = scan[s].prior /\ r.todo = scan[s].todo /\ r.hidden = scan[s].hidden /\ r.gone = scan[s].gone \cup {f}
    BY <1>1, <2>1 DEF Scan!ScanStates
  <2>3. scan'[s] = r
    BY <1>2, <1>3, <2>1
  <2>4. QED
    BY <2>2, <2>3
<1>4. CASE Scan!Running(s) /\ ~gone
  <2>1. PICK r : r = [scan[s] EXCEPT !.calm = FALSE, !.gone = scan[s].gone]
    OBVIOUS
  <2>2. r \in Scan!ScanStates /\ ~r.calm /\ r.at = scan[s].at /\ r.found = scan[s].found /\ r.complete = scan[s].complete
        /\ r.prior = scan[s].prior /\ r.todo = scan[s].todo /\ r.hidden = scan[s].hidden /\ r.gone = scan[s].gone
    BY <1>1, <2>1 DEF Scan!ScanStates
  <2>3. scan'[s] = r
    BY <1>2, <1>4, <2>1
  <2>4. QED
    BY <1>4, <2>2, <2>3
<1>5. CASE ~Scan!Running(s)
  BY <1>1, <1>2, <1>5
<1>6. QED
  BY <1>3, <1>4, <1>5

LEMMA StorageChanges ==
    ASSUME Scan!IInv, NEW f \in Scan!Files, NEW gone \in BOOLEAN, Scan!Witness(f, gone),
           UNCHANGED <<kind, mode, tasks>>, changes < MaxChanges, changes' = changes + 1,
           disk' \in [Scan!Files -> Scan!Generations], \A g \in Scan!Files : disk'[g] = 0 => disk[g] = 0 \/ (gone /\ g = f),
           instances' \in [Scan!Files -> Scan!RowStates \cup {None}], entry' \in [Scan!Files -> {None, "file", "song"}],
           \A g \in Scan!Files : /\ instances[g] # None => instances'[g] # None
                                 /\ entry'[g] = entry[g] \/ (entry'[g] = "song" /\ kind = "r2" /\ instances'[g] # None)
    PROVE  Scan!IInv'
<1>1. ScanFacts'
  <2>1. changes' \in 0 .. MaxChanges
    <3>1. MaxChanges \in Nat
      BY StorageAssumption
    <3>2. QED
      BY <3>1 DEF Scan!IInv, Scan!TypeOK
  <2>2. scan' \in [Scans -> Scan!ScanStates]
    BY WitnessMeans, ZenonT(30) DEF Scan!Witness
  <2>3. Scan!TypeOK'
    BY <2>1, <2>2, ScanSorts DEF Scan!IInv, Scan!TypeOK
  <2>4. Scan!SongsHaveRows'
    BY ScanSorts DEF Scan!IInv, Scan!SongsHaveRows
  <2>5. QED
    BY <2>3, <2>4 DEF ScanFacts
<1>2. ASSUME NEW s \in Scans PROVE ScanHolds(s)'
  <2>1. ScanHolds(s)
    BY ScanByScan
  <2>2. /\ Scan!Running(s) => ~scan'[s].calm
        /\ scan'[s].at = scan[s].at /\ scan'[s].found = scan[s].found /\ scan'[s].complete = scan[s].complete
        /\ scan'[s].prior = scan[s].prior /\ scan'[s].todo = scan[s].todo /\ scan'[s].hidden = scan[s].hidden
        /\ scan[s].gone \subseteq scan'[s].gone /\ (Scan!Running(s) /\ gone => f \in scan'[s].gone)
    BY WitnessMeans
  <2>3. \A g \in Scan!Files : Scan!Running(s) /\ disk'[g] = 0 => g \in scan'[s].gone
    BY <2>1, <2>2 DEF ScanHolds
  <2>4. \A g \in Scan!Files : Scan!Insertable(g)' => Scan!Insertable(g)
    BY DEF Scan!Insertable
  <2>5. QED
    BY <2>1, <2>2, <2>3, <2>4, DisturbedScan
<1>3. QED
  BY <1>1, <1>2, ScanByScanThen

LEMMA StorageKeeps ==
    ASSUME Scan!IInv, NEW f \in Scan!Files, Scan!FileChanges(f) \/ Scan!FileUploads(f) \/ Scan!FileGoes(f)
    PROVE  Scan!IInv'
<1>1. Scan!TypeOK /\ changes < MaxChanges /\ changes' = changes + 1 /\ changes + 2 \in Scan!Generations /\ changes + 2 # 0
      /\ 0 \in Scan!Generations
  <2>1. MaxChanges \in Nat
    BY StorageAssumption
  <2>2. Scan!TypeOK /\ changes < MaxChanges /\ changes' = changes + 1
    BY DEF Scan!IInv, Scan!FileChanges, Scan!FileUploads, Scan!FileGoes
  <2>3. changes \in 0 .. MaxChanges
    BY <2>2 DEF Scan!TypeOK
  <2>4. changes + 2 \in Scan!Generations /\ changes + 2 # 0 /\ 0 \in Scan!Generations
    BY <2>1, <2>2, <2>3 DEF Scan!Generations
  <2>5. QED
    BY <2>2, <2>4
<1>2. CASE Scan!FileChanges(f)
  <2>1. disk' \in [Scan!Files -> Scan!Generations] /\ \A g \in Scan!Files : disk'[g] = 0 => disk[g] = 0
    BY <1>1, <1>2 DEF Scan!FileChanges, Scan!TypeOK
  <2>2. Scan!Witness(f, FALSE) /\ UNCHANGED <<kind, mode, tasks, entry, instances>>
    BY <1>2 DEF Scan!FileChanges
  <2>3. entry \in [Scan!Files -> {None, "file", "song"}] /\ instances \in [Scan!Files -> Scan!RowStates \cup {None}]
    BY <1>1 DEF Scan!TypeOK
  <2>4. QED
    BY <1>1, <2>1, <2>2, <2>3, StorageChanges
<1>3. CASE Scan!FileGoes(f)
  <2>1. disk' \in [Scan!Files -> Scan!Generations] /\ \A g \in Scan!Files : disk'[g] = 0 => disk[g] = 0 \/ g = f
    BY <1>1, <1>3 DEF Scan!FileGoes, Scan!TypeOK
  <2>2. Scan!Witness(f, TRUE) /\ UNCHANGED <<kind, mode, tasks, entry, instances>>
    BY <1>3 DEF Scan!FileGoes
  <2>3. entry \in [Scan!Files -> {None, "file", "song"}] /\ instances \in [Scan!Files -> Scan!RowStates \cup {None}]
    BY <1>1 DEF Scan!TypeOK
  <2>4. QED
    BY <1>1, <2>1, <2>2, <2>3, StorageChanges
<1>4. CASE Scan!FileUploads(f)
  <2>1. disk' \in [Scan!Files -> Scan!Generations] /\ \A g \in Scan!Files : disk'[g] = 0 => disk[g] = 0
    BY <1>1, <1>4 DEF Scan!FileUploads, Scan!TypeOK
  <2>2. Scan!Witness(f, FALSE) /\ UNCHANGED <<kind, mode, tasks>> /\ kind = "r2"
        /\ instances' = [instances EXCEPT ![f] = Scan!InitRow(None)] /\ entry' = [entry EXCEPT ![f] = "song"]
    BY <1>4 DEF Scan!FileUploads
  <2>3. PICK r : r = Scan!InitRow(None)
    OBVIOUS
  <2>4. r \in Scan!RowStates
    BY <2>3 DEF Scan!InitRow, Scan!RowStates
  <2>5. r # None
    BY <2>4, StorageAssumption
  <2>6. entry' \in [Scan!Files -> {None, "file", "song"}] /\ instances' \in [Scan!Files -> Scan!RowStates \cup {None}]
        /\ instances'[f] = r /\ entry'[f] = "song"
        /\ \A g \in Scan!Files \ {f} : instances'[g] = instances[g] /\ entry'[g] = entry[g]
    BY <1>1, <2>2, <2>3, <2>4 DEF Scan!TypeOK
  <2>7. \A g \in Scan!Files : /\ instances[g] # None => instances'[g] # None
                              /\ entry'[g] = entry[g] \/ (entry'[g] = "song" /\ kind = "r2" /\ instances'[g] # None)
    BY <2>2, <2>5, <2>6
  <2>8. QED
    BY <1>1, <2>1, <2>2, <2>6, <2>7, StorageChanges
<1>5. QED
  BY <1>2, <1>3, <1>4

\* The browsers write tags and nothing else into a row.
LEMMA BrowsersKeep ==
    ASSUME Scan!IInv, NEW f \in Scan!Files, Scan!BrowserReads(f) \/ Scan!BrowserSubmits(f) \/ Scan!Backfills(f)
    PROVE  Scan!IInv'
<1>1. Scan!TypeOK /\ tasks[f] \in Scan!TaskStates /\ tasks[f].read \in Scan!Generations /\ 0 \in Scan!Generations
  <2>1. Scan!TypeOK /\ tasks[f] # None
    BY DEF Scan!IInv, Scan!BrowserReads, Scan!BrowserSubmits, Scan!Backfills
  <2>2. tasks[f] \in Scan!TaskStates
    BY <2>1 DEF Scan!TypeOK
  <2>3. tasks[f].read \in Scan!Generations /\ 0 \in Scan!Generations
    BY <2>2, StorageAssumption DEF Scan!TaskStates, Scan!Generations
  <2>4. QED
    BY <2>1, <2>2, <2>3
<1>2. UNCHANGED <<kind, mode, disk, changes, entry, scan>>
  BY DEF Scan!BrowserReads, Scan!BrowserSubmits, Scan!Backfills, Scan!Rest
<1>3. tasks' \in [Scan!Files -> Scan!TaskStates \cup {None}]
  <2>1. CASE Scan!BrowserReads(f)
    <3>1. PICK t \in Scan!TaskStates : tasks' = [tasks EXCEPT ![f] = t]
      <4>1. disk[f] \in Scan!Generations
        BY <1>1 DEF Scan!TypeOK
      <4>2. [status |-> "claimed", read |-> disk[f]] \in Scan!TaskStates /\ [status |-> "failed", read |-> 0] \in Scan!TaskStates
        BY <1>1, <4>1 DEF Scan!TaskStates
      <4>3. QED
        BY <2>1, <4>2 DEF Scan!BrowserReads
    <3>2. QED
      BY <1>1, <3>1 DEF Scan!TypeOK
  <2>2. CASE Scan!BrowserSubmits(f)
    <3>1. PICK t : t = [tasks[f] EXCEPT !.status = "completed"]
      OBVIOUS
    <3>2. t \in Scan!TaskStates
      BY <1>1, <3>1 DEF Scan!TaskStates
    <3>3. tasks' = [tasks EXCEPT ![f] = t]
      BY <1>1, <2>2, <3>1 DEF Scan!BrowserSubmits, Scan!TypeOK
    <3>4. QED
      BY <1>1, <3>2, <3>3 DEF Scan!TypeOK
  <2>3. CASE Scan!Backfills(f)
    BY <1>1, <2>3 DEF Scan!Backfills, Scan!TypeOK
  <2>4. QED
    BY <2>1, <2>2, <2>3
<1>4. /\ instances' \in [Scan!Files -> Scan!RowStates \cup {None}]
      /\ \A g \in Scan!Files : /\ instances'[g] = None <=> instances[g] = None
                               /\ instances[g] # None => /\ instances'[g].print = instances[g].print
                                                         /\ instances'[g].missing = instances[g].missing
  <2>1. CASE Scan!BrowserReads(f)
    BY <1>1, <2>1 DEF Scan!BrowserReads, Scan!TypeOK
  <2>2. CASE Scan!BrowserSubmits(f) \/ Scan!Backfills(f)
    <3>1. PICK r : r = [instances[f] EXCEPT !.scanned = TRUE, !.tags = tasks[f].read]
      OBVIOUS
    <3>2. instances[f] \in Scan!RowStates
      BY <1>1, <2>2 DEF Scan!TypeOK, Scan!BrowserSubmits, Scan!Backfills
    <3>3. r \in Scan!RowStates /\ r.print = instances[f].print /\ r.missing = instances[f].missing
      BY <1>1, <3>1, <3>2 DEF Scan!RowStates
    <3>4. r # None /\ instances[f] # None
      BY <3>2, <3>3, StorageAssumption
    <3>5. instances' = [instances EXCEPT ![f] = r]
      BY <2>2, <3>1 DEF Scan!BrowserSubmits, Scan!Backfills
    <3>6. instances' \in [Scan!Files -> Scan!RowStates \cup {None}] /\ instances'[f] = r
          /\ \A g \in Scan!Files \ {f} : instances'[g] = instances[g]
      BY <1>1, <3>3, <3>5 DEF Scan!TypeOK
    <3>7. QED
      BY <3>3, <3>4, <3>6
  <2>3. QED
    BY <2>1, <2>2
<1>5. ScanFacts'
  <2>1. Scan!TypeOK'
    BY <1>1, <1>2, <1>3, <1>4, ScanSorts DEF Scan!TypeOK
  <2>2. Scan!SongsHaveRows'
    BY <1>2, <1>4, ScanSorts DEF Scan!IInv, Scan!SongsHaveRows
  <2>3. QED
    BY <2>1, <2>2 DEF ScanFacts
<1>6. ASSUME NEW s \in Scans PROVE ScanHolds(s)'
  <2>1. ScanHolds(s) /\ scan'[s] = scan[s] /\ \A o \in Scans : Scan!Running(o)' => Scan!Running(o)
    BY <1>2, ScanByScan DEF Scan!Running
  <2>2. UNCHANGED <<kind, mode, disk, entry>>
    BY <1>2
  <2>3. QED
    BY <2>1, <2>2, <1>4, UndisturbedScan
<1>7. QED
  BY <1>5, <1>6, ScanByScanThen

LEMMA ScanStart == Scan!Init => Scan!IInv
<1> SUFFICES ASSUME Scan!Init PROVE Scan!IInv
  OBVIOUS
<1>1. 0 \in Scan!Generations /\ 1 \in Scan!Generations
  BY StorageAssumption DEF Scan!Generations
<1>2. \A away \in BOOLEAN : /\ [Scan!InitRow(None) EXCEPT !.missing = away] \in Scan!RowStates
                            /\ [Scan!InitRow(1) EXCEPT !.missing = away] \in Scan!RowStates
  BY <1>1 DEF Scan!InitRow, Scan!RowStates
<1>3. \A away \in BOOLEAN : [Scan!InitRow(None) EXCEPT !.missing = away] # None
  BY <1>2, StorageAssumption
<1>a. PICK known \in SUBSET Scan!Files : \E gone \in SUBSET known :
        instances = [f \in Scan!Files |->
                       IF kind = "r2" THEN IF entry[f] = "song" THEN [Scan!InitRow(None) EXCEPT !.missing = f \in gone] ELSE None
                       ELSE IF f \in known THEN [Scan!InitRow(1) EXCEPT !.missing = f \in gone] ELSE None]
  BY DEF Scan!Init
<1>4. PICK away \in SUBSET known :
        instances = [f \in Scan!Files |->
                       IF kind = "r2" THEN IF entry[f] = "song" THEN [Scan!InitRow(None) EXCEPT !.missing = f \in away] ELSE None
                       ELSE IF f \in known THEN [Scan!InitRow(1) EXCEPT !.missing = f \in away] ELSE None]
  BY <1>a
<1>5. ASSUME NEW f \in Scan!Files
      PROVE  instances[f] \in Scan!RowStates \cup {None} /\ (kind = "r2" /\ entry[f] = "song" => instances[f] # None)
  <2>0. (f \in away) \in BOOLEAN
    OBVIOUS
  <2>1. PICK gone \in BOOLEAN : gone = (f \in away)
    BY <2>0
  <2>2. instances[f] = IF kind = "r2" THEN IF entry[f] = "song" THEN [Scan!InitRow(None) EXCEPT !.missing = gone] ELSE None
                       ELSE IF f \in known THEN [Scan!InitRow(1) EXCEPT !.missing = gone] ELSE None
    BY <1>4, <2>1
  <2>3. QED
    BY <1>2, <1>3, <2>2
<1>6. instances \in [Scan!Files -> Scan!RowStates \cup {None}]
  BY <1>4, <1>5
<1>7. scan = [s \in Scans |-> Scan!Idle] /\ scan \in [Scans -> Scan!ScanStates]
  BY IdleScan DEF Scan!Init
<1>8. ScanFacts
  <2>1. Scan!TypeOK
    BY <1>1, <1>6, <1>7, StorageAssumption DEF Scan!Init, Scan!TypeOK
  <2>2. Scan!SongsHaveRows
    BY <1>5, StorageAssumption DEF Scan!Init, Scan!SongsHaveRows
  <2>3. QED
    BY <2>1, <2>2 DEF ScanFacts
<1>9. ASSUME NEW s \in Scans PROVE ScanHolds(s)
  BY <1>7, RestingScan DEF Scan!Idle, Scan!Running, Scan!Ended
<1>10. QED
  BY <1>8, <1>9, ScanByScan

LEMMA ScanStays == ASSUME Scan!IInv, UNCHANGED scanVars PROVE Scan!IInv'
<1>1. ScanFacts'
  <2>1. Scan!TypeOK'
    BY ScanSorts DEF Scan!IInv, Scan!TypeOK, scanVars
  <2>2. Scan!SongsHaveRows'
    BY ScanSorts DEF Scan!IInv, Scan!SongsHaveRows, scanVars
  <2>3. QED
    BY <2>1, <2>2 DEF ScanFacts
<1>2. ASSUME NEW s \in Scans PROVE ScanHolds(s)'
  <2>1. ScanHolds(s) /\ scan'[s] = scan[s] /\ \A o \in Scans : Scan!Running(o)' => Scan!Running(o)
    BY ScanByScan DEF Scan!Running, scanVars
  <2>2. UNCHANGED <<kind, mode, disk, entry, instances>>
    BY DEF scanVars
  <2>3. QED
    BY <2>1, <2>2, UndisturbedScan
<1>3. QED
  BY <1>1, <1>2, ScanByScanThen

LEMMA ScanStep == ASSUME Scan!IInv, [Scan!Next]_scanVars PROVE Scan!IInv'
<1>1. ASSUME NEW f \in Scan!Files,
             Scan!FileChanges(f) \/ Scan!FileUploads(f) \/ Scan!FileGoes(f) \/ Scan!BrowserReads(f) \/ Scan!BrowserSubmits(f) \/ Scan!Backfills(f)
      PROVE  Scan!IInv'
  BY <1>1, StorageKeeps, BrowsersKeep
<1>2. ASSUME NEW s \in Scans, Scan!startScanHandler(s) \/ Scan!maybeRunScheduledScan(s) PROVE Scan!IInv'
  BY <1>2, BeginKeeps DEF Scan!startScanHandler, Scan!maybeRunScheduledScan
<1>3. ASSUME NEW s \in Scans, NEW f \in Scan!Files, Scan!FileSkipped(s, f) \/ Scan!FileUpdated(s, f) \/ Scan!FileInserted(s, f)
      PROVE  Scan!IInv'
  BY <1>3, FileSkippedKeeps, FileUpdatedKeeps, FileInsertedKeeps
<1>4. ASSUME NEW s \in Scans, Scan!ScanEnds(s) \/ Scan!ScanDies(s) PROVE Scan!IInv'
  <2>1. PICK at \in Scan!Ended : Scan!Over(s, at)
    BY <1>4 DEF Scan!ScanEnds, Scan!ScanDies, Scan!Ended
  <2>2. Scan!Running(s) /\ UNCHANGED <<kind, mode, disk, changes, instances, entry, tasks>>
    BY <1>4 DEF Scan!ScanEnds, Scan!ScanDies, Scan!Ended, Scan!Running, Scan!At, Scan!Rest
  <2>3. QED
    BY <2>1, <2>2, OverKeeps
<1>5. ASSUME NEW s \in Scans, Scan!ListsDeep(s) \/ Scan!ListsRoot(s) \/ Scan!ListsBelow(s) \/ Scan!ListsPage(s) \/ Scan!ReadsRows(s)
             \/ Scan!markMissing(s) \/ Scan!dispatchWorkBatch(s)
      PROVE  Scan!IInv'
  BY <1>5, ListsKeeps, ReadsRowsKeeps, markMissingKeeps, dispatchKeeps
<1>6. CASE Scan!Next
  BY <1>1, <1>2, <1>3, <1>4, <1>5, <1>6 DEF Scan!Next
<1>7. CASE UNCHANGED scanVars
  BY <1>7, ScanStays
<1>8. QED
  BY <1>6, <1>7

\* A row becomes missing in no other way than by a scan whose listing missed the file.
LEMMA OnlyTheMissingAreHidden == ASSUME Scan!IInv, [Scan!Next]_scanVars PROVE Scan!HidesTheMissing
<1> SUFFICES ASSUME NEW f \in Scan!Files, instances'[f] # None, instances'[f].missing, ~instances[f].missing
             PROVE  \E s \in Scans : Scan!At(s, "write") /\ f \in scan[s].gone \cup scan[s].hidden
  BY DEF Scan!HidesTheMissing
<1>1. Scan!TypeOK /\ instances[f] \in Scan!RowStates \cup {None}
  BY DEF Scan!IInv, Scan!TypeOK
<1>2. CASE \E s \in Scans : Scan!markMissing(s)
  <2>1. PICK s \in Scans : Scan!markMissing(s)
    BY <1>2
  <2>2. Scan!MayMark(s) /\ f \in Scan!Unseen(s) /\ Scan!At(s, "write")
    BY <2>1 DEF Scan!markMissing
  <2>3. ScanHolds(s) /\ scan[s] \in Scan!ScanStates
    BY ScanByScan DEF Scan!IInv, Scan!TypeOK
  <2>4. f \in Scan!Covered(s)
    BY <2>2 DEF Scan!MayMark, Scan!Covered, Scan!At, Scan!Running, Scan!Ended
  <2>5. scan[s].found[f] = 0
    <3>1. scan[s].found[f] \in Nat
      BY <2>3, StorageAssumption DEF Scan!ScanStates, Scan!Generations
    <3>2. QED
      BY <2>2, <3>1 DEF Scan!Unseen, Scan!Listed
  <2>6. f \in scan[s].gone \cup scan[s].hidden
    BY <2>3, <2>4, <2>5 DEF ScanHolds
  <2>7. QED
    BY <2>2, <2>6
<1>3. CASE instances'[f] = instances[f]
  BY <1>3
<1>4. CASE \E s \in Scans : Scan!FileUpdated(s, f) \/ Scan!FileInserted(s, f)
  <2>1. PICK s \in Scans : Scan!FileUpdated(s, f) \/ Scan!FileInserted(s, f)
    BY <1>4
  <2>2. CASE Scan!FileInserted(s, f)
    <3>1. instances'[f] = instances[f] \/ instances'[f] = Scan!InitRow(scan[s].found[f])
      BY <1>1, <2>2 DEF Scan!FileInserted, Scan!TypeOK
    <3>2. QED
      BY <3>1 DEF Scan!InitRow
  <2>3. CASE Scan!FileUpdated(s, f)
    <3>1. scan[s].prior[f] # None /\ Scan!Turn(s, f)
      BY <2>3 DEF Scan!FileUpdated
    <3>2. instances[f] \in Scan!RowStates
      BY <1>1, <3>1, TurnMeans
    <3>3. PICK k : instances' = [instances EXCEPT ![f] = [instances[f] EXCEPT !.print = scan[s].found[f], !.missing = FALSE, !.scanned = k]]
      BY <2>3 DEF Scan!FileUpdated
    <3>4. instances'[f] = [instances[f] EXCEPT !.print = scan[s].found[f], !.missing = FALSE, !.scanned = k]
      BY <1>1, <3>3 DEF Scan!TypeOK
    <3>5. QED
      BY <3>2, <3>4 DEF Scan!RowStates
  <2>4. QED
    BY <2>1, <2>2, <2>3
<1>5. CASE Scan!FileUploads(f)
  BY <1>1, <1>5 DEF Scan!FileUploads, Scan!TypeOK, Scan!InitRow
<1>6. CASE Scan!BrowserSubmits(f) \/ Scan!Backfills(f)
  <2>1. instances[f] \in Scan!RowStates
    BY <1>1, <1>6 DEF Scan!BrowserSubmits, Scan!Backfills
  <2>2. instances' = [instances EXCEPT ![f] = [instances[f] EXCEPT !.scanned = TRUE, !.tags = tasks[f].read]]
    BY <1>6 DEF Scan!BrowserSubmits, Scan!Backfills
  <2>3. instances'[f] = [instances[f] EXCEPT !.scanned = TRUE, !.tags = tasks[f].read]
    BY <1>1, <2>2 DEF Scan!TypeOK
  <2>4. PICK r : r = [instances[f] EXCEPT !.scanned = TRUE, !.tags = tasks[f].read]
    OBVIOUS
  <2>5. r.missing = instances[f].missing
    BY <2>1, <2>4 DEF Scan!RowStates
  <2>6. QED
    BY <2>3, <2>4, <2>5
<1>7. CASE \E g \in Scan!Files \ {f} : \/ Scan!FileUploads(g) \/ Scan!BrowserSubmits(g) \/ Scan!Backfills(g)
                                       \/ \E s \in Scans : Scan!FileUpdated(s, g) \/ Scan!FileInserted(s, g)
  <2>1. PICK g \in Scan!Files \ {f} : \/ Scan!FileUploads(g) \/ Scan!BrowserSubmits(g) \/ Scan!Backfills(g)
                                      \/ \E s \in Scans : Scan!FileUpdated(s, g) \/ Scan!FileInserted(s, g)
    BY <1>7
  <2>2. CASE Scan!FileUploads(g) \/ Scan!BrowserSubmits(g) \/ Scan!Backfills(g)
    BY <1>1, <1>3, <2>2 DEF Scan!FileUploads, Scan!BrowserSubmits, Scan!Backfills,
       Scan!TypeOK
  <2>3. CASE \E s \in Scans : Scan!FileUpdated(s, g) \/ Scan!FileInserted(s, g)
    BY <1>1, <1>3, <2>3 DEF Scan!FileUpdated, Scan!FileInserted, Scan!TypeOK
  <2>4. QED
    BY <2>1, <2>2, <2>3
<1>8. CASE UNCHANGED instances
  BY <1>3, <1>8, SMTT(30)
<1>9. \/ UNCHANGED instances
      \/ \E g \in Scan!Files : Scan!FileUploads(g) \/ Scan!BrowserSubmits(g) \/ Scan!Backfills(g)
      \/ \E s \in Scans : Scan!markMissing(s) \/ \E g \in Scan!Files : Scan!FileUpdated(s, g) \/ Scan!FileInserted(s, g)
  BY ZenonT(60) DEF Scan!Next, scanVars, Scan!FileChanges, Scan!FileGoes, Scan!BrowserReads,
     Scan!startScanHandler, Scan!maybeRunScheduledScan,
     Scan!Begin, Scan!ListsDeep, Scan!ListsRoot, Scan!ListsBelow, Scan!ListsPage, Scan!ReadsRows, Scan!FileSkipped,
     Scan!dispatchWorkBatch, Scan!ScanEnds, Scan!ScanDies
<1>10. QED
  BY <1>2, <1>4, <1>5, <1>6, <1>7, <1>8, <1>9

LEMMA CalmScanLeavesTheTruth == ASSUME Scan!IInv, [Scan!Next]_scanVars PROVE Scan!LeavesTheTruth
<1> SUFFICES ASSUME NEW s \in Scans, Scan!At(s, "end"), scan'[s].at = "completed", scan[s].calm,
                    mode = "library", \E f \in Scan!Files : disk[f] > 0, NEW f \in Scan!Files
             PROVE  IF disk[f] = 0 THEN instances[f] # None => instances[f].missing
                    ELSE IF kind = "r2" /\ entry[f] = None THEN TRUE
                    ELSE instances[f] # None /\ ~instances[f].missing /\ instances[f].print = disk[f]
  BY DEF Scan!LeavesTheTruth
<1>1. ScanHolds(s) /\ scan \in [Scans -> Scan!ScanStates] /\ \A g \in Scan!Files : disk[g] \in Nat
  BY ScanByScan, StorageAssumption DEF Scan!IInv, Scan!TypeOK, Scan!Generations
<1>2. Scan!Running(s) /\ Scan!Calm(s) /\ Scan!Writing(s) /\ ~Scan!At(s, "write")
  BY DEF Scan!At, Scan!Running, Scan!Calm, Scan!Writing, Scan!Ended
<1>3. scan[s].complete
  <2>1. ASSUME NEW r \in Scan!ScanStates, NEW o \in Scans, scan' = [scan EXCEPT ![o] = r], r.at # "completed" PROVE FALSE
    BY <1>1, <2>1 DEF Scan!At
  <2>2. ASSUME NEW o \in Scans, NEW at \in Scan!Ended, Scan!Over(o, at), at # "completed" PROVE FALSE
    BY <1>1, <2>2 DEF Scan!At, Scan!Over, Scan!Idle
  <2>3. \E o \in Scans : Scan!ScanEnds(o)
    <3>1. ASSUME scan'[s].at = scan[s].at PROVE FALSE
      BY <3>1 DEF Scan!At
    <3>2. ASSUME NEW g, NEW gone, Scan!Witness(g, gone) PROVE FALSE
      BY <1>1, <3>2 DEF Scan!Witness, Scan!At, Scan!ScanStates
    <3>3. ASSUME NEW g \in Scan!Files, Scan!FileChanges(g) \/ Scan!FileUploads(g) \/ Scan!FileGoes(g) \/ Scan!BrowserReads(g)
                 \/ Scan!BrowserSubmits(g) \/ Scan!Backfills(g)
          PROVE  FALSE
      BY <3>1, <3>2, <3>3 DEF Scan!FileChanges, Scan!FileUploads, Scan!FileGoes,
         Scan!BrowserReads, Scan!BrowserSubmits, Scan!Backfills
    <3>4. ASSUME NEW o \in Scans, Scan!startScanHandler(o) \/ Scan!maybeRunScheduledScan(o) PROVE FALSE
      <4>1. PICK force \in BOOLEAN, pool \in BOOLEAN : Scan!Begin(o, force, pool)
        BY <3>4 DEF Scan!startScanHandler, Scan!maybeRunScheduledScan
      <4>2. scan[o].at = "new" /\ o # s
        BY <4>1 DEF Scan!Begin, Scan!At
      <4>3. scan'[s] = scan[s] \/ scan'[s] = [scan[s] EXCEPT !.calm = FALSE]
        BY <4>1, <4>2 DEF Scan!Begin
      <4>4. QED
        BY <1>1, <3>1, <4>3 DEF Scan!ScanStates
    <3>5. ASSUME NEW o \in Scans, NEW g \in Scan!Files, Scan!FileSkipped(o, g) \/ Scan!FileUpdated(o, g) \/ Scan!FileInserted(o, g)
          PROVE  FALSE
      <4>1. PICK T \in SUBSET Scan!Files : scan' = [scan EXCEPT ![o] = [scan[o] EXCEPT !.todo = scan[o].todo \ {g}, !.targets = T]]
        BY <3>5, PassesMeans, ZenonT(30) DEF Scan!FileSkipped, Scan!FileUpdated,
           Scan!FileInserted,
           Scan!IInv
      <4>2. QED
        BY <1>1, <3>1, <4>1 DEF Scan!ScanStates
    <3>6. ASSUME NEW o \in Scans, Scan!ListsDeep(o) \/ Scan!ListsRoot(o) \/ Scan!ListsBelow(o) \/ Scan!ListsPage(o) PROVE FALSE
      <4>1. scan[o].at \in {"list", "below"}
        BY <3>6 DEF Scan!ListsDeep, Scan!ListsRoot, Scan!ListsBelow, Scan!ListsPage, Scan!At
      <4>2. scan'[s] = scan[s] \/ o = s
        BY <1>1, <3>6 DEF Scan!ListsDeep, Scan!ListsRoot, Scan!ListsBelow, Scan!ListsPage,
           Scan!Over
      <4>3. QED
        BY <4>1, <4>2, <3>1 DEF Scan!At
    <3>7. ASSUME NEW o \in Scans, Scan!ReadsRows(o) \/ Scan!markMissing(o) \/ Scan!dispatchWorkBatch(o) PROVE FALSE
      <4>1. scan[o].at \in {"rows", "write", "queue"}
        BY <3>7 DEF Scan!ReadsRows, Scan!markMissing, Scan!dispatchWorkBatch, Scan!At
      <4>2. scan'[s] = scan[s] \/ o = s
        BY <1>1, <3>7 DEF Scan!ReadsRows, Scan!markMissing, Scan!dispatchWorkBatch
      <4>3. QED
        BY <4>1, <4>2, <3>1 DEF Scan!At
    <3>8. ASSUME NEW o \in Scans, Scan!ScanDies(o) PROVE FALSE
      BY <2>2, <3>8 DEF Scan!ScanDies, Scan!Ended
    <3>9. scan' # scan
      BY <3>1
    <3>10. QED
      BY <3>3, <3>4, <3>5, <3>6, <3>7, <3>8, <3>9 DEF Scan!Next, scanVars
  <2>4. PICK o \in Scans : Scan!ScanEnds(o)
    BY <2>3
  <2>5. o = s
    BY <1>1, <2>4 DEF Scan!ScanEnds, Scan!Over, Scan!At
  <2>6. CASE ~scan[s].complete
    BY <2>2, <2>4, <2>5, <2>6 DEF Scan!ScanEnds, Scan!Ended
  <2>7. QED
    BY <2>6
<1>4. Scan!Covered(s) = Scan!Files
  BY <1>2, <1>3 DEF Scan!Covered, Scan!At
<1>5. \A g \in Scan!Files : scan[s].found[g] = disk[g]
  BY <1>1, <1>2, <1>4 DEF ScanHolds
<1>6. Scan!Listed(s) = {g \in Scan!Files : disk[g] > 0} /\ Scan!Passed(s) = Scan!Listed(s)
  BY <1>2, <1>5 DEF Scan!Listed, Scan!Passed
<1>7. Scan!MayMark(s)
  BY <1>3, <1>6 DEF Scan!MayMark
<1>8. CASE disk[f] = 0
  BY <1>1, <1>2, <1>6, <1>7, <1>8 DEF ScanHolds
<1>9. CASE disk[f] # 0 /\ ~(kind = "r2" /\ entry[f] = None)
  <2>1. f \in Scan!Passed(s) /\ Scan!Owed(f)
    BY <1>1, <1>6, <1>9 DEF Scan!Owed
  <2>2. Scan!Fresh(s, f)
    BY <1>1, <1>2, <2>1 DEF ScanHolds
  <2>3. QED
    BY <1>5, <1>9, <2>2 DEF Scan!Fresh
<1>10. QED
  BY <1>8, <1>9

\* A scan hides a song as missing only when its file was away or lies in a directory that the
\* scan could not list, and one that is completed with nothing changing meanwhile and everything
\* listed leaves the truth (scan.ts:400); for any files, scans and changes.
THEOREM ScansAreTruthful == StorageSpec => ScansTellTheTruth
<1>1. StorageInit => Scan!IInv
  BY ScanStart DEF StorageInit
<1>2. Scan!IInv /\ [StorageNext]_storageVars => Scan!IInv'
  <2> SUFFICES ASSUME Scan!IInv, [StorageNext]_storageVars PROVE Scan!IInv'
    OBVIOUS
  <2>1. [Scan!Next]_scanVars
    BY DEF StorageNext, storageVars, scanVars
  <2>2. QED
    BY <2>1, ScanStep
<1>3. Scan!IInv /\ [StorageNext]_storageVars
      => [part = "scan" => Scan!HidesTheMissing /\ Scan!LeavesTheTruth]_storageVars
  <2> SUFFICES ASSUME Scan!IInv, [StorageNext]_storageVars PROVE Scan!HidesTheMissing /\ Scan!LeavesTheTruth
    OBVIOUS
  <2>1. [Scan!Next]_scanVars
    BY DEF StorageNext, storageVars, scanVars
  <2>2. QED
    BY <2>1, OnlyTheMissingAreHidden, CalmScanLeavesTheTruth
<1>4. QED
  BY <1>1, <1>2, <1>3, PTL DEF StorageSpec, ScansTellTheTruth

-----------------------------------------------------------------------------
(* The cloning of another server.                                          *)

LEMMA CloneSorts ==
    /\ Cloning!Lists' = Cloning!Lists /\ Cloning!Pages' = Cloning!Pages /\ Cloning!SongWork' = Cloning!SongWork
    /\ Cloning!Ids' = Cloning!Ids /\ Cloning!ListIds' = Cloning!ListIds
BY DEF Cloning!Lists, Cloning!Pages, Cloning!SongWork, Cloning!Ids, Cloning!ListIds,
   Cloning!Names

\* A new page, and a library nothing has been cloned into.
LEMMA CloneStart == Cloning!Init => Cloning!IInv
<1> SUFFICES ASSUME Cloning!Init PROVE Cloning!IInv
  OBVIOUS
<1>1. \A n \in Cloning!Names : Cloning!NewList(n) \in Cloning!Lists
  BY DEF Cloning!NewList, Cloning!Lists, Cloning!Names
<1>2. lists \in [Cloning!ListIds -> Cloning!Lists \cup {None}]
  <2>1. PICK names \in [{"remote", "own"} -> Cloning!Names \cup {None}] :
          lists = [l \in Cloning!ListIds |-> IF l = "hashed" \/ names[l] = None THEN None ELSE Cloning!NewList(names[l])]
    BY DEF Cloning!Init
  <2>2. \A l \in Cloning!ListIds : lists[l] \in Cloning!Lists \cup {None}
    BY <2>1, <1>1 DEF Cloning!ListIds
  <2>3. QED
    BY <2>1, <2>2
<1>3. Len(Upstream) \in Nat /\ <<>> \in Seq(Cloning!Ids)
  BY StorageAssumption
<1>4. run \in Cloning!Pages
  BY <1>3 DEF Cloning!Init, Cloning!Off, Cloning!Pages
<1>5. work \in [Tracks -> Cloning!SongWork]
  BY DEF Cloning!Init, Cloning!NoWork, Cloning!SongWork
<1>6. Cloning!TypeOK
  BY <1>2, <1>4, <1>5 DEF Cloning!Init, Cloning!TypeOK, Cloning!Ours, Cloning!Ids
<1>7. Cloning!StageHasItsWork /\ Cloning!WrittenIsThere /\ Cloning!SavedIsKnown /\ Cloning!NothingIsRegistered
  BY DEF Cloning!Init, Cloning!Off, Cloning!NoWork, Cloning!StageHasItsWork,
     Cloning!WrittenIsThere, Cloning!SavedIsKnown,
     Cloning!NothingIsRegistered
<1>8. Cloning!TargetComesFirst /\ Cloning!ListHolds /\ Cloning!SkippedHaveArrived
  BY DEF Cloning!Init, Cloning!Off, Cloning!TargetComesFirst, Cloning!ListHolds,
     Cloning!SkippedHaveArrived
<1>9. QED
  BY <1>6, <1>7, <1>8 DEF Cloning!IInv

\* The members of a finite set of numbers up to one of them, and the one with a given rank.
UpTo(S, n) == {j \in S : j <= n}

LEMMA LeastNumber == ASSUME NEW T \in SUBSET Nat, T # {} PROVE \E n \in T : \A m \in T : n <= m
<1> DEFINE R == {ss \in Nat \X Nat : ss[1] < ss[2]}
<1>1. IsWellFoundedOn(R, Nat)
  BY NatLessThanWellFounded DEF OpToRel
<1> HIDE DEF R
<1>2. PICK n \in T : \A m \in T : ~(<<m, n>> \in R)
  BY <1>1, WFMin
<1>3. ASSUME NEW m \in T PROVE n <= m
  <2>1. <<m, n>> \in Nat \X Nat /\ ~(<<m, n>> \in R)
    BY <1>2
  <2>2. ~(m < n)
    BY <2>1 DEF R
  <2>3. QED
    BY <2>2
<1>4. QED
  BY <1>3

LEMMA RankedMember ==
    ASSUME NEW m \in Nat, NEW S \in SUBSET (1 .. m), NEW n \in 1 .. Cardinality(S)
    PROVE \E i \in S : Cardinality(UpTo(S, i)) = n
<1> DEFINE T == {k \in Nat : n <= Cardinality(UpTo(S, k))}
<1>0. IsFiniteSet(S) /\ \A j \in S : 1 <= j /\ j <= m /\ j \in Nat
  <2>1. IsFiniteSet(1 .. m)
    BY FS_Interval
  <2>2. IsFiniteSet(S)
    BY <2>1, FS_Subset
  <2>3. QED
    BY <2>2
<1>1. \A k : IsFiniteSet(UpTo(S, k)) /\ Cardinality(UpTo(S, k)) \in Nat
  <2> SUFFICES ASSUME NEW k PROVE IsFiniteSet(UpTo(S, k)) /\ Cardinality(UpTo(S, k)) \in Nat
    OBVIOUS
  <2>1. UpTo(S, k) \in SUBSET S
    BY DEF UpTo
  <2>2. QED
    BY <1>0, <2>1, FS_Subset, FS_CardinalityType
<1>2. m \in T
  <2>1. UpTo(S, m) = S
    BY <1>0 DEF UpTo
  <2>2. Cardinality(S) \in Nat /\ n <= Cardinality(UpTo(S, m))
    BY <1>0, <2>1, FS_CardinalityType
  <2>3. QED
    BY <2>2
<1>3. PICK k \in T : \A q \in T : k <= q
  BY <1>2, LeastNumber
<1>4. k # 0
  <2>1. UpTo(S, 0) = {}
    <3>1. \A j \in S : ~(j <= 0)
      BY <1>0
    <3>2. QED
      BY <3>1, Zenon DEF UpTo
  <2>2. Cardinality(UpTo(S, 0)) = 0
    BY <2>1, FS_EmptySet
  <2>3. QED
    BY <1>3, <2>2
<1>5. k - 1 \in Nat /\ ~(n <= Cardinality(UpTo(S, k - 1)))
  BY <1>3, <1>4
<1>6. k \in S /\ UpTo(S, k) = UpTo(S, k - 1) \cup {k}
  <2>1. UpTo(S, k) # UpTo(S, k - 1)
    BY <1>5
  <2>2. UpTo(S, k) = UpTo(S, k - 1) \cup ({k} \cap S)
    <3>1. \A j \in S : j <= k <=> j <= k - 1 \/ j = k
      BY <1>0, <1>3, <1>5
    <3>2. QED
      BY <1>3, <1>5, <3>1, Zenon DEF UpTo
  <2>3. QED
    BY <2>1, <2>2
<1>7. Cardinality(UpTo(S, k)) <= Cardinality(UpTo(S, k - 1)) + 1
  <2>1. IsFiniteSet(UpTo(S, k - 1)) /\ Cardinality(UpTo(S, k - 1)) \in Nat
    BY <1>1
  <2>2. QED
    BY <1>6, <2>1, FS_AddElement
<1>8. Cardinality(UpTo(S, k)) = n
  BY <1>1, <1>5, <1>7
<1>9. QED
  BY <1>6, <1>8

LEMMA SameCount == ASSUME NEW S PROVE Cloning!Cardinality(S) = Cardinality(S)
BY DEF Cloning!Cardinality, Cardinality

\* The one member of a set.
LEMMA OnlyMember == ASSUME NEW S, Cloning!Cardinality(S) = 1 PROVE (CHOOSE m \in S : TRUE) \in S
<1>1. S # {}
  <2>1. Cardinality(S) = 1 /\ Cardinality({}) = 0
    BY SameCount, FS_EmptySet
  <2>2. QED
    BY <2>1
<1>2. \E m \in S : TRUE
  BY <1>1
<1>3. QED
  BY <1>2, Zenon

\* The songs that are matched make a list.
LEMMA MatchedIsAList ==
    ASSUME Cloning!TypeOK, NEW chunk \in Seq(Tracks) PROVE Cloning!Matched(chunk) \in Seq(Cloning!Ids)
<1> DEFINE F == Cloning!Found(chunk)
<1>1. F \in SUBSET (1 .. Len(chunk)) /\ Len(chunk) \in Nat
  BY DEF Cloning!Found
<1>2. Cardinality(F) \in Nat /\ Cloning!Cardinality(F) = Cardinality(F)
  <2>1. IsFiniteSet(1 .. Len(chunk))
    BY <1>1, FS_Interval
  <2>2. IsFiniteSet(F)
    BY <1>1, <2>1, FS_Subset
  <2>3. QED
    BY <2>2, FS_CardinalityType, SameCount
<1>3. ASSUME NEW n \in 1 .. Cardinality(F)
      PROVE (CHOOSE id \in Cloning!Candidates(chunk[Cloning!Nth(F, n)]) : TRUE) \in Cloning!Ids
  <2>1. PICK i \in F : Cardinality(UpTo(F, i)) = n
    BY <1>1, RankedMember
  <2>2. Cloning!Cardinality({j \in F : j <= i}) = n
    BY <2>1, SameCount DEF UpTo
  <2>3. Cloning!Nth(F, n) \in F
    BY <2>2 DEF Cloning!Nth
  <2>4. Cloning!Cardinality(Cloning!Candidates(chunk[Cloning!Nth(F, n)])) = 1
    BY <2>3 DEF Cloning!Found
  <2>5. (CHOOSE id \in Cloning!Candidates(chunk[Cloning!Nth(F, n)]) : TRUE) \in Cloning!Candidates(chunk[Cloning!Nth(F, n)])
    BY <2>4, OnlyMember
  <2>6. QED
    BY <2>5 DEF Cloning!Candidates, Cloning!TypeOK
<1> HIDE DEF F
<1>4. Cloning!Matched(chunk) = [n \in 1 .. Cardinality(F) |-> CHOOSE id \in Cloning!Candidates(chunk[Cloning!Nth(F, n)]) : TRUE]
  BY <1>2 DEF F, Cloning!Matched
<1>5. Cloning!Matched(chunk) \in [1 .. Cardinality(F) -> Cloning!Ids]
  BY <1>3, <1>4, Zenon
<1>6. QED
  BY <1>2, <1>5

\* The page goes on with its lists where it was.
SamePlace == /\ run'.chunk = run.chunk /\ run'.target = run.target /\ run'.sent = run.sent /\ run'.stray = run.stray
             /\ run'.at = "lists" => run.at \in {"audio", "lists"}
             /\ run'.at \in {"metadata", "audio"} => run.at \in {"metadata", "audio"}

LEMMA ListsStay ==
    ASSUME Cloning!TargetComesFirst, Cloning!ListHolds, lists' = lists, SamePlace
    PROVE Cloning!TargetComesFirst' /\ Cloning!ListHolds'
<1>1. Cloning!TargetComesFirst'
  BY DEF Cloning!TargetComesFirst, SamePlace
<1>2. Cloning!ListHolds'
  BY DEF Cloning!TargetComesFirst, Cloning!ListHolds, SamePlace
<1>3. QED
  BY <1>1, <1>2

\* What a page leaves alone.
LibraryRests == /\ masters' = masters /\ idMap' = idMap /\ fetched' = fetched /\ fetchedRows' = fetchedRows /\ cloned' = cloned
                /\ lists' = lists

\* The lists are where they were or at the beginning; the requests go on, or are none yet.
PlaceIsSound == SamePlace \/ (run'.chunk = 1 /\ run'.target = None /\ run'.sent = <<>> /\ ~run'.stray)
WorkIsSound == /\ work' \in [Tracks -> Cloning!SongWork]
               /\ \/ \A s \in Tracks : work'[s].at \in {"none", "todo"}
                  \/ work' = work /\ run'.at = run.at /\ run'.done \subseteq run.done
               /\ run'.at \notin {"metadata", "audio"} => \A s \in Tracks : work'[s].at = "none"
\* Nobody thinks more arrived than before.
CacheIsSound == /\ saved' \subseteq Tracks /\ run'.done \cup saved' \subseteq run.done \cup saved
                /\ run'.at # "off" => saved' \subseteq run'.done

LEMMA PageKeeps ==
    ASSUME Cloning!IInv, LibraryRests, run' \in Cloning!Pages, PlaceIsSound, WorkIsSound, CacheIsSound
    PROVE Cloning!IInv'
<1>1. Cloning!TypeOK'
  BY CloneSorts DEF Cloning!IInv, Cloning!TypeOK, LibraryRests, WorkIsSound, CacheIsSound
<1>2. Cloning!StageHasItsWork'
  <2>1. CASE \A s \in Tracks : work'[s].at \in {"none", "todo"}
    BY <2>1 DEF Cloning!StageHasItsWork, WorkIsSound
  <2>2. CASE work' = work /\ run'.at = run.at /\ run'.done \subseteq run.done
    BY <2>2, CloneSorts DEF Cloning!IInv, Cloning!StageHasItsWork, WorkIsSound
  <2>3. QED
    BY <2>1, <2>2 DEF WorkIsSound
<1>3. Cloning!WrittenIsThere'
  <2>1. \A s \in Tracks : work'[s].at \notin {"register", "answer"} \/ work' = work
    BY DEF WorkIsSound
  <2>2. QED
    BY <2>1 DEF Cloning!IInv, Cloning!WrittenIsThere, LibraryRests
<1>4. Cloning!SavedIsKnown'
  BY DEF Cloning!SavedIsKnown, CacheIsSound
<1>5. Cloning!NothingIsRegistered'
  BY DEF Cloning!IInv, Cloning!NothingIsRegistered, LibraryRests
<1>6. Cloning!TargetComesFirst' /\ Cloning!ListHolds'
  <2>1. CASE SamePlace
    BY <2>1, ListsStay DEF Cloning!IInv, LibraryRests
  <2>2. CASE run'.chunk = 1 /\ run'.target = None /\ run'.sent = <<>> /\ ~run'.stray
    BY <2>2 DEF Cloning!TargetComesFirst, Cloning!ListHolds
  <2>3. QED
    BY <2>1, <2>2 DEF PlaceIsSound
<1>7. Cloning!SkippedHaveArrived'
  BY CloneSorts DEF Cloning!IInv, Cloning!SkippedHaveArrived, LibraryRests, CacheIsSound
<1>8. QED
  BY <1>1, <1>2, <1>3, <1>4, <1>5, <1>6, <1>7 DEF Cloning!IInv

LEMMA FreshPage ==
    ASSUME NEW at \in {"off", "stuck", "metadata"}, NEW done \in SUBSET Tracks,
           run' = [at |-> at, cancel |-> FALSE, done |-> done, chunk |-> 1, target |-> None, sent |-> <<>>, stray |-> FALSE]
    PROVE run' \in Cloning!Pages /\ run'.at = at /\ run'.done = done /\ PlaceIsSound
<1>2. 1 \in 1 .. Len(Upstream) + 1 /\ <<>> \in Seq(Cloning!Ids)
  BY StorageAssumption
<1>3. run' \in Cloning!Pages
  BY <1>2 DEF Cloning!Pages
<1>4. QED
  BY <1>3 DEF PlaceIsSound

\* What the page does by itself.
LEMMA PageStarts == ASSUME Cloning!IInv, Cloning!Starts \/ Cloning!PingFails \/ Cloning!Ends \/ Cloning!Reloads PROVE Cloning!IInv'
<1>1. /\ saved \subseteq Tracks /\ run.done \subseteq Tracks /\ work \in [Tracks -> Cloning!SongWork]
      /\ run.at # "off" => saved \subseteq run.done
  BY DEF Cloning!IInv, Cloning!TypeOK, Cloning!Pages, Cloning!SavedIsKnown
<1>3. Cloning!Todo \in [Tracks -> Cloning!SongWork] /\ [s \in Tracks |-> Cloning!NoWork] \in [Tracks -> Cloning!SongWork]
  BY DEF Cloning!Todo, Cloning!NoWork, Cloning!SongWork
<1>4. run.at \notin {"metadata", "audio"} => \A s \in Tracks : work[s].at = "none"
  BY DEF Cloning!IInv, Cloning!StageHasItsWork
<1>5. LibraryRests
  BY DEF Cloning!Starts, Cloning!PingFails, Cloning!Ends, Cloning!Reloads, Cloning!library,
     LibraryRests
<1>6. CASE Cloning!Starts
  <2>1. work' = Cloning!Todo /\ saved' = saved
    BY <1>6 DEF Cloning!Starts
  <2>2. run' = [at |-> "metadata", cancel |-> FALSE, done |-> saved, chunk |-> 1, target |-> None, sent |-> <<>>, stray |-> FALSE]
    BY <1>6 DEF Cloning!Starts, Cloning!Off
  <2>3. run' \in Cloning!Pages /\ run'.at = "metadata" /\ run'.done = saved /\ PlaceIsSound
    BY <1>1, <2>2, FreshPage
  <2>4. \A s \in Tracks : work'[s].at = "todo"
    BY <2>1 DEF Cloning!Todo
  <2>5. WorkIsSound
    BY <1>1, <1>3, <2>1, <2>3, <2>4 DEF WorkIsSound
  <2>6. CacheIsSound
    BY <1>1, <2>1, <2>3 DEF CacheIsSound
  <2>7. QED
    BY <1>5, <2>3, <2>5, <2>6, PageKeeps
<1>7. CASE Cloning!PingFails
  <2>1. work' = work /\ saved' = saved /\ run.at = "off"
    BY <1>7 DEF Cloning!PingFails
  <2>2. run' = [at |-> "stuck", cancel |-> FALSE, done |-> saved, chunk |-> 1, target |-> None, sent |-> <<>>, stray |-> FALSE]
    BY <1>7 DEF Cloning!PingFails, Cloning!Off
  <2>3. run' \in Cloning!Pages /\ run'.at = "stuck" /\ run'.done = saved /\ PlaceIsSound
    BY <1>1, <2>2, FreshPage
  <2>4. \A s \in Tracks : work'[s].at = "none"
    BY <1>4, <2>1
  <2>5. WorkIsSound
    BY <1>1, <1>3, <2>1, <2>3, <2>4 DEF WorkIsSound
  <2>6. CacheIsSound
    BY <1>1, <2>1, <2>3 DEF CacheIsSound
  <2>7. QED
    BY <1>5, <2>3, <2>5, <2>6, PageKeeps
<1>8. CASE Cloning!Ends
  <2>1. work' = work /\ saved' = run.done /\ run.at \in {"failed", "lists"}
    BY <1>8 DEF Cloning!Ends
  <2>2. run' = [at |-> "off", cancel |-> FALSE, done |-> run.done, chunk |-> 1, target |-> None, sent |-> <<>>, stray |-> FALSE]
    BY <1>8 DEF Cloning!Ends, Cloning!Off
  <2>3. run' \in Cloning!Pages /\ run'.at = "off" /\ run'.done = run.done /\ PlaceIsSound
    BY <1>1, <2>2, FreshPage
  <2>4. \A s \in Tracks : work'[s].at = "none"
    BY <1>4, <2>1
  <2>5. WorkIsSound
    BY <1>1, <1>3, <2>1, <2>3, <2>4 DEF WorkIsSound
  <2>6. CacheIsSound
    BY <1>1, <2>1, <2>3 DEF CacheIsSound
  <2>7. QED
    BY <1>5, <2>3, <2>5, <2>6, PageKeeps
<1>9. CASE Cloning!Reloads
  <2>1. work' = [s \in Tracks |-> Cloning!NoWork] /\ saved' = saved
    BY <1>9 DEF Cloning!Reloads
  <2>2. run' = [at |-> "off", cancel |-> FALSE, done |-> {}, chunk |-> 1, target |-> None, sent |-> <<>>, stray |-> FALSE]
    BY <1>9 DEF Cloning!Reloads, Cloning!Off
  <2>3. run' \in Cloning!Pages /\ run'.at = "off" /\ run'.done = {} /\ PlaceIsSound
    BY <1>1, <2>2, FreshPage
  <2>4. \A s \in Tracks : work'[s].at = "none"
    BY <2>1 DEF Cloning!NoWork
  <2>5. WorkIsSound
    BY <1>1, <1>3, <2>1, <2>3, <2>4 DEF WorkIsSound
  <2>6. CacheIsSound
    BY <1>1, <2>1, <2>3 DEF CacheIsSound
  <2>7. QED
    BY <1>5, <2>3, <2>5, <2>6, PageKeeps
<1>10. QED
  BY <1>6, <1>7, <1>8, <1>9

LEMMA StagesEnd == ASSUME Cloning!IInv, Cloning!MetadataEnds \/ Cloning!ListingFails \/ Cloning!AudioEnds PROVE Cloning!IInv'
<1>1. /\ saved \subseteq Tracks /\ run \in Cloning!Pages
      /\ run.at # "off" => saved \subseteq run.done
  BY DEF Cloning!IInv, Cloning!TypeOK, Cloning!SavedIsKnown
<1>2. Cloning!Todo \in [Tracks -> Cloning!SongWork] /\ [s \in Tracks |-> Cloning!NoWork] \in [Tracks -> Cloning!SongWork]
  BY DEF Cloning!Todo, Cloning!NoWork, Cloning!SongWork
<1>3. LibraryRests /\ saved' = saved
  BY DEF Cloning!MetadataEnds, Cloning!ListingFails, Cloning!AudioEnds, Cloning!library,
     LibraryRests
<1>4. CASE Cloning!MetadataEnds
  <2>1. work' = Cloning!Todo /\ run.at = "metadata"
    BY <1>4 DEF Cloning!MetadataEnds
  <2>2. run' = [run EXCEPT !.at = "audio"] /\ run' \in Cloning!Pages
    BY <1>1, <1>4 DEF Cloning!MetadataEnds, Cloning!Pages
  <2>3. run'.done = run.done /\ run'.at = "audio" /\ PlaceIsSound
    BY <1>1, <2>1, <2>2 DEF Cloning!Pages, SamePlace, PlaceIsSound
  <2>4. \A s \in Tracks : work'[s].at = "todo"
    BY <2>1 DEF Cloning!Todo
  <2>5. WorkIsSound
    BY <1>2, <2>1, <2>3, <2>4 DEF WorkIsSound
  <2>6. CacheIsSound
    BY <1>1, <1>3, <2>1, <2>3 DEF CacheIsSound
  <2>7. QED
    BY <1>3, <2>2, <2>3, <2>5, <2>6, PageKeeps
<1>5. CASE Cloning!ListingFails
  <2>1. work' = [s \in Tracks |-> Cloning!NoWork] /\ run.at # "off"
    BY <1>5 DEF Cloning!ListingFails
  <2>2. run' = [run EXCEPT !.at = "failed"] /\ run' \in Cloning!Pages
    BY <1>1, <1>5 DEF Cloning!ListingFails, Cloning!Pages
  <2>3. run'.done = run.done /\ run'.at = "failed" /\ PlaceIsSound
    BY <1>1, <2>1, <2>2 DEF Cloning!Pages, SamePlace, PlaceIsSound
  <2>4. \A s \in Tracks : work'[s].at = "none"
    BY <2>1 DEF Cloning!NoWork
  <2>5. WorkIsSound
    BY <1>2, <2>1, <2>3, <2>4 DEF WorkIsSound
  <2>6. CacheIsSound
    BY <1>1, <1>3, <2>1, <2>3 DEF CacheIsSound
  <2>7. QED
    BY <1>3, <2>2, <2>3, <2>5, <2>6, PageKeeps
<1>6. CASE Cloning!AudioEnds
  <2>1. work' = [s \in Tracks |-> Cloning!NoWork] /\ run.at = "audio"
    BY <1>6 DEF Cloning!AudioEnds
  <2>2. run' = [run EXCEPT !.at = "lists"] /\ run' \in Cloning!Pages
    BY <1>1, <1>6 DEF Cloning!AudioEnds, Cloning!Pages
  <2>3. run'.done = run.done /\ run'.at = "lists" /\ PlaceIsSound
    BY <1>1, <2>1, <2>2 DEF Cloning!Pages, SamePlace, PlaceIsSound
  <2>4. \A s \in Tracks : work'[s].at = "none"
    BY <2>1 DEF Cloning!NoWork
  <2>5. WorkIsSound
    BY <1>2, <2>1, <2>3, <2>4 DEF WorkIsSound
  <2>6. CacheIsSound
    BY <1>1, <1>3, <2>1, <2>3 DEF CacheIsSound
  <2>7. QED
    BY <1>3, <2>2, <2>3, <2>5, <2>6, PageKeeps
<1>7. QED
  BY <1>4, <1>5, <1>6

LEMMA PageNotes == ASSUME Cloning!IInv, Cloning!cancelClone \/ Cloning!Flushes \/ Cloning!clearCloneCache PROVE Cloning!IInv'
<1>1. /\ saved \subseteq Tracks /\ run \in Cloning!Pages /\ run.done \subseteq Tracks /\ work \in [Tracks -> Cloning!SongWork]
      /\ run.at # "off" => saved \subseteq run.done
  BY DEF Cloning!IInv, Cloning!TypeOK, Cloning!SavedIsKnown, Cloning!Pages
<1>2. run.at \notin {"metadata", "audio"} => \A s \in Tracks : work[s].at = "none"
  BY DEF Cloning!IInv, Cloning!StageHasItsWork
<1>3. LibraryRests /\ work' = work
  BY DEF Cloning!cancelClone, Cloning!Flushes, Cloning!clearCloneCache, Cloning!library,
     LibraryRests
<1>4. /\ run' \in Cloning!Pages /\ run'.at = run.at /\ SamePlace
      /\ run'.done \subseteq run.done /\ saved' \subseteq run.done \cup saved
      /\ run'.at # "off" => saved' \subseteq run'.done
  <2>1. CASE Cloning!cancelClone
    BY <1>1, <2>1 DEF Cloning!cancelClone, Cloning!Pages, SamePlace
  <2>2. CASE Cloning!Flushes
    BY <1>1, <2>2 DEF Cloning!Flushes, SamePlace
  <2>3. CASE Cloning!clearCloneCache
    BY <1>1, <2>3 DEF Cloning!clearCloneCache, Cloning!Pages, SamePlace
  <2>4. QED
    BY <2>1, <2>2, <2>3
<1>5. QED
  <2>1. PlaceIsSound /\ WorkIsSound
    BY <1>1, <1>2, <1>3, <1>4 DEF PlaceIsSound, WorkIsSound
  <2>2. CacheIsSound
    BY <1>1, <1>4 DEF CacheIsSound
  <2>3. QED
    BY <1>3, <1>4, <2>1, <2>2, PageKeeps

\* A step of one song's request: its work is in order, and only its own objects move,
\* none of them while the page counts the song as done.
RequestIsSound(s, w) ==
    /\ w \in Cloning!SongWork /\ work' = [work EXCEPT ![s] = w]
    /\ w.at \in {"insert", "map", "put", "register", "answer"} => w.id \in Cloning!Ids
    /\ w.at \in {"put", "register", "answer"} => run.at = "audio" /\ s \notin run'.done
    /\ w.at \in {"register", "answer"} => <<w.id, s>> \in fetched'
PageRests == lists' = lists /\ saved' = saved /\ run' \in Cloning!Pages /\ run'.at = run.at /\ SamePlace
NothingRegistered == fetchedRows' = {} /\ cloned' = {}
SongsRest == masters' \in SUBSET Cloning!Ids /\ idMap' \in [Tracks -> Cloning!Ids \cup {None}]
ObjectsAreSound(s) ==
    /\ fetched' \in SUBSET (Cloning!Ids \X Tracks)
    /\ \A t \in Tracks : t # s \/ s \in run.done => \A m \in Cloning!Ids : <<m, t>> \in fetched => <<m, t>> \in fetched'
    /\ run.done \subseteq run'.done /\ run'.done \subseteq run.done \cup {s}
    /\ s \in run'.done \ run.done => \E m \in Cloning!Ids : <<m, s>> \in fetched'

LEMMA RequestKeeps ==
    ASSUME Cloning!IInv, NEW s \in Tracks, NEW w, run.at \in {"metadata", "audio"}, RequestIsSound(s, w), PageRests, NothingRegistered,
           SongsRest, ObjectsAreSound(s)
    PROVE Cloning!IInv'
<1>0. work' = [work EXCEPT ![s] = w] /\ work \in [Tracks -> Cloning!SongWork] /\ w \in Cloning!SongWork
  BY DEF RequestIsSound, Cloning!IInv, Cloning!TypeOK
<1>1. work' \in [Tracks -> Cloning!SongWork] /\ work'[s] = w /\ \A t \in Tracks \ {s} : work'[t] = work[t]
  BY <1>0
<1>2. Cloning!TypeOK'
  BY <1>1, CloneSorts DEF Cloning!IInv, Cloning!TypeOK, PageRests, NothingRegistered,
     SongsRest, ObjectsAreSound
<1>3. Cloning!StageHasItsWork'
  <2>1. ASSUME NEW t \in Tracks
        PROVE /\ work'[t].at \in {"insert", "map", "put", "register", "answer"} => work'[t].id \in Cloning!Ids
              /\ work'[t].at \in {"put", "register", "answer"} => run'.at = "audio" /\ t \notin run'.done
    BY <1>1 DEF Cloning!IInv, Cloning!StageHasItsWork, RequestIsSound, PageRests,
       ObjectsAreSound
  <2>2. QED
    BY <2>1, CloneSorts DEF Cloning!StageHasItsWork, PageRests
<1>4. Cloning!WrittenIsThere'
  <2>1. ASSUME NEW t \in Tracks, work'[t].at \in {"register", "answer"} PROVE <<work'[t].id, t>> \in fetched'
    <3>1. CASE t = s
      BY <1>1, <2>1, <3>1 DEF RequestIsSound
    <3>2. CASE t # s
      BY <1>1, <2>1, <3>2 DEF Cloning!IInv, Cloning!StageHasItsWork, Cloning!WrittenIsThere,
         ObjectsAreSound
    <3>3. QED
      BY <3>1, <3>2
  <2>2. QED
    BY <2>1 DEF Cloning!WrittenIsThere
<1>5. Cloning!SavedIsKnown' /\ Cloning!NothingIsRegistered'
  BY DEF Cloning!IInv, Cloning!SavedIsKnown, Cloning!NothingIsRegistered, PageRests,
     NothingRegistered, ObjectsAreSound
<1>6. Cloning!TargetComesFirst' /\ Cloning!ListHolds'
  BY ListsStay DEF Cloning!IInv, PageRests
<1>7. Cloning!SkippedHaveArrived'
  <2>1. ASSUME NEW t \in run'.done \cup saved' PROVE \E m \in Cloning!Ids : <<m, t>> \in fetched'
    <3>1. CASE t \in run.done \cup saved
      <4>1. PICK m \in Cloning!Ids : <<m, t>> \in fetched
        BY <3>1 DEF Cloning!IInv, Cloning!SkippedHaveArrived
      <4>2. t \in run.done /\ t \in Tracks
        BY <3>1 DEF Cloning!IInv, Cloning!TypeOK, Cloning!Pages, Cloning!SavedIsKnown
      <4>3. <<m, t>> \in fetched'
        BY <4>1, <4>2 DEF ObjectsAreSound
      <4>4. QED
        BY <4>1, <4>3
    <3>2. CASE t \notin run.done \cup saved
      BY <2>1, <3>2 DEF PageRests, ObjectsAreSound
    <3>3. QED
      BY <3>1, <3>2
  <2>2. QED
    BY <2>1, CloneSorts DEF Cloning!SkippedHaveArrived
<1>8. QED
  BY <1>2, <1>3, <1>4, <1>5, <1>6, <1>7 DEF Cloning!IInv

\* What the requests start from.
LEMMA RequestFacts ==
    ASSUME Cloning!IInv, NEW s \in Tracks
    PROVE /\ masters \in SUBSET Cloning!Ids /\ idMap \in [Tracks -> Cloning!Ids \cup {None}] /\ run \in Cloning!Pages
          /\ fetched \in SUBSET (Cloning!Ids \X Tracks) /\ fetchedRows = {} /\ cloned = {}
          /\ work \in [Tracks -> Cloning!SongWork] /\ work[s] \in Cloning!SongWork
          /\ work[s].at # "none" => run.at \in {"metadata", "audio"}
          /\ s \in Cloning!Ids /\ Match[s] \in Cloning!Ids
<1>1. Cloning!TypeOK /\ Cloning!StageHasItsWork /\ Cloning!NothingIsRegistered
  BY DEF Cloning!IInv
<1>2. s \in Cloning!Ids /\ Match[s] \in Cloning!Ids
  BY DEF Cloning!Ids
<1>3. work \in [Tracks -> Cloning!SongWork] /\ (work[s].at # "none" => run.at \in {"metadata", "audio"})
  BY <1>1 DEF Cloning!TypeOK, Cloning!StageHasItsWork
<1>4. QED
  BY <1>1, <1>2, <1>3 DEF Cloning!TypeOK, Cloning!NothingIsRegistered

\* A request for metadata.
LEMMA MetadataKeeps ==
    ASSUME Cloning!IInv, NEW s \in Tracks, Cloning!Resolves(s) \/ Cloning!Inserts(s) \/ Cloning!saveCloneIdMap(s)
    PROVE Cloning!IInv'
<1>1. /\ fetched' = fetched /\ fetchedRows' = fetchedRows /\ cloned' = cloned /\ lists' = lists /\ run' = run /\ saved' = saved
      /\ run.at \in {"metadata", "audio"}
  BY RequestFacts DEF Cloning!Resolves, Cloning!Inserts, Cloning!saveCloneIdMap,
     Cloning!library
<1>2. PageRests /\ NothingRegistered /\ ObjectsAreSound(s)
  BY <1>1, RequestFacts DEF PageRests, NothingRegistered, ObjectsAreSound, SamePlace
<1>3. CASE Cloning!Resolves(s)
  <2>1. PICK id \in Cloning!Resolved(s) : work' = [work EXCEPT ![s] = [at |-> "insert", id |-> id]]
    BY <1>3 DEF Cloning!Resolves
  <2>2. id \in Cloning!Ids
    BY RequestFacts DEF Cloning!Resolved
  <2>3. RequestIsSound(s, [at |-> "insert", id |-> id])
    BY <2>1, <2>2 DEF RequestIsSound, Cloning!SongWork
  <2>4. SongsRest
    BY <1>3, RequestFacts DEF Cloning!Resolves, Cloning!library, SongsRest
  <2>5. QED
    BY <1>1, <1>2, <2>3, <2>4, RequestKeeps
<1>4. CASE Cloning!Inserts(s)
  <2>1. work[s].at = "insert" /\ masters' = masters \cup {work[s].id} /\ idMap' = idMap
    BY <1>4 DEF Cloning!Inserts
  <2>2. work[s].id \in Cloning!Ids
    BY <2>1 DEF Cloning!IInv, Cloning!StageHasItsWork
  <2>3. RequestIsSound(s, [work[s] EXCEPT !.at = "map"])
    BY <1>4, <2>2, RequestFacts DEF Cloning!Inserts, RequestIsSound, Cloning!SongWork
  <2>4. SongsRest
    BY <2>1, <2>2, RequestFacts DEF SongsRest
  <2>5. QED
    BY <1>1, <1>2, <2>3, <2>4, RequestKeeps
<1>5. CASE Cloning!saveCloneIdMap(s)
  <2>1. work[s].at = "map" /\ masters' = masters /\ idMap' = [idMap EXCEPT ![s] = work[s].id]
    BY <1>5 DEF Cloning!saveCloneIdMap
  <2>2. work[s].id \in Cloning!Ids
    BY <2>1 DEF Cloning!IInv, Cloning!StageHasItsWork
  <2>3. RequestIsSound(s, [work[s] EXCEPT !.at = "ok"])
    BY <1>5, <2>2, RequestFacts DEF Cloning!saveCloneIdMap, RequestIsSound, Cloning!SongWork
  <2>4. SongsRest
    BY <2>1, <2>2, RequestFacts DEF SongsRest
  <2>5. QED
    BY <1>1, <1>2, <2>3, <2>4, RequestKeeps
<1>6. QED
  BY <1>3, <1>4, <1>5

\* A request for audio that touches no object: what is skipped, looked up, registered or given up.
LEMMA AudioKeeps ==
    ASSUME Cloning!IInv, NEW s \in Tracks, Cloning!Skips(s) \/ Cloning!LooksUp(s) \/ Cloning!Registers(s) \/ Cloning!Fails(s)
    PROVE Cloning!IInv'
<1>1. /\ fetched' = fetched /\ lists' = lists /\ run' = run /\ saved' = saved /\ masters' = masters /\ idMap' = idMap
      /\ run.at \in {"metadata", "audio"}
  BY RequestFacts DEF Cloning!Skips, Cloning!LooksUp, Cloning!Registers, Cloning!Fails,
     Cloning!library
<1>2. fetchedRows' = {} /\ cloned' = {}
  BY RequestFacts DEF Cloning!Skips, Cloning!LooksUp, Cloning!Registers, Cloning!Fails,
     Cloning!library
<1>3. PageRests /\ NothingRegistered /\ ObjectsAreSound(s) /\ SongsRest
  BY <1>1, <1>2, RequestFacts DEF PageRests, NothingRegistered, ObjectsAreSound, SongsRest,
     SamePlace
<1>4. \E w : RequestIsSound(s, w)
  <2>1. CASE Cloning!Skips(s)
    <3>1. RequestIsSound(s, [work[s] EXCEPT !.at = "ok"])
      BY <2>1, RequestFacts DEF Cloning!Skips, RequestIsSound, Cloning!SongWork
    <3>2. QED
      BY <3>1
  <2>2. CASE Cloning!LooksUp(s)
    <3>1. Cloning!resolveCloneId(s) \in Cloning!Ids
      BY RequestFacts DEF Cloning!resolveCloneId
    <3>2. CASE Cloning!resolveCloneId(s) \in masters
      <4>1. RequestIsSound(s, [at |-> "put", id |-> Cloning!resolveCloneId(s)])
        BY <1>1, <2>2, <3>1, <3>2 DEF Cloning!LooksUp, RequestIsSound, Cloning!SongWork
      <4>2. QED
        BY <4>1
    <3>3. CASE Cloning!resolveCloneId(s) \notin masters
      <4>1. RequestIsSound(s, [at |-> "failed", id |-> None])
        BY <1>1, <2>2, <3>3 DEF Cloning!LooksUp, RequestIsSound, Cloning!SongWork
      <4>2. QED
        BY <4>1
    <3>4. QED
      BY <3>2, <3>3
  <2>3. CASE Cloning!Registers(s)
    <3>1. /\ work[s].at = "register" /\ work' = [work EXCEPT ![s].at = "answer"]
          /\ work[s].id \in Cloning!Ids /\ run.at = "audio" /\ s \notin run.done /\ <<work[s].id, s>> \in fetched
      BY <2>3 DEF Cloning!Registers, Cloning!IInv, Cloning!StageHasItsWork,
         Cloning!WrittenIsThere
    <3>2. RequestIsSound(s, [work[s] EXCEPT !.at = "answer"])
      BY <1>1, <3>1, RequestFacts DEF RequestIsSound, Cloning!SongWork
    <3>3. QED
      BY <3>2
  <2>4. CASE Cloning!Fails(s)
    <3>1. RequestIsSound(s, [work[s] EXCEPT !.at = "failed"])
      BY <2>4, RequestFacts DEF Cloning!Fails, RequestIsSound, Cloning!SongWork
    <3>2. QED
      BY <3>1
  <2>5. QED
    BY <2>1, <2>2, <2>3, <2>4
<1>5. QED
  BY <1>1, <1>3, <1>4, RequestKeeps

\* What writes an object, takes it back, or counts it.
LEMMA ObjectsKeep ==
    ASSUME Cloning!IInv, NEW s \in Tracks, Cloning!Puts(s) \/ Cloning!Refuses(s) \/ Cloning!Counts(s)
    PROVE Cloning!IInv'
<1>1. /\ lists' = lists /\ saved' = saved /\ masters' = masters /\ idMap' = idMap
      /\ fetchedRows' = fetchedRows /\ cloned' = cloned
  BY DEF Cloning!Puts, Cloning!Refuses, Cloning!Counts, Cloning!library
<1>2. NothingRegistered /\ SongsRest
  BY <1>1, RequestFacts DEF NothingRegistered, SongsRest
<1>3. /\ work[s].at \in {"put", "answer"} /\ work[s].id \in Cloning!Ids /\ run.at = "audio" /\ s \notin run.done
      /\ work[s].at = "answer" => <<work[s].id, s>> \in fetched
  BY DEF Cloning!Puts, Cloning!Refuses, Cloning!Counts, Cloning!IInv,
     Cloning!StageHasItsWork, Cloning!WrittenIsThere
<1>4. CASE Cloning!Puts(s)
  <2>1. run' = run /\ fetched' = fetched \cup {<<work[s].id, s>>}
    BY <1>4 DEF Cloning!Puts
  <2>2. RequestIsSound(s, [work[s] EXCEPT !.at = "register"])
    BY <1>3, <1>4, <2>1, RequestFacts DEF Cloning!Puts, RequestIsSound, Cloning!SongWork
  <2>3. PageRests /\ ObjectsAreSound(s)
    BY <1>1, <1>3, <2>1, RequestFacts DEF PageRests, SamePlace, ObjectsAreSound
  <2>4. QED
    BY <1>2, <1>3, <2>2, <2>3, RequestKeeps
<1>5. CASE Cloning!Refuses(s)
  <2>1. run' = run /\ fetched' = fetched \ {<<work[s].id, s>>}
    BY <1>5 DEF Cloning!Refuses
  <2>2. RequestIsSound(s, [work[s] EXCEPT !.at = "failed"])
    BY <1>3, <1>5, RequestFacts DEF Cloning!Refuses, RequestIsSound, Cloning!SongWork
  <2>3. PageRests /\ ObjectsAreSound(s)
    BY <1>1, <1>3, <2>1, RequestFacts DEF PageRests, SamePlace, ObjectsAreSound
  <2>4. QED
    BY <1>2, <1>3, <2>2, <2>3, RequestKeeps
<1>6. CASE Cloning!Counts(s)
  <2>1. fetched' = fetched /\ <<work[s].id, s>> \in fetched
    BY <1>3, <1>6 DEF Cloning!Counts, Cloning!library
  <2>2. RequestIsSound(s, [work[s] EXCEPT !.at = "ok"])
    BY <1>3, <1>6, RequestFacts DEF Cloning!Counts, RequestIsSound, Cloning!SongWork
  <2>3. run' = [run EXCEPT !.done = run.done \cup {s}] /\ run \in Cloning!Pages
    BY <1>6, RequestFacts DEF Cloning!Counts
  <2>4. run' \in Cloning!Pages /\ run'.at = run.at /\ run'.done = run.done \cup {s}
    <3>1. run.done \cup {s} \in SUBSET Tracks
      BY <2>3 DEF Cloning!Pages
    <3>2. QED
      BY <2>3, <3>1 DEF Cloning!Pages
  <2>5. PageRests
    <3>1. SamePlace
      BY <2>3 DEF Cloning!Pages, SamePlace
    <3>2. QED
      BY <1>1, <2>4, <3>1 DEF PageRests
  <2>6. fetched \in SUBSET (Cloning!Ids \X Tracks)
    BY RequestFacts
  <2>7. ObjectsAreSound(s)
    BY <1>3, <2>1, <2>4, <2>6 DEF ObjectsAreSound
  <2>8. QED
    BY <1>2, <1>3, <2>2, <2>5, <2>7, RequestKeeps
<1>7. QED
  BY <1>4, <1>5, <1>6

-----------------------------------------------------------------------------
\* The lists.  What touches nothing but them and the page.
OnlyLists ==
    /\ masters' \in SUBSET Cloning!Ids /\ idMap' \in [Tracks -> Cloning!Ids \cup {None}]
    /\ fetched' = fetched /\ fetchedRows' = fetchedRows /\ cloned' = cloned /\ work' = work /\ saved' = saved
    /\ lists' \in [Cloning!ListIds -> Cloning!Lists \cup {None}] /\ run' \in Cloning!Pages /\ run'.done = run.done
    /\ run'.at # run.at => run.at = "lists" /\ run'.at = "failed"

LEMMA ListsKeep == ASSUME Cloning!IInv, OnlyLists, Cloning!TargetComesFirst', Cloning!ListHolds' PROVE Cloning!IInv'
<1>1. Cloning!TypeOK'
  BY CloneSorts DEF OnlyLists, Cloning!IInv, Cloning!TypeOK
<1>2. Cloning!StageHasItsWork' /\ Cloning!WrittenIsThere' /\ Cloning!SavedIsKnown' /\ Cloning!NothingIsRegistered'
  BY CloneSorts DEF OnlyLists, Cloning!IInv, Cloning!StageHasItsWork,
     Cloning!WrittenIsThere, Cloning!SavedIsKnown,
     Cloning!NothingIsRegistered
<1>3. Cloning!SkippedHaveArrived'
  BY CloneSorts DEF OnlyLists, Cloning!IInv, Cloning!SkippedHaveArrived
<1>4. QED
  BY <1>1, <1>2, <1>3 DEF Cloning!IInv

\* The user renames a list: a run holds to its songs.
LEMMA RenamesKeep == ASSUME Cloning!IInv, NEW l \in Cloning!ListIds, Cloning!Renames(l) PROVE Cloning!IInv'
<1>1. lists \in [Cloning!ListIds -> Cloning!Lists \cup {None}] /\ run \in Cloning!Pages /\ None \notin Cloning!Lists
  BY StorageAssumption DEF Cloning!IInv, Cloning!TypeOK
<1>2. lists[l] \in Cloning!Lists
  BY <1>1 DEF Cloning!Renames
<1>3. PICK name \in Cloning!Names : lists' = [lists EXCEPT ![l].name = name]
  BY DEF Cloning!Renames
<1>4. PICK list : list = [lists[l] EXCEPT !.name = name]
  OBVIOUS
<1>5. list \in Cloning!Lists /\ list.songs = lists[l].songs /\ list.count = lists[l].count
  BY <1>2, <1>4 DEF Cloning!Lists
<1>6. lists' = [lists EXCEPT ![l] = list]
  BY <1>3, <1>4
<1>7. /\ lists' \in [Cloning!ListIds -> Cloning!Lists \cup {None}] /\ lists'[l] = list
      /\ \A q \in Cloning!ListIds \ {l} : lists'[q] = lists[q]
  BY <1>1, <1>5, <1>6
<1>8. run' = run
  BY DEF Cloning!Renames
<1>9. OnlyLists
  BY <1>1, <1>7, <1>8 DEF Cloning!Renames, Cloning!IInv, Cloning!TypeOK, OnlyLists
<1>10. Cloning!TargetComesFirst'
  BY <1>8 DEF Cloning!IInv, Cloning!TargetComesFirst
<1>11. Cloning!ListHolds'
  <2>1. ASSUME run.target \in Cloning!ListIds, lists[run.target] # None, lists[run.target].songs = run.sent,
               lists[run.target].count = Len(run.sent)
        PROVE lists'[run.target] # None /\ lists'[run.target].songs = run.sent /\ lists'[run.target].count = Len(run.sent)
    BY <1>1, <1>5, <1>7, <2>1
  <2>2. run.target # None => run.target \in Cloning!ListIds
    BY <1>1 DEF Cloning!Pages
  <2>3. QED
    BY <1>8, <2>1, <2>2 DEF Cloning!IInv, Cloning!ListHolds
<1>12. QED
  BY <1>9, <1>10, <1>11, ListsKeep

\* A song that is merged away gives its places to the other, in the lists and in what was sent.
Replaced(seq, s, keep) == [i \in DOMAIN seq |-> IF seq[i] = s THEN keep ELSE seq[i]]

LEMMA ReplacedIsAList ==
    ASSUME NEW S, NEW seq \in Seq(S), NEW s, NEW keep \in S
    PROVE Replaced(seq, s, keep) \in Seq(S) /\ Len(Replaced(seq, s, keep)) = Len(seq)
<1>1. Len(seq) \in Nat /\ DOMAIN seq = 1 .. Len(seq) /\ \A i \in 1 .. Len(seq) : seq[i] \in S
  OBVIOUS
<1>2. Replaced(seq, s, keep) \in [1 .. Len(seq) -> S]
  BY <1>1, Zenon DEF Replaced
<1>3. QED
  BY <1>1, <1>2

LEMMA MergesKeep == ASSUME Cloning!IInv, NEW s \in Tracks, Cloning!Merges(s) PROVE Cloning!IInv'
<1> DEFINE keep == Match[s]
           Told(list) == [list EXCEPT !.songs = Replaced(list.songs, s, keep)]
<1>1. /\ lists \in [Cloning!ListIds -> Cloning!Lists \cup {None}] /\ run \in Cloning!Pages /\ None \notin Cloning!Lists
      /\ keep \in Cloning!Ids /\ masters \in SUBSET Cloning!Ids /\ idMap \in [Tracks -> Cloning!Ids \cup {None}]
  BY StorageAssumption, RequestFacts DEF Cloning!IInv, Cloning!TypeOK
<1>2. ASSUME NEW list \in Cloning!Lists
      PROVE /\ Told(list) \in Cloning!Lists /\ Told(list) # None
            /\ Told(list).songs = Replaced(list.songs, s, keep) /\ Told(list).count = list.count
  <2>1. Replaced(list.songs, s, keep) \in Seq(Cloning!Ids)
    BY <1>1, ReplacedIsAList DEF Cloning!Lists
  <2>2. QED
    BY <1>1, <2>1 DEF Cloning!Lists
<1>3. lists' = [l \in Cloning!ListIds |-> IF lists[l] = None THEN None ELSE Told(lists[l])]
  BY DEF Cloning!Merges, Replaced
<1> HIDE DEF Told
<1>4. lists' \in [Cloning!ListIds -> Cloning!Lists \cup {None}]
  BY <1>1, <1>2, <1>3
<1>5. run' = [run EXCEPT !.sent = Replaced(run.sent, s, keep)]
  BY DEF Cloning!Merges, Replaced
<1>6. run.sent \in Seq(Cloning!Ids) /\ Replaced(run.sent, s, keep) \in Seq(Cloning!Ids) /\ Len(Replaced(run.sent, s, keep)) = Len(run.sent)
  BY <1>1, ReplacedIsAList DEF Cloning!Pages
<1>7. /\ run' \in Cloning!Pages /\ run'.sent = Replaced(run.sent, s, keep) /\ run'.at = run.at /\ run'.done = run.done
      /\ run'.chunk = run.chunk /\ run'.target = run.target /\ run'.stray = run.stray
  BY <1>1, <1>5, <1>6 DEF Cloning!Pages
<1>8. masters' \in SUBSET Cloning!Ids /\ idMap' \in [Tracks -> Cloning!Ids \cup {None}]
  BY <1>1 DEF Cloning!Merges
<1>9. OnlyLists
  BY <1>4, <1>7, <1>8 DEF Cloning!Merges, OnlyLists
<1>10. Cloning!TargetComesFirst'
  <2>1. run.sent = <<>> => Replaced(run.sent, s, keep) = <<>>
    BY <1>6
  <2>2. QED
    BY <1>7, <2>1 DEF Cloning!IInv, Cloning!TargetComesFirst
<1>11. Cloning!ListHolds'
  <2>1. ASSUME run.target \in Cloning!ListIds, lists[run.target] # None, lists[run.target].songs = run.sent,
               lists[run.target].count = Len(run.sent)
        PROVE lists'[run.target] # None /\ lists'[run.target].songs = run'.sent /\ lists'[run.target].count = Len(run'.sent)
    <3>1. lists[run.target] \in Cloning!Lists /\ lists'[run.target] = Told(lists[run.target])
      BY <1>1, <1>3, <2>1
    <3>2. QED
      BY <1>2, <1>6, <1>7, <2>1, <3>1
  <2>2. run.target # None => run.target \in Cloning!ListIds
    BY <1>1 DEF Cloning!Pages
  <2>3. QED
    BY <1>7, <2>1, <2>2 DEF Cloning!IInv, Cloning!ListHolds
<1>12. QED
  BY <1>9, <1>10, <1>11, ListsKeep

\* The list a chunk goes to is there, or may be made: it is free, bears the name, or is this clone's own.
LEMMA Targets ==
    ASSUME Cloning!IInv, Cloning!TargetOf # None
    PROVE /\ Cloning!TargetOf \in Cloning!ListIds
          /\ run.chunk > 1 => lists[Cloning!TargetOf] # None
          /\ lists[Cloning!TargetOf] = None \/ lists[Cloning!TargetOf].name = "theirs" \/ Cloning!TargetOf = "hashed"
<1> DEFINE asked == IF run.target = None THEN "remote" ELSE run.target
           only == CHOOSE l \in Cloning!SameName : TRUE
<1>1. Cloning!Cardinality(Cloning!SameName) = 1 => only \in Cloning!SameName
  BY OnlyMember
<1>2. only \in Cloning!SameName => only \in Cloning!ListIds /\ lists[only] # None /\ lists[only].name = "theirs"
  BY DEF Cloning!SameName
<1>3. asked \in Cloning!ListIds /\ "hashed" \in Cloning!ListIds
  BY DEF Cloning!IInv, Cloning!TypeOK, Cloning!Pages, Cloning!ListIds
<1>4. run.chunk \in Nat
  BY StorageAssumption DEF Cloning!IInv, Cloning!TypeOK, Cloning!Pages
<1> HIDE DEF only
<1>5. CASE run.chunk > 1
  <2>1. Cloning!TargetOf = IF lists[asked] # None /\ lists[asked].name = "theirs" THEN asked
                           ELSE IF Cloning!Cardinality(Cloning!SameName) = 1 THEN only ELSE None
    BY <1>5 DEF Cloning!TargetOf, only
  <2>2. QED
    BY <1>1, <1>2, <1>3, <2>1
<1>6. CASE ~(run.chunk > 1)
  <2>1. Cloning!TargetOf = IF Cloning!Cardinality(Cloning!SameName) = 1 THEN only
                           ELSE IF lists[asked] = None \/ lists[asked].name = "theirs" THEN asked ELSE "hashed"
    BY <1>6 DEF Cloning!TargetOf, only
  <2>2. QED
    BY <1>1, <1>2, <1>3, <1>6, <2>1
<1>7. QED
  BY <1>5, <1>6

\* Another list stays as it is.
LEMMA NamedListsStay == Cloning!IInv => Cloning!OthersStay
<1> SUFFICES ASSUME Cloning!IInv, NEW l \in Cloning!ListIds \ {"hashed"}, Cloning!SendsChunk \/ Cloning!ChunkFails,
                    lists[l] # None, lists[l].name # "theirs"
             PROVE lists'[l] = lists[l]
  BY DEF Cloning!OthersStay
<1>1. lists \in [Cloning!ListIds -> Cloning!Lists \cup {None}]
  BY DEF Cloning!IInv, Cloning!TypeOK
<1>2. ASSUME NEW q, q # l PROVE Cloning!Cleared(q)[l] = lists[l] /\ Cloning!Extended(q)[l] = lists[l] /\ Cloning!Counted(q)[l] = lists[l]
  <2>1. Cloning!Cleared(q)[l] = lists[l] /\ l \in DOMAIN Cloning!Cleared(q)
    BY <1>1, <1>2 DEF Cloning!Cleared
  <2>2. Cloning!Extended(q)[l] = lists[l] /\ l \in DOMAIN Cloning!Extended(q)
    BY <1>2, <2>1 DEF Cloning!Extended
  <2>3. Cloning!Counted(q)[l] = lists[l]
    BY <1>2, <2>2 DEF Cloning!Counted
  <2>4. QED
    BY <2>1, <2>2, <2>3
<1>3. Cloning!TargetOf = None => lists' = lists
  BY DEF Cloning!SendsChunk, Cloning!ChunkFails
<1>4. Cloning!TargetOf # None => lists' \in {lists, Cloning!Cleared(Cloning!TargetOf), Cloning!Extended(Cloning!TargetOf), Cloning!Counted(Cloning!TargetOf)}
  BY DEF Cloning!SendsChunk, Cloning!ChunkFails
<1>5. Cloning!TargetOf # None => Cloning!TargetOf # l
  BY Targets
<1>6. QED
  BY <1>2, <1>3, <1>4, <1>5

\* What a chunk makes of its list.
LEMMA Chunks ==
    ASSUME Cloning!IInv, Cloning!Sending, NEW l \in Cloning!ListIds, run.chunk > 1 => lists[l] # None,
           NEW told, told = Cloning!Matched(Upstream[run.chunk])
    PROVE /\ told \in Seq(Cloning!Ids)
          /\ Cloning!Cleared(l) \in [Cloning!ListIds -> Cloning!Lists \cup {None}]
          /\ Cloning!Extended(l) \in [Cloning!ListIds -> Cloning!Lists \cup {None}]
          /\ Cloning!Counted(l) \in [Cloning!ListIds -> Cloning!Lists \cup {None}]
          /\ Cloning!Counted(l)[l] # None
          /\ Cloning!Counted(l)[l].songs = (IF run.chunk = 1 THEN <<>> ELSE lists[l].songs) \o told
          /\ Cloning!Counted(l)[l].count = Len(Cloning!Counted(l)[l].songs)
<1>1. /\ lists \in [Cloning!ListIds -> Cloning!Lists \cup {None}] /\ None \notin Cloning!Lists /\ Len(Upstream) \in Nat
      /\ run.chunk \in 1 .. Len(Upstream) /\ run.chunk \in Nat
  BY StorageAssumption DEF Cloning!IInv, Cloning!TypeOK, Cloning!Pages, Cloning!Sending
<1>2. told \in Seq(Cloning!Ids)
  <2>1. Upstream[run.chunk] \in Seq(Tracks)
    <3>1. Upstream \in Seq(Seq(Tracks)) /\ run.chunk \in 1 .. Len(Upstream)
      BY <1>1, StorageAssumption
    <3>2. QED
      BY <3>1, ElementOfSeq
  <2>2. QED
    BY <2>1, MatchedIsAList DEF Cloning!IInv
<1>3. Cloning!NewList("theirs") \in Cloning!Lists /\ Cloning!NewList("theirs").songs = <<>>
  BY DEF Cloning!NewList, Cloning!Lists, Cloning!Names
<1>4. PICK c : c = Cloning!Cleared(l)
  OBVIOUS
<1>5. /\ c \in [Cloning!ListIds -> Cloning!Lists \cup {None}] /\ c[l] \in Cloning!Lists
      /\ c[l].songs = IF run.chunk = 1 THEN <<>> ELSE lists[l].songs
  <2>1. CASE run.chunk = 1
    <3>1. c = [lists EXCEPT ![l] = Cloning!NewList("theirs")]
      BY <1>4, <2>1 DEF Cloning!Cleared
    <3>2. QED
      BY <1>1, <1>3, <2>1, <3>1
  <2>2. CASE run.chunk # 1
    <3>1. c = lists
      BY <1>4, <2>2 DEF Cloning!Cleared
    <3>2. QED
      BY <1>1, <2>2, <3>1
  <2>3. QED
    BY <2>1, <2>2
<1>6. c[l].songs \o told \in Seq(Cloning!Ids) /\ Len(c[l].songs \o told) \in Nat
  <2>1. c[l].songs \in Seq(Cloning!Ids)
    BY <1>5 DEF Cloning!Lists
  <2>2. c[l].songs \o told \in Seq(Cloning!Ids)
    BY <1>2, <2>1, ConcatProperties
  <2>3. PICK both \in Seq(Cloning!Ids) : both = c[l].songs \o told
    BY <2>2
  <2>4. Len(both) \in Nat
    OBVIOUS
  <2>5. QED
    BY <2>3, <2>4
<1>7. PICK e : e = Cloning!Extended(l)
  OBVIOUS
<1>8. e = [c EXCEPT ![l] = [c[l] EXCEPT !.songs = c[l].songs \o told]]
  BY <1>4, <1>7 DEF Cloning!Extended
<1>9. [c[l] EXCEPT !.songs = c[l].songs \o told] \in Cloning!Lists /\ [c[l] EXCEPT !.songs = c[l].songs \o told].songs = c[l].songs \o told
  BY <1>5, <1>6 DEF Cloning!Lists
<1>10. e \in [Cloning!ListIds -> Cloning!Lists \cup {None}] /\ e[l] \in Cloning!Lists /\ e[l].songs = c[l].songs \o told
  BY <1>5, <1>8, <1>9
<1>11. Cloning!Counted(l) = [e EXCEPT ![l] = [e[l] EXCEPT !.count = Len(e[l].songs)]]
  BY <1>7 DEF Cloning!Counted
<1>12. /\ [e[l] EXCEPT !.count = Len(e[l].songs)] \in Cloning!Lists /\ [e[l] EXCEPT !.count = Len(e[l].songs)].songs = e[l].songs
       /\ [e[l] EXCEPT !.count = Len(e[l].songs)].count = Len(e[l].songs)
  BY <1>6, <1>10 DEF Cloning!Lists
<1>13. /\ Cloning!Counted(l) \in [Cloning!ListIds -> Cloning!Lists \cup {None}] /\ Cloning!Counted(l)[l] \in Cloning!Lists
       /\ Cloning!Counted(l)[l].songs = c[l].songs \o told
       /\ Cloning!Counted(l)[l].count = Len(Cloning!Counted(l)[l].songs)
  BY <1>10, <1>11, <1>12
<1>14. Cloning!Counted(l)[l] # None
  BY <1>1, <1>13
<1>15. QED
  BY <1>2, <1>4, <1>5, <1>7, <1>10, <1>13, <1>14

LEMMA SendsKeep == ASSUME Cloning!IInv, Cloning!SendsChunk PROVE Cloning!IInv'
<1> DEFINE l == Cloning!TargetOf
<1>1. Cloning!Sending /\ l # None /\ lists' = Cloning!Counted(l) /\ run \in Cloning!Pages
  BY DEF Cloning!SendsChunk, Cloning!IInv, Cloning!TypeOK
<1>2. PICK told : told = Cloning!Matched(Upstream[run.chunk])
  OBVIOUS
<1>3. l \in Cloning!ListIds /\ (run.chunk > 1 => lists[l] # None)
  BY <1>1, Targets
<1> HIDE DEF l
<1>4. /\ told \in Seq(Cloning!Ids) /\ lists' \in [Cloning!ListIds -> Cloning!Lists \cup {None}] /\ lists'[l] # None
      /\ lists'[l].songs = (IF run.chunk = 1 THEN <<>> ELSE lists[l].songs) \o told
      /\ lists'[l].count = Len(lists'[l].songs)
  BY <1>1, <1>2, <1>3, Chunks
<1>5. PICK stray \in BOOLEAN : stray <=> run.stray \/ (run.chunk > 1 /\ l # run.target)
  OBVIOUS
<1>6. run' = [run EXCEPT !.chunk = run.chunk + 1, !.target = l, !.sent = run.sent \o told, !.stray = stray]
  BY <1>1, <1>2, <1>5 DEF Cloning!SendsChunk, Cloning!Pages, l
<1>7. run.sent \in Seq(Cloning!Ids) /\ run.sent \o told \in Seq(Cloning!Ids)
  BY <1>1, <1>4, ConcatProperties DEF Cloning!Pages
<1>8. run.chunk + 1 \in 1 .. Len(Upstream) + 1 /\ run.chunk \in Nat /\ run.chunk >= 1
  BY <1>1, StorageAssumption DEF Cloning!Pages, Cloning!Sending
<1>9. /\ run' \in Cloning!Pages /\ run'.at = run.at /\ run'.done = run.done /\ run'.chunk = run.chunk + 1 /\ run'.target = l
      /\ run'.sent = run.sent \o told /\ run'.stray = stray
  BY <1>1, <1>3, <1>6, <1>7, <1>8 DEF Cloning!Pages
<1>10. OnlyLists
  BY <1>4, <1>9 DEF Cloning!SendsChunk, OnlyLists, Cloning!IInv, Cloning!TypeOK
<1>11. Cloning!TargetComesFirst'
  BY <1>1, <1>8, <1>9 DEF Cloning!TargetComesFirst, Cloning!Sending
<1>12. Cloning!ListHolds'
  <2>1. ASSUME ~stray PROVE lists'[l].songs = run.sent \o told
    <3>1. CASE run.chunk = 1
      BY <1>4, <3>1 DEF Cloning!IInv, Cloning!TargetComesFirst
    <3>2. CASE run.chunk # 1
      <4>1. l = run.target /\ ~run.stray /\ run.target # None
        BY <1>1, <1>5, <1>8, <2>1, <3>2
      <4>2. lists[l].songs = run.sent
        BY <1>1, <4>1 DEF Cloning!IInv, Cloning!ListHolds, Cloning!Sending
      <4>3. QED
        BY <1>4, <3>2, <4>2
    <3>3. QED
      BY <3>1, <3>2
  <2>2. QED
    BY <1>4, <1>9, <2>1 DEF Cloning!ListHolds
<1>13. QED
  BY <1>10, <1>11, <1>12, ListsKeep

LEMMA FailuresKeep == ASSUME Cloning!IInv, Cloning!ChunkFails PROVE Cloning!IInv'
<1>1. Cloning!Sending /\ run \in Cloning!Pages /\ lists \in [Cloning!ListIds -> Cloning!Lists \cup {None}]
  BY DEF Cloning!ChunkFails, Cloning!IInv, Cloning!TypeOK
<1>2. run' = [run EXCEPT !.at = "failed"]
  BY DEF Cloning!ChunkFails
<1>3. /\ run' \in Cloning!Pages /\ run'.at = "failed" /\ run'.done = run.done /\ run'.chunk = run.chunk /\ run'.target = run.target
      /\ run'.sent = run.sent /\ run'.stray = run.stray
  BY <1>1, <1>2 DEF Cloning!Pages
<1>4. lists' \in [Cloning!ListIds -> Cloning!Lists \cup {None}]
  <2>1. CASE Cloning!TargetOf = None
    BY <1>1, <2>1 DEF Cloning!ChunkFails
  <2>2. CASE Cloning!TargetOf # None
    <3>1. lists' \in {lists, Cloning!Cleared(Cloning!TargetOf), Cloning!Extended(Cloning!TargetOf), Cloning!Counted(Cloning!TargetOf)}
      BY <2>2 DEF Cloning!ChunkFails
    <3>2. QED
      BY <1>1, <2>2, <3>1, Targets, Chunks
  <2>3. QED
    BY <2>1, <2>2
<1>5. OnlyLists
  BY <1>1, <1>3, <1>4 DEF Cloning!ChunkFails, OnlyLists, Cloning!IInv, Cloning!TypeOK,
     Cloning!Sending
<1>6. Cloning!TargetComesFirst' /\ Cloning!ListHolds'
  BY <1>3 DEF Cloning!IInv, Cloning!TargetComesFirst, Cloning!ListHolds
<1>7. QED
  BY <1>5, <1>6, ListsKeep

LEMMA CloneStep == Cloning!IInv /\ (Cloning!Next \/ UNCHANGED cloneVars) => Cloning!IInv'
<1> SUFFICES ASSUME Cloning!IInv, Cloning!Next \/ UNCHANGED cloneVars PROVE Cloning!IInv'
  OBVIOUS
<1>1. CASE Cloning!Starts \/ Cloning!PingFails \/ Cloning!Ends \/ Cloning!Reloads
  BY <1>1, PageStarts
<1>2. CASE Cloning!MetadataEnds \/ Cloning!ListingFails \/ Cloning!AudioEnds
  BY <1>2, StagesEnd
<1>3. CASE Cloning!cancelClone \/ Cloning!Flushes \/ Cloning!clearCloneCache
  BY <1>3, PageNotes
<1>4. ASSUME NEW s \in Tracks,
             \/ Cloning!Resolves(s) \/ Cloning!Inserts(s) \/ Cloning!saveCloneIdMap(s)
             \/ Cloning!Skips(s) \/ Cloning!LooksUp(s) \/ Cloning!Puts(s) \/ Cloning!Refuses(s) \/ Cloning!Registers(s)
             \/ Cloning!Counts(s) \/ Cloning!Fails(s) \/ Cloning!Merges(s)
      PROVE Cloning!IInv'
  BY <1>4, MetadataKeeps, AudioKeeps, ObjectsKeep, MergesKeep
<1>5. CASE Cloning!SendsChunk \/ Cloning!ChunkFails
  BY <1>5, SendsKeep, FailuresKeep
<1>6. ASSUME NEW l \in Cloning!ListIds, Cloning!Renames(l) PROVE Cloning!IInv'
  BY <1>6, RenamesKeep
<1>7. CASE UNCHANGED cloneVars
  <2>1. LibraryRests /\ run' = run /\ work' = work /\ saved' = saved
    BY <1>7 DEF cloneVars, LibraryRests
  <2>2. run' \in Cloning!Pages /\ PlaceIsSound /\ WorkIsSound /\ CacheIsSound
    BY <2>1 DEF Cloning!IInv, Cloning!TypeOK, Cloning!StageHasItsWork, Cloning!SavedIsKnown,
       Cloning!Pages,
       PlaceIsSound, SamePlace, WorkIsSound, CacheIsSound
  <2>3. QED
    BY <2>1, <2>2, PageKeeps
<1>8. QED
  BY <1>1, <1>2, <1>3, <1>4, <1>5, <1>6, <1>7 DEF Cloning!Next

\* Cloning keeps its promises: what a later run skips has arrived, each list holds what
\* was sent, and no list of another name is written to.
THEOREM CloningIsFaithful == StorageSpec => [](part = "clone" => Cloning!TypeOK) /\ ClonesAreTrue
<1>1. StorageInit => Cloning!IInv
  BY CloneStart DEF StorageInit
<1>2. Cloning!IInv /\ [StorageNext]_storageVars => Cloning!IInv'
  <2>1. [StorageNext]_storageVars => Cloning!Next \/ UNCHANGED cloneVars
    BY DEF StorageNext, storageVars, cloneVars
  <2>2. QED
    BY <2>1, CloneStep
<1>3. /\ Cloning!IInv => (part = "clone" => Cloning!TypeOK)
      /\ Cloning!IInv => (part = "clone" => Cloning!SkippedHaveArrived /\ Cloning!ListsArrive)
  BY DEF Cloning!IInv, Cloning!ListHolds, Cloning!ListsArrive
<1>4. Cloning!IInv /\ [StorageNext]_storageVars => [part = "clone" => Cloning!OthersStay]_storageVars
  BY NamedListsStay
<1>5. QED
  BY <1>1, <1>2, <1>3, <1>4, PTL DEF StorageSpec, ClonesAreTrue
=============================================================================
