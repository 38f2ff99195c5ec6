------------------------------- MODULE HotCache --------------------------------
(***************************************************************************)
(* The R2 copies of one WebDAV source.  The first play of a file starts a  *)
(* background copy: it claims the song's cache row, evicts what is expired *)
(* and what the budget has no room for, fetches the file, stores it and    *)
(* shows the row.  Nothing joins the row (D1) and the object (R2) in one   *)
(* transaction, copies of several plays and the sweep of the cron tick run *)
(* at once, and every await may throw or be the last one of its isolate.   *)
(*                                                                         *)
(* A row's expiry is a flag, dead, that time sets.  Victims are taken in   *)
(* any order: last_accessed_at, which orders them, is not modelled, nor    *)
(* are the catalogue rows of registerR2Object, which no step here reads.   *)
(* A file is served with the length the catalogue has for it.              *)
(***************************************************************************)
EXTENDS Integers, FiniteSets, FiniteSetsExt

CONSTANTS
    Songs,      \* master ids: one cache row each
    Instances,  \* files of the source: one object key each
    SongOf,     \* the song an instance is a file of
    Size,       \* bytes of an instance
    Budget,     \* budgetBytes of the source's tier
    MaxFile,    \* maxFileBytes of the tier
    Writers,    \* background copies
    Sweepers,   \* cron ticks
    Faults,     \* what may go wrong: "throw", "refuse", "keep", "die"
    MaxFaults,  \* bound: how often
    None

ASSUME CacheAssumption ==
    /\ SongOf \in [Instances -> Songs]
    /\ Size \in [Instances -> Nat]
    /\ Budget \in Nat /\ MaxFile \in Nat
    /\ Writers \cap Sweepers = {}
    /\ Faults \subseteq {"throw", "refuse", "keep", "die"} /\ MaxFaults \in Nat
    /\ None \notin Songs \cup Instances

VARIABLES
    rows,    \* the 'cached' row of each song, or None
    bucket,  \* instances whose object is in R2
    proc,    \* where each copy and each sweep stands
    failed,  \* how often each kind of fault has happened
    overlap  \* history: two of the processes have been under way at once

vars == <<rows, bucket, proc, failed, overlap>>

Procs == Writers \cup Sweepers

Row == [key : Instances, missing : BOOLEAN, dead : BOOLEAN, size : Nat]

Cached == [song : Songs, key : Instances, size : Nat]

Idle == [pc |-> "idle", inst |-> None, phase |-> "ttl", list |-> {}, victim |-> None, used |-> 0]

TypeOK ==
    /\ rows \in [Songs -> Row \cup {None}]
    /\ bucket \subseteq Instances
    /\ failed \in [Faults -> 0..MaxFaults] /\ overlap \in BOOLEAN
    /\ \A p \in Procs :
         /\ proc[p].pc \in {"idle", "expired", "purge", "unlink", "measure", "candidates",
                            "fetch", "put", "finish", "undo", "unclaim"}
         /\ proc[p].inst \in Instances \cup {None}
         /\ proc[p].phase \in {"ttl", "room"}
         /\ proc[p].list \subseteq Cached
         /\ proc[p].victim \in Cached \cup {None}

Init ==
    /\ rows = [s \in Songs |-> None]
    /\ bucket = {}
    /\ proc = [p \in Procs |-> Idle]
    /\ failed = [kind \in Faults |-> 0] /\ overlap = FALSE
-----------------------------------------------------------------------------
Taken(s) == rows[s] # None
Live(s) == Taken(s) /\ ~rows[s].missing

\* What a SELECT of the rows of songs S returns: it is stale from here on.
Select(S) == {[song |-> s, key |-> rows[s].key, size |-> rows[s].size] : s \in S}

Usage == MapThenSumSet(LAMBDA s : rows[s].size, {s \in Songs : Live(s)})

HasRoom(p, used) == used + Size[proc[p].inst] <= Budget

Goto(p, pc) == proc' = [proc EXCEPT ![p].pc = pc]
Return(p) == proc' = [proc EXCEPT ![p] = Idle]

Fault(kind) ==
    /\ kind \in Faults
    /\ MapThenSumSet(LAMBDA k : failed[k], Faults) < MaxFaults
    /\ failed' = [failed EXCEPT ![kind] = @ + 1]

\* A failed deletion of an object goes unnoticed: .catch(() => {}).
Remove(key) ==
    \/ bucket' = bucket \ {key} /\ UNCHANGED failed
    \/ Fault("keep") /\ UNCHANGED bucket

\* DELETE ... WHERE id = ? AND missing = 1
Unclaimed(s) == IF Taken(s) /\ rows[s].missing THEN [rows EXCEPT ![s] = None] ELSE rows

\* INSERT OR IGNORE: the row's id depends on the song alone.
Claim(w, i) ==
    /\ proc[w].pc = "idle"
    /\ ~Taken(SongOf[i])
    /\ rows' = [rows EXCEPT ![SongOf[i]] = [key |-> i, missing |-> TRUE, dead |-> FALSE, size |-> Size[i]]]
    /\ proc' = [proc EXCEPT ![w] = [Idle EXCEPT !.pc = "expired", !.inst = i]]
    /\ UNCHANGED <<bucket, failed>>

Sweep(p) ==
    /\ p \in Sweepers
    /\ proc[p].pc = "idle"
    /\ \E s \in Songs : Live(s) /\ rows[s].dead
    /\ Goto(p, "expired")
    /\ UNCHANGED <<rows, bucket, failed>>

\* Mutation: the sweep lists what is still good.
ExpirableYoung == {s \in Songs : Live(s) /\ ~rows[s].dead}

Expirable == {s \in Songs : Live(s) /\ rows[s].dead}

ListExpired(p) ==
    /\ proc[p].pc = "expired"
    /\ proc' = [proc EXCEPT ![p].pc = "purge", ![p].phase = "ttl", ![p].list = Select(Expirable)]
    /\ UNCHANGED <<rows, bucket, failed>>

Measure(p) ==
    /\ proc[p].pc = "measure"
    /\ proc' = [proc EXCEPT ![p].used = Usage,
                            ![p].pc = IF HasRoom(p, Usage) THEN "fetch" ELSE "candidates"]
    /\ UNCHANGED <<rows, bucket, failed>>

ListCandidates(p) ==
    /\ proc[p].pc = "candidates"
    /\ proc' = [proc EXCEPT ![p].pc = "purge", ![p].phase = "room",
                            ![p].list = Select({s \in Songs : Live(s)})]
    /\ UNCHANGED <<rows, bucket, failed>>

Enough(p) == proc[p].list = {} \/ (proc[p].phase = "room" /\ HasRoom(p, proc[p].used))

\* deleteCachedRow, first half: the object named by the stale list goes.
DeleteObject(p) ==
    /\ proc[p].pc = "purge"
    /\ ~Enough(p)
    /\ \E c \in proc[p].list :
         /\ Remove(c.key)
         /\ proc' = [proc EXCEPT ![p].pc = "unlink", ![p].victim = c]
    /\ UNCHANGED rows

\* deleteCachedRow, second half: whatever row the song has by now goes.
DeleteRow(p) ==
    /\ proc[p].pc = "unlink"
    /\ LET c == proc[p].victim IN
         /\ rows' = [rows EXCEPT ![c.song] = None]
         /\ proc' = [proc EXCEPT ![p].pc = "purge", ![p].victim = None, ![p].list = @ \ {c},
                                 ![p].used = IF proc[p].phase = "room" THEN @ - c.size ELSE @]
    /\ UNCHANGED <<bucket, failed>>

Purged(p) ==
    /\ proc[p].pc = "purge"
    /\ Enough(p)
    /\ \/ p \in Sweepers /\ Return(p)
       \/ /\ p \in Writers
          /\ proc' = [proc EXCEPT ![p].pc = IF proc[p].phase = "ttl" THEN "measure" ELSE "fetch", ![p].list = {}]
    /\ UNCHANGED <<rows, bucket, failed>>

\* Mutation: the row is shown before the bytes are there.
FetchShows(w) ==
    /\ proc[w].pc = "fetch"
    /\ Goto(w, "finish")
    /\ UNCHANGED <<rows, bucket, failed>>

\* The claim is given up for a file the tier does not take, and for a response
\* with an error or without a length.
Fetch(w) ==
    /\ proc[w].pc = "fetch"
    /\ IF Size[proc[w].inst] > MaxFile
       THEN rows' = Unclaimed(SongOf[proc[w].inst]) /\ Return(w) /\ UNCHANGED failed
       ELSE \/ Goto(w, "put") /\ UNCHANGED <<rows, failed>>
            \/ rows' = Unclaimed(SongOf[proc[w].inst]) /\ Return(w) /\ Fault("refuse")
    /\ UNCHANGED bucket

Put(w) ==
    /\ proc[w].pc = "put"
    /\ bucket' = bucket \cup {proc[w].inst}
    /\ Goto(w, "finish")
    /\ UNCHANGED <<rows, failed>>

\* Mutation: the row is shown without its storage_uri and size.
FinishLoses(w) ==
    /\ proc[w].pc = "finish"
    /\ rows' = [rows EXCEPT ![SongOf[proc[w].inst]] = [key |-> None, missing |-> FALSE, dead |-> FALSE, size |-> 0]]
    /\ Return(w)
    /\ UNCHANGED <<bucket, failed>>

\* UPDATE ... WHERE id = ?: whatever row the song has by now is shown.
Finish(w) ==
    /\ proc[w].pc = "finish"
    /\ LET i == proc[w].inst IN
         rows' = IF Taken(SongOf[i])
                 THEN [rows EXCEPT ![SongOf[i]] = [key |-> i, missing |-> FALSE, dead |-> FALSE, size |-> Size[i]]]
                 ELSE rows
    /\ Return(w)
    /\ UNCHANGED <<bucket, failed>>

\* Mutation: the catch branch leaves the object.
UndoKeepsObject(w) ==
    /\ proc[w].pc = "undo"
    /\ Goto(w, "unclaim")
    /\ UNCHANGED <<rows, bucket, failed>>

\* The catch branch.
Undo(w) ==
    /\ proc[w].pc = "undo"
    /\ Remove(proc[w].inst)
    /\ Goto(w, "unclaim")
    /\ UNCHANGED rows

\* Mutation: the catch branch starts over as long as there is a claim.
UnclaimRepeats(w) ==
    /\ proc[w].pc = "unclaim"
    /\ Goto(w, "undo")
    /\ UNCHANGED <<rows, bucket, failed>>

Unclaim(w) ==
    /\ proc[w].pc = "unclaim"
    /\ rows' = Unclaimed(SongOf[proc[w].inst])
    /\ Return(w)
    /\ UNCHANGED <<bucket, failed>>

\* A statement, the fetch or the put throws; a sweep is left where it is.
Throw(p) ==
    /\ Fault("throw")
    /\ proc[p].pc \notin {"idle", "undo", "unclaim"}
    /\ IF p \in Writers
       THEN proc' = [proc EXCEPT ![p] = [Idle EXCEPT !.pc = "undo", !.inst = proc[p].inst]]
       ELSE Return(p)
    /\ UNCHANGED <<rows, bucket>>

\* The isolate ends, waitUntil or not; or the catch branch's own DELETE throws.
Die(p) ==
    /\ Fault("die")
    /\ proc[p].pc # "idle"
    /\ Return(p)
    /\ UNCHANGED <<rows, bucket>>

\* expires_at passes.
Expire(s) ==
    /\ Live(s) /\ ~rows[s].dead
    /\ rows' = [rows EXCEPT ![s].dead = TRUE]
    /\ UNCHANGED <<bucket, proc, failed>>

Step(p) ==
    \/ ListExpired(p) \/ Measure(p) \/ ListCandidates(p)
    \/ DeleteObject(p) \/ DeleteRow(p) \/ Purged(p)
    \/ Fetch(p) \/ Put(p) \/ Finish(p) \/ Undo(p) \/ Unclaim(p)

Watch == overlap' = (overlap \/ Cardinality({p \in Procs : proc'[p].pc # "idle"}) > 1)

Next ==
    /\ \/ \E w \in Writers, i \in Instances : Claim(w, i)
       \/ \E p \in Procs : Sweep(p) \/ Step(p) \/ Throw(p) \/ Die(p)
       \/ \E s \in Songs : Expire(s)
    /\ Watch

Spec == Init /\ [][Next]_vars

\* The runtime runs what it has started, and the cron tick comes again.
LiveSpec == Spec /\ \A p \in Procs : WF_vars(Step(p) /\ Watch) /\ WF_vars(Sweep(p) /\ Watch)
-----------------------------------------------------------------------------
(* Properties.  Each says under which circumstances it holds: README names the
   behaviours that refute it under others. *)

Never(kinds) == \A kind \in kinds \cap Faults : failed[kind] = 0

\* Unless two processes have overlapped, the shown copies of a source stay within
\* its byte budget, whatever fails (cacheTiers.ts:20).
WithinBudget == ~overlap => Usage <= Budget

\* When nothing is under way every stored object is the one a shown row names,
\* unless processes overlapped, an isolate died or a deletion failed unnoticed:
\* whichever await throws, no bytes are kept that neither the budget counts nor the
\* TTL reaches (cacheTiers.ts:31, the catch branch of doHotCache).
BytesAccounted ==
    ~overlap /\ Never({"keep", "die"}) /\ (\A p \in Procs : proc[p].pc = "idle") =>
        \A i \in bucket : Live(SongOf[i]) /\ rows[SongOf[i]].key = i

\* As long as nothing fails a row the selector may play has its object, or somebody
\* is between the two halves of its eviction or about to store the object again,
\* however evictions from stale lists overlap (hotcache.ts:61, deleteCachedRow);
\* but for songs with several files, whose copies share the row and not the object.
PlayableHasBytes ==
    Never({"throw", "refuse", "keep", "die"}) =>
        \A s \in Songs : Live(s) /\ Cardinality({i \in Instances : SongOf[i] = s}) = 1 =>
            \/ rows[s].key \in bucket
            \/ \E p \in Procs : proc[p].pc = "unlink" /\ proc[p].victim.song = s
            \/ \E w \in Writers : proc[w].inst = rows[s].key

\* Unless an isolate dies or the catch branch itself fails no claim hides a song's
\* copy for ever: it is shown or given up (doHotCache's three ways out).
ClaimsResolve ==
    \A s \in Songs : Taken(s) /\ rows[s].missing ~> ~Never({"die"}) \/ ~(Taken(s) /\ rows[s].missing)

\* A copy past its TTL goes, plays or no plays, whatever fails
\* (maybeRunCacheEviction).
ExpiredGoes == \A s \in Songs : Live(s) /\ rows[s].dead ~> ~(Live(s) /\ rows[s].dead)
=============================================================================
