----------------------------- MODULE MCMetadata ------------------------------
(***************************************************************************)
(* What must happen in the end to tags, on small instances of the two      *)
(* components that write them: what an upload brings with it, and what the *)
(* metadata sources know of a song.  They do not interact here: part says  *)
(* which one a behaviour is about, and the other rests.                    *)
(***************************************************************************)
EXTENDS UploadMetadata

CONSTANTS Requests, MaxEdits, MaxTries  \* of MetadataRetrieval

VARIABLES part, song, object, review, applies, mishaps, mixed

Retrieval == INSTANCE MetadataRetrieval WITH task <- review, apply <- applies, faults <- mishaps

retrievalVars == <<song, object, review, applies, mishaps, mixed>>
metadataVars == <<part, inPlace, bytes, inst, covered, marker, task, up, direct, apply, enq, job, older, faults,
                  song, object, review, applies, mishaps, mixed>>

MetadataInit ==
    /\ part \in {"upload", "retrieval"}
    /\ Init /\ Retrieval!Init
    /\ part = "retrieval" /\ TRUE \in Storages => inPlace

MetadataNext ==
    /\ UNCHANGED part
    /\ IF part = "upload" THEN Next ELSE UNCHANGED vars
    /\ IF part = "retrieval" THEN Retrieval!Next ELSE UNCHANGED retrievalVars

MetadataSpec == MetadataInit /\ [][MetadataNext]_metadataVars

\* The fairness of either module.
MetadataLiveSpec ==
    /\ MetadataSpec
    /\ \A n \in Gens : /\ WF_vars(part = "upload" /\ UploadStep(n) /\ Aging)
                       /\ WF_vars(part = "upload" /\ DirectStep(n) /\ Aging)
    /\ \A k \in -1..MaxUploads : WF_vars(part = "upload" /\ EnqueueStep(k) /\ Aging)
    /\ WF_vars(part = "upload" /\ TaskSteps /\ Aging) /\ WF_vars(part = "upload" /\ ApplySteps /\ Aging)
    /\ WF_vars(part = "upload" /\ JobSteps /\ Aging) /\ WF_vars(part = "upload" /\ SweepLease /\ Aging)
    /\ \A r \in Requests : /\ WF_retrievalVars(part = "retrieval" /\ Retrieval!Applies(r) /\ Retrieval!Mixes)
                           /\ WF_retrievalVars(part = "retrieval" /\ Retrieval!Reviews(r) /\ Retrieval!Mixes)
                           /\ SF_retrievalVars(part = "retrieval" /\ Retrieval!RecoverReads(r) /\ Retrieval!Mixes)
                           /\ SF_retrievalVars(part = "retrieval" /\ Retrieval!Settles(r) /\ Retrieval!Mixes
                                                                  /\ review' # review)
    /\ WF_retrievalVars(part = "retrieval" /\ Retrieval!LeaseEnds /\ Retrieval!Mixes)

-----------------------------------------------------------------------------
\* A file that was uploaded gets its tags, and a stored result of the metadata
\* sources is applied, refused or put before an administrator, whatever died on the
\* way (uploadMetadata.ts; workMetadataRetrieval.ts: recoverPendingRetrievalApplies).
TagsArrive ==
    /\ part = "upload" => EveryUploadIsParsed
    /\ part = "retrieval" => Retrieval!ResultsSettle
=============================================================================
