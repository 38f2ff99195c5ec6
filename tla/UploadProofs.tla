---------------------------- MODULE UploadProofs -------------------------------
(***************************************************************************)
(* The tags of an uploaded file (UploadMetadata, an instance of MCRecords) *)
(* for every number of uploads and of faults: whoever writes bytes or tags *)
(* holds the lease alone, the marker of a file that waits for its tags     *)
(* stays, and tags that count as parsed are those of the bytes unless one  *)
(* of two races is run.  Then what all five parts of the records promise.  *)
(***************************************************************************)
EXTENDS RecordsProofs

\* The numbers of uploads.
LEMMA GensFacts ==
    /\ MaxUploads \in Nat /\ Uploads!Gens \subseteq Nat /\ 1 \in Uploads!Gens /\ 0 \notin Uploads!Gens /\ Uploads!Lease \notin Uploads!Gens /\ Uploads!Lease \in Int
    /\ 0 \in 0..MaxUploads /\ Uploads!Gens \subseteq Int /\ \A g \in 0..MaxUploads : g # 0 => g \in Uploads!Gens
BY RecordsAssumption DEF Uploads!Gens, Uploads!Lease

\* What each variable holds.
LEMMA FileFacts ==
    ASSUME Uploads!IInv
    PROVE  /\ inPlace \in BOOLEAN /\ bytes \in 0..MaxUploads
           /\ inst # None => /\ inst \in Uploads!Instance /\ inst.uri \in Uploads!Gens /\ inst.scanned \in BOOLEAN
                             /\ bytes \in Uploads!Gens
           /\ marker # None => /\ marker \in Uploads!Marker /\ marker.status \in {"claimed", "canceled", "completed"}
                               /\ marker.uri \in Uploads!Gens /\ marker.nonce \in Uploads!Gens \cup {Uploads!Lease}
<1>1. inPlace \in BOOLEAN /\ bytes \in 0..MaxUploads
  BY RecordsAssumption DEF Uploads!IInv, Uploads!TypeOK
<1>2. ASSUME inst # None
      PROVE  inst \in Uploads!Instance /\ inst.uri \in Uploads!Gens /\ inst.scanned \in BOOLEAN /\ bytes \in Uploads!Gens
  <2>1. inst \in Uploads!Instance
    BY <1>2 DEF Uploads!IInv, Uploads!TypeOK
  <2>2. inst.uri \in Uploads!Gens /\ inst.scanned \in BOOLEAN
    BY <2>1 DEF Uploads!Instance
  <2>3. bytes # 0
    BY <1>2 DEF Uploads!IInv, Uploads!MarkerInOrder
  <2>4. QED
    BY <1>1, <2>1, <2>2, <2>3, GensFacts
<1>3. ASSUME marker # None
      PROVE  /\ marker \in Uploads!Marker /\ marker.status \in {"claimed", "canceled", "completed"}
             /\ marker.uri \in Uploads!Gens /\ marker.nonce \in Uploads!Gens \cup {Uploads!Lease}
  <2>1. marker \in Uploads!Marker
    BY <1>3 DEF Uploads!IInv, Uploads!TypeOK
  <2>2. marker.status \in {"claimed", "canceled", "completed"} /\ marker.uri \in Uploads!Gens
    BY <2>1 DEF Uploads!Marker
  <2>3. marker.nonce \in Uploads!Gens \cup {Uploads!Lease}
    BY <1>3 DEF Uploads!IInv, Uploads!MarkerInOrder
  <2>4. QED
    BY <2>1, <2>2, <2>3
<1>4. QED
  BY <1>1, <1>2, <1>3

LEMMA HandlerFacts ==
    ASSUME Uploads!IInv
    PROVE  /\ up \in [Uploads!Gens -> Uploads!Upload] /\ direct \in [Uploads!Gens -> Uploads!Direct]
           /\ \A g \in Uploads!Gens : /\ up[g] \in Uploads!Upload /\ up[g].kind \in Kinds \cup {None} /\ up[g].seen \in Uploads!Gens \cup {0}
                                      /\ direct[g] \in Uploads!Direct
<1>1. up \in [Uploads!Gens -> Uploads!Upload] /\ direct \in [Uploads!Gens -> Uploads!Direct]
  BY DEF Uploads!IInv, Uploads!TypeOK
<1>2. ASSUME NEW g \in Uploads!Gens
      PROVE  up[g] \in Uploads!Upload /\ direct[g] \in Uploads!Direct /\ up[g].kind \in Kinds \cup {None} /\ up[g].seen \in Uploads!Gens \cup {0}
  BY <1>1 DEF Uploads!Upload
<1>3. QED
  BY <1>1, <1>2

LEMMA QueueFacts ==
    ASSUME Uploads!IInv
    PROVE  /\ task # None => /\ task \in Uploads!Task /\ task.nonce \in 0..MaxUploads /\ task.read \in 0..MaxUploads
                             /\ task.uri \in Uploads!Gens /\ inst # None
           /\ apply # None => /\ apply \in Uploads!Apply /\ apply.nonce \in 0..MaxUploads /\ apply.gen \in Uploads!Gens
                              /\ apply.uri \in Uploads!Gens /\ task # None
           /\ enq \in [-1..MaxUploads -> Uploads!Enqueue \cup {None}]
           /\ \A k \in -1..MaxUploads : enq[k] # None =>
                  /\ enq[k] \in Uploads!Enqueue /\ enq[k].uri \in Uploads!Gens /\ enq[k].nonce \in 0..MaxUploads
                  /\ enq[k].attempt \in 0..1 /\ inst # None
           /\ job # None => job \in Uploads!AtMarker /\ job.uri \in Uploads!Gens /\ job.to \in Uploads!Gens \cup {0} /\ job.drop \in BOOLEAN
                            /\ inst # None
<1>1. task # None => /\ task \in Uploads!Task /\ task.nonce \in 0..MaxUploads /\ task.read \in 0..MaxUploads
                     /\ task.uri \in Uploads!Gens /\ inst # None
  <2>1. task # None => task \in Uploads!Task /\ inst # None
    BY DEF Uploads!IInv, Uploads!TypeOK, Uploads!NothingBefore
  <2>2. QED
    BY <2>1 DEF Uploads!Task
<1>2. apply # None => /\ apply \in Uploads!Apply /\ apply.nonce \in 0..MaxUploads /\ apply.gen \in Uploads!Gens
                      /\ apply.uri \in Uploads!Gens /\ task # None
  <2>1. apply # None => apply \in Uploads!Apply /\ task # None
    BY DEF Uploads!IInv, Uploads!TypeOK
  <2>2. QED
    BY <2>1 DEF Uploads!Apply
<1>3. enq \in [-1..MaxUploads -> Uploads!Enqueue \cup {None}]
  BY DEF Uploads!IInv, Uploads!TypeOK
<1>4. ASSUME NEW k \in -1..MaxUploads, enq[k] # None
      PROVE  /\ enq[k] \in Uploads!Enqueue /\ enq[k].uri \in Uploads!Gens /\ enq[k].nonce \in 0..MaxUploads
             /\ enq[k].attempt \in 0..1 /\ inst # None
  <2>1. enq[k] \in Uploads!Enqueue /\ inst # None
    BY <1>3, <1>4 DEF Uploads!IInv, Uploads!NothingBefore
  <2>2. QED
    BY <2>1 DEF Uploads!Enqueue
<1>5. job # None => job \in Uploads!AtMarker /\ job.uri \in Uploads!Gens /\ job.to \in Uploads!Gens \cup {0} /\ job.drop \in BOOLEAN /\ inst # None
  <2>1. job # None => job \in Uploads!AtMarker /\ inst # None
    BY DEF Uploads!IInv, Uploads!TypeOK, Uploads!NothingBefore
  <2>2. QED
    BY <2>1 DEF Uploads!AtMarker
<1>6. QED
  BY <1>1, <1>2, <1>3, <1>4, <1>5

\* The record of a marker.
LEMMA MarkerIs ==
    ASSUME NEW status \in {"claimed", "canceled", "completed"}, NEW uri \in Uploads!Gens, NEW nonce \in Uploads!Gens \cup {Uploads!Lease}
    PROVE  /\ [status |-> status, uri |-> uri, nonce |-> nonce] \in Uploads!Marker
           /\ [status |-> status, uri |-> uri, nonce |-> nonce] # None
<1>1. [status |-> status, uri |-> uri, nonce |-> nonce] \in Uploads!Marker
  BY GensFacts DEF Uploads!Marker
<1>2. QED
  BY <1>1, RecordsAssumption

LEMMA PlacesAre ==
    ASSUME Uploads!IInv
    PROVE  /\ \A g \in Uploads!Gens : Uploads!Uri(g) \in Uploads!Gens /\ (inPlace => Uploads!Uri(g) = 1) /\ (~inPlace => Uploads!Uri(g) = g)
           /\ apply # None => /\ Uploads!LeaseNonce \in Uploads!Gens \cup {Uploads!Lease}
                              /\ (apply.nonce = 0 => Uploads!LeaseNonce = Uploads!Lease) /\ (apply.nonce # 0 => Uploads!LeaseNonce = apply.nonce)
BY GensFacts, QueueFacts DEF Uploads!Uri, Uploads!LeaseNonce

\* Nobody holds a lease that is free.
LEMMA LeaseFree ==
    ASSUME Uploads!IInv, marker = None \/ marker.status # "claimed"
    PROVE  /\ \A g \in Uploads!Gens : up[g].phase \notin Uploads!Holding /\ ~Uploads!DirectHolds(g)
           /\ ~Uploads!ApplyHolds
<1>1. \A uri \in Uploads!Gens, nonce \in Uploads!Gens \cup {Uploads!Lease} : ~Uploads!IsMarker("claimed", uri, nonce)
  BY MarkerIs DEF Uploads!IsMarker
<1>2. ASSUME NEW g \in Uploads!Gens PROVE up[g].phase \notin Uploads!Holding /\ ~Uploads!DirectHolds(g)
  BY <1>1, PlacesAre DEF Uploads!IInv, Uploads!UploadInOrder, Uploads!DirectInOrder
<1>3. ASSUME Uploads!ApplyHolds PROVE FALSE
  BY <1>1, <1>3, PlacesAre, QueueFacts DEF Uploads!IInv, Uploads!ApplyInOrder,
     Uploads!ApplyHolds
<1>4. QED
  BY <1>2, <1>3

\* And one that is not has one holder.
LEMMA MarkerFields ==
    ASSUME NEW status \in {"claimed", "canceled", "completed"}, NEW uri \in Uploads!Gens, NEW nonce \in Uploads!Gens \cup {Uploads!Lease},
           Uploads!IsMarker(status, uri, nonce)
    PROVE  marker # None /\ marker.status = status /\ marker.uri = uri /\ marker.nonce = nonce
BY MarkerIs DEF Uploads!IsMarker

LEMMA UploadAlone ==
    ASSUME Uploads!IInv, NEW g \in Uploads!Gens, up[g].phase \in Uploads!Holding
    PROVE  /\ marker # None /\ marker.status = "claimed" /\ marker.uri = Uploads!Uri(g) /\ marker.nonce = g
           /\ \A k \in Uploads!Gens : k # g => up[k].phase \notin Uploads!Holding
           /\ \A k \in Uploads!Gens : ~Uploads!DirectHolds(k)
           /\ ~Uploads!ApplyHolds
<1>1. marker # None /\ marker.status = "claimed" /\ marker.uri = Uploads!Uri(g) /\ marker.nonce = g
  <2>1. Uploads!IsMarker("claimed", Uploads!Uri(g), g)
    BY DEF Uploads!IInv, Uploads!UploadInOrder
  <2>2. QED
    BY <2>1, PlacesAre, MarkerFields
<1>2. ASSUME NEW k \in Uploads!Gens, k # g, up[k].phase \in Uploads!Holding PROVE FALSE
  <2>1. Uploads!IsMarker("claimed", Uploads!Uri(k), k)
    BY <1>2 DEF Uploads!IInv, Uploads!UploadInOrder
  <2>2. QED
    BY <1>1, <1>2, <2>1, PlacesAre, MarkerFields
<1>3. up[g].phase \notin Uploads!Past
  BY DEF Uploads!Holding, Uploads!Past
<1>4. ASSUME NEW k \in Uploads!Gens, Uploads!DirectHolds(k) PROVE FALSE
  <2>1. Uploads!IsMarker("claimed", Uploads!Uri(k), k) /\ up[k].phase \in Uploads!Past
    BY <1>4 DEF Uploads!IInv, Uploads!DirectInOrder, Uploads!DirectHolds, Uploads!Past
  <2>2. QED
    BY <1>1, <1>3, <2>1, PlacesAre, MarkerFields
<1>5. ASSUME Uploads!ApplyHolds PROVE FALSE
  <2>1. Uploads!IsMarker("claimed", apply.uri, Uploads!LeaseNonce) /\ apply # None /\ apply.nonce = task.nonce
    BY <1>5 DEF Uploads!IInv, Uploads!ApplyInOrder, Uploads!ApplyHolds
  <2>2. Uploads!LeaseNonce = g
    BY <1>1, <2>1, QueueFacts, PlacesAre, MarkerFields
  <2>3. task.nonce = g /\ task # None /\ g # 0
    BY <2>1, <2>2, PlacesAre, GensFacts, QueueFacts
  <2>4. QED
    BY <1>3, <2>3 DEF Uploads!IInv, Uploads!TaskInOrder
<1>6. QED
  BY <1>1, <1>2, <1>4, <1>5

LEMMA DirectAlone ==
    ASSUME Uploads!IInv, NEW g \in Uploads!Gens, Uploads!DirectHolds(g)
    PROVE  /\ marker # None /\ marker.status = "claimed" /\ marker.uri = Uploads!Uri(g) /\ marker.nonce = g
           /\ \A k \in Uploads!Gens : up[k].phase \notin Uploads!Holding
           /\ \A k \in Uploads!Gens : k # g => ~Uploads!DirectHolds(k)
           /\ ~Uploads!ApplyHolds
<1>1. Uploads!IsMarker("claimed", Uploads!Uri(g), g) /\ ~Uploads!ApplyHolds
  BY DEF Uploads!IInv, Uploads!DirectInOrder
<1>2. marker # None /\ marker.status = "claimed" /\ marker.uri = Uploads!Uri(g) /\ marker.nonce = g
  BY <1>1, PlacesAre, MarkerFields
<1>3. ASSUME NEW k \in Uploads!Gens, k # g, Uploads!DirectHolds(k) PROVE FALSE
  <2>1. Uploads!IsMarker("claimed", Uploads!Uri(k), k)
    BY <1>3 DEF Uploads!IInv, Uploads!DirectInOrder
  <2>2. QED
    BY <1>2, <1>3, <2>1, PlacesAre, MarkerFields
<1>4. QED
  BY <1>1, <1>2, <1>3, UploadAlone

LEMMA ApplyAlone ==
    ASSUME Uploads!IInv, Uploads!ApplyHolds
    PROVE  /\ marker # None /\ marker.status = "claimed" /\ marker.uri = apply.uri /\ marker.nonce = Uploads!LeaseNonce
           /\ \A k \in Uploads!Gens : up[k].phase \notin Uploads!Holding /\ ~Uploads!DirectHolds(k)
<1>1. Uploads!IsMarker("claimed", apply.uri, Uploads!LeaseNonce) /\ apply # None
  BY DEF Uploads!IInv, Uploads!ApplyInOrder, Uploads!ApplyHolds
<1>2. marker # None /\ marker.status = "claimed" /\ marker.uri = apply.uri /\ marker.nonce = Uploads!LeaseNonce
  BY <1>1, PlacesAre, MarkerFields, QueueFacts
<1>3. QED
  BY <1>2, UploadAlone, DirectAlone

\* Uploads that have let go of the lease, or have it, do not go back.
UploadsGoOn ==
    \A g \in Uploads!Gens : /\ up[g].phase \in Uploads!Past => up'[g].phase \in Uploads!Past
                            /\ up[g].phase \in Uploads!Holding => up'[g].phase \in Uploads!Holding \cup Uploads!Past

\* A marker gets the nonce of an upload only from it.
MarkerGoesOn ==
    marker' # None /\ marker'.nonce \in Uploads!Gens =>
        (marker # None /\ marker'.nonce = marker.nonce) \/ up[marker'.nonce].phase \notin Uploads!Past

\* Afterwards the marker is that of an upload that has not let go of it.
IsUploads == marker' # None /\ marker'.nonce \in Uploads!Gens /\ up[marker'.nonce].phase \notin Uploads!Past

LEMMA UploadStays ==
    ASSUME Uploads!IInv, NEW g \in Uploads!Gens, up'[g] = up[g], inPlace' = inPlace,
           up[g].phase \in Uploads!Holding => marker' = marker /\ inst' = inst,
           g = 1 /\ up[g].phase \in {"idle", "create"} => inst' = inst
    PROVE  Uploads!UploadInOrder(g)'
<1>1. {"write", "register", "release"} \subseteq Uploads!Holding
  BY DEF Uploads!Holding
<1>2. Uploads!UploadInOrder(g)
  BY DEF Uploads!IInv
<1>3. Uploads!Uri(g)' = Uploads!Uri(g)
  BY DEF Uploads!Uri
<1>4. up[g].phase \in Uploads!Holding => Uploads!IsMarker("claimed", Uploads!Uri(g), g)'
  BY <1>2, <1>3 DEF Uploads!UploadInOrder, Uploads!IsMarker
<1>5. QED
  BY <1>1, <1>2, <1>4 DEF Uploads!UploadInOrder

LEMMA DirectStays ==
    ASSUME Uploads!IInv, NEW g \in Uploads!Gens, direct'[g] = direct[g], direct[g].phase # "none" => up'[g] = up[g], inPlace' = inPlace,
           Uploads!DirectHolds(g) => marker' = marker /\ ~Uploads!ApplyHolds' /\ inst'.uri = inst.uri
    PROVE  Uploads!DirectInOrder(g)'
<1>1. Uploads!DirectInOrder(g)
  BY DEF Uploads!IInv
<1>2. Uploads!Uri(g)' = Uploads!Uri(g) /\ Uploads!DirectHolds(g)' = Uploads!DirectHolds(g)
  BY DEF Uploads!Uri, Uploads!DirectHolds
<1>3. Uploads!DirectHolds(g) => Uploads!IsMarker("claimed", Uploads!Uri(g), g)'
  BY <1>1, <1>2 DEF Uploads!DirectInOrder, Uploads!IsMarker
<1>4. direct[g].phase = "sure" => Uploads!DirectHolds(g)
  BY DEF Uploads!DirectHolds
<1>5. QED
  BY <1>1, <1>2, <1>3, <1>4 DEF Uploads!DirectInOrder

LEMMA EnqueueStays ==
    ASSUME Uploads!IInv, NEW k \in -1..MaxUploads, enq'[k] = enq[k] \/ enq'[k] = None, UploadsGoOn, task # None => task' # None
    PROVE  Uploads!EnqueueInOrder(k)'
<1>1. enq[k] # None => Uploads!EnqueueInOrder(k) /\ (enq[k].nonce # 0 => enq[k].nonce \in Uploads!Gens)
  BY QueueFacts, GensFacts DEF Uploads!IInv
<1>2. ASSUME enq'[k] # None
      PROVE  /\ enq[k].nonce # 0 => up'[enq[k].nonce].phase \in Uploads!Past
             /\ enq[k].phase \in {"refresh", "reread"} => task' # None
  <2>1. enq'[k] = enq[k] /\ enq[k] # None
    BY <1>2
  <2>2. enq[k].nonce # 0 => up[enq[k].nonce].phase \in Uploads!Past /\ enq[k].nonce \in Uploads!Gens
    BY <1>1, <2>1 DEF Uploads!EnqueueInOrder
  <2>3. enq[k].phase \in {"refresh", "reread"} => task' # None
    BY <1>1, <2>1 DEF Uploads!EnqueueInOrder
  <2>4. QED
    BY <2>2, <2>3 DEF UploadsGoOn
<1>3. QED
  BY <1>2 DEF Uploads!EnqueueInOrder

LEMMA JobStays ==
    ASSUME Uploads!IInv, job' = job \/ job' = None, UploadsGoOn, MarkerGoesOn,
           job # None /\ inst.scanned => inst'.scanned \/ IsUploads
    PROVE  Uploads!JobInOrder'
<1>1. Uploads!JobInOrder
  BY DEF Uploads!IInv
<1>2. CASE job' = None
  BY <1>2 DEF Uploads!JobInOrder
<1>3. ASSUME job' = job, job # None
      PROVE  /\ job.nonce = Uploads!Lease \/ (job.nonce \in Uploads!Gens /\ up'[job.nonce].phase \in Uploads!Past)
             /\ job.drop /\ job.nonce \in Uploads!Gens /\ marker' # None /\ marker'.nonce = job.nonce => inst'.scanned
  <2>1. job.nonce = Uploads!Lease \/ (job.nonce \in Uploads!Gens /\ up[job.nonce].phase \in Uploads!Past /\ up'[job.nonce].phase \in Uploads!Past)
    BY <1>1, <1>3 DEF Uploads!JobInOrder, UploadsGoOn
  <2>2. ASSUME job.drop, job.nonce \in Uploads!Gens, marker' # None, marker'.nonce = job.nonce PROVE inst'.scanned
    <3>1. marker # None /\ marker.nonce = job.nonce /\ ~IsUploads
      BY <2>1, <2>2, GensFacts DEF MarkerGoesOn, IsUploads
    <3>2. inst.scanned
      BY <1>1, <1>3, <2>2, <3>1 DEF Uploads!JobInOrder
    <3>3. QED
      BY <1>3, <3>1, <3>2
  <2>3. QED
    BY <2>1, <2>2
<1>4. CASE job' = job /\ job # None
  BY <1>1, <1>3, <1>4 DEF Uploads!JobInOrder
<1>5. QED
  BY <1>2, <1>4

LEMMA TaskStays ==
    ASSUME Uploads!IInv, task' = task, UploadsGoOn, MarkerGoesOn,
           task # None => Uploads!Content(inst.uri)' = Uploads!Content(inst.uri) \/ (Uploads!Content(inst.uri)' # 1 /\ IsUploads)
    PROVE  Uploads!TaskInOrder'
<1>1. Uploads!TaskInOrder /\ (task # None /\ task.nonce # 0 => task.nonce \in Uploads!Gens)
  BY QueueFacts, GensFacts DEF Uploads!IInv
<1>2. SUFFICES ASSUME task # None
               PROVE  /\ task.nonce # 0 => up'[task.nonce].phase \in Uploads!Past
                      /\ task.read # 0 /\ Uploads!Content(inst.uri)' = 1 => task.read = 1
                      /\ task.read # 0 /\ task.nonce # 0 /\ marker' # None /\ marker'.nonce = task.nonce =>
                             task.read = Uploads!Content(inst.uri)'
  BY <1>1 DEF Uploads!TaskInOrder
<1>3. task.nonce # 0 => task.nonce \in Uploads!Gens /\ up[task.nonce].phase \in Uploads!Past /\ up'[task.nonce].phase \in Uploads!Past
  BY <1>1, <1>2 DEF Uploads!TaskInOrder, UploadsGoOn
<1>4. task.read # 0 /\ Uploads!Content(inst.uri)' = 1 => task.read = 1
  BY <1>1, <1>2 DEF Uploads!TaskInOrder
<1>5. ASSUME task.read # 0, task.nonce # 0, marker' # None, marker'.nonce = task.nonce
      PROVE  task.read = Uploads!Content(inst.uri)'
  <2>1. marker # None /\ marker.nonce = task.nonce /\ ~IsUploads
    BY <1>3, <1>5 DEF MarkerGoesOn, IsUploads
  <2>2. task.read = Uploads!Content(inst.uri)
    BY <1>1, <1>2, <1>5, <2>1 DEF Uploads!TaskInOrder
  <2>3. QED
    BY <1>2, <2>1, <2>2
<1>6. QED
  BY <1>3, <1>4, <1>5

LEMMA ApplyStays ==
    ASSUME Uploads!IInv, apply' = apply \/ apply' = None, apply # None => task' = task, Uploads!ApplyHolds => marker' = marker
    PROVE  Uploads!ApplyInOrder'
<1>1. Uploads!ApplyInOrder
  BY DEF Uploads!IInv
<1>2. QED
  BY <1>1 DEF Uploads!ApplyInOrder, Uploads!ApplyHolds, Uploads!IsMarker, Uploads!LeaseNonce

LEMMA MarkerRests ==
    ASSUME Uploads!IInv, UploadsGoOn, inPlace' = inPlace, bytes' = bytes, inst' = inst, marker' = marker
    PROVE  Uploads!MarkerInOrder'
<1>1. Uploads!MarkerInOrder
  BY DEF Uploads!IInv
<1>2. Uploads!Content(inst.uri)' = Uploads!Content(inst.uri)
  BY DEF Uploads!Content
<1>3. marker # None => \/ marker.nonce = Uploads!Lease
                      \/ (marker.nonce \in Uploads!Gens /\ up'[marker.nonce].phase \in Uploads!Holding \cup Uploads!Past)
  BY <1>1 DEF Uploads!MarkerInOrder, UploadsGoOn
<1>4. QED
  BY <1>1, <1>2, <1>3 DEF Uploads!MarkerInOrder

LEMMA MarkerChanges ==
    ASSUME Uploads!IInv, inPlace' = inPlace, bytes' = bytes, inst' = inst,
           marker' # None => \/ marker'.nonce = Uploads!Lease
                             \/ (marker'.nonce \in Uploads!Gens /\ up'[marker'.nonce].phase \in Uploads!Holding \cup Uploads!Past),
           marker' = None \/ marker'.nonce = Uploads!Lease => marker = None \/ marker.nonce = Uploads!Lease \/ inst.scanned
    PROVE  Uploads!MarkerInOrder'
<1>1. Uploads!MarkerInOrder
  BY DEF Uploads!IInv
<1>2. QED
  BY <1>1 DEF Uploads!MarkerInOrder, Uploads!Content

LEMMA UploadTypes ==
    ASSUME Uploads!IInv, Uploads!Aging, bytes' \in 0..MaxUploads,
           inst' = inst \/ (inst' \in Uploads!Instance /\ (inst'.scanned => inst'.tags # None)),
           covered' = covered \/ covered' \in BOOLEAN,
           marker' = marker \/ marker' \in Uploads!Marker \cup {None},
           task' = task \/ (task' \in Uploads!Task /\ (task'.note # "null" => task'.status = "completed")),
           up' \in [Uploads!Gens -> Uploads!Upload], direct' \in [Uploads!Gens -> Uploads!Direct],
           (apply' = apply /\ task' = task) \/ apply' = None \/ (apply' \in Uploads!Apply /\ task' # None /\ task'.note = "applying"),
           enq' \in [-1..MaxUploads -> Uploads!Enqueue \cup {None}], job' = job \/ job' \in Uploads!AtMarker \cup {None},
           faults' \in 0..MaxFaults
    PROVE  Uploads!TypeOK'
<1>1. Uploads!TypeOK
  BY DEF Uploads!IInv
<1>2. inPlace' = inPlace /\ older' \subseteq Uploads!InFlight'
  BY DEF Uploads!Aging
<1>3. covered' \in BOOLEAN
  BY <1>1 DEF Uploads!TypeOK
<1>4. inst' \in Uploads!Instance \cup {None} /\ (inst' # None => (inst'.scanned => inst'.tags # None))
  BY <1>1 DEF Uploads!TypeOK
<1>5. task' \in Uploads!Task \cup {None} /\ (task' # None => (task'.note # "null" => task'.status = "completed"))
  BY <1>1 DEF Uploads!TypeOK
<1>6. apply' \in Uploads!Apply \cup {None} /\ (apply' # None => task' # None /\ task'.note = "applying")
  BY <1>1 DEF Uploads!TypeOK
<1>7. marker' \in Uploads!Marker \cup {None} /\ job' \in Uploads!AtMarker \cup {None} /\ inPlace' \in Storages
  BY <1>1, <1>2 DEF Uploads!TypeOK
<1>8. QED
  BY <1>2, <1>3, <1>4, <1>5, <1>6, <1>7 DEF Uploads!TypeOK

LEMMA Going ==
    ASSUME Uploads!IInv, NEW g \in Uploads!Gens,
           NEW phase \in {"idle", "create", "mark", "pend", "finish", "over"} \cup Uploads!Holding, Uploads!Goes(g, phase)
    PROVE  /\ up' \in [Uploads!Gens -> Uploads!Upload] /\ \A k \in Uploads!Gens : k # g => up'[k] = up[k]
           /\ up'[g].phase = phase /\ up'[g].kind = up[g].kind /\ up'[g].seen = up[g].seen
<1>1. up \in [Uploads!Gens -> Uploads!Upload] /\ up[g] \in Uploads!Upload
  BY HandlerFacts
<1>2. [up[g] EXCEPT !.phase = phase] \in Uploads!Upload
  BY <1>1 DEF Uploads!Upload
<1>3. up' = [up EXCEPT ![g] = [up[g] EXCEPT !.phase = phase]]
  BY <1>1 DEF Uploads!Goes
<1>4. up' \in [Uploads!Gens -> Uploads!Upload] /\ up'[g] = [up[g] EXCEPT !.phase = phase] /\ \A k \in Uploads!Gens : k # g => up'[k] = up[k]
  BY <1>1, <1>2, <1>3
<1>5. up'[g].phase = phase /\ up'[g].kind = up[g].kind /\ up'[g].seen = up[g].seen
  BY <1>1, <1>4 DEF Uploads!Upload
<1>6. QED
  BY <1>4, <1>5

LEMMA Submitting ==
    ASSUME Uploads!IInv, NEW g \in Uploads!Gens,
           NEW phase \in {"none", "granted", "checked", "held", "sure", "applied", "covered"}, Uploads!Submits(g, phase)
    PROVE  /\ direct' \in [Uploads!Gens -> Uploads!Direct] /\ \A k \in Uploads!Gens : k # g => direct'[k] = direct[k]
           /\ direct'[g].phase = phase
<1>1. direct \in [Uploads!Gens -> Uploads!Direct] /\ direct[g] \in Uploads!Direct
  BY HandlerFacts
<1>2. [direct[g] EXCEPT !.phase = phase] \in Uploads!Direct
  BY <1>1 DEF Uploads!Direct
<1>3. direct' = [direct EXCEPT ![g] = [direct[g] EXCEPT !.phase = phase]]
  BY <1>1 DEF Uploads!Submits
<1>4. direct' \in [Uploads!Gens -> Uploads!Direct] /\ direct'[g] = [direct[g] EXCEPT !.phase = phase] /\ \A k \in Uploads!Gens : k # g => direct'[k] = direct[k]
  BY <1>1, <1>2, <1>3
<1>5. direct'[g].phase = phase
  BY <1>1, <1>4 DEF Uploads!Direct
<1>6. QED
  BY <1>4, <1>5

LEMMA UploadsRest == ASSUME up' = up PROVE UploadsGoOn
BY DEF UploadsGoOn

LEMMA MarkerSame == ASSUME marker' = marker PROVE MarkerGoesOn
BY DEF MarkerGoesOn

\* The queue or an apply goes on, and leaves the file and the handlers alone.
LEMMA QueueMoves ==
    ASSUME Uploads!IInv, Uploads!Aging, inst # None, bytes' = bytes, inst' = inst, marker' = marker, up' = up, direct' = direct, job' = job,
           Uploads!TypeOK', Uploads!TaskInOrder', Uploads!ApplyInOrder', \A k \in -1..MaxUploads : Uploads!EnqueueInOrder(k)', Uploads!ApplyHolds' => Uploads!ApplyHolds
    PROVE  Uploads!IInv'
<1>1. inPlace' = inPlace
  BY DEF Uploads!Aging
<1>2. Uploads!NothingBefore'
  BY DEF Uploads!NothingBefore
<1>3. Uploads!MarkerInOrder'
  BY <1>1, MarkerRests, UploadsRest
<1>4. Uploads!JobInOrder'
  BY JobStays, UploadsRest, MarkerSame
<1>5. \A g \in Uploads!Gens : Uploads!UploadInOrder(g)'
  BY <1>1, UploadStays
<1>6. \A g \in Uploads!Gens : Uploads!DirectInOrder(g)'
  BY <1>1, DirectStays DEF Uploads!IInv, Uploads!DirectInOrder
<1>7. QED
  BY <1>2, <1>3, <1>4, <1>5, <1>6 DEF Uploads!IInv

\* The row of the task changes, and then nobody is applying it.
LEMMA TaskMoves ==
    ASSUME Uploads!IInv, Uploads!Aging, inst # None, UNCHANGED <<bytes, inst, marker, up, direct, job>>, covered' = covered,
           apply' = None, faults' \in 0..MaxFaults,
           task' \in Uploads!Task, task'.note # "null" => task'.status = "completed" /\ task'.read # 0,
           task'.nonce # 0 => up[task'.nonce].phase \in Uploads!Past,
           task'.status = "queued" => task'.read = 0,
           task'.read # 0 => task'.read = Uploads!Content(inst.uri) \/ (task # None /\ task'.read = task.read /\ task'.nonce = task.nonce),
           enq' \in [-1..MaxUploads -> Uploads!Enqueue \cup {None}],
           \A k \in -1..MaxUploads : Uploads!EnqueueInOrder(k)'
    PROVE  Uploads!IInv'
<1>1. inPlace' = inPlace /\ Uploads!Content(inst.uri)' = Uploads!Content(inst.uri)
  BY DEF Uploads!Aging, Uploads!Content
<1>2. Uploads!TypeOK'
  BY UploadTypes, HandlerFacts, FileFacts
<1>3. Uploads!ApplyInOrder' /\ (Uploads!ApplyHolds' => Uploads!ApplyHolds)
  BY DEF Uploads!ApplyInOrder, Uploads!ApplyHolds
<1>4. Uploads!TaskInOrder'
  <2>1. CASE task'.read = 0 \/ task'.read = Uploads!Content(inst.uri)
    BY <1>1, <2>1 DEF Uploads!TaskInOrder
  <2>2. CASE task # None /\ task'.read = task.read /\ task'.nonce = task.nonce
    BY <1>1, <2>2 DEF Uploads!IInv, Uploads!TaskInOrder
  <2>3. QED
    BY <2>1, <2>2
<1>5. QED
  BY <1>2, <1>3, <1>4, QueueMoves

\* The task in the queue: fields of the rows.
LEMMA TaskFields ==
    ASSUME NEW t \in Uploads!Task
    PROVE  /\ t.status \in {"queued", "claimed", "completed", "failed", "canceled"} /\ t.uri \in Uploads!Gens
           /\ t.nonce \in 0..MaxUploads /\ t.attempt \in 0..1 /\ t.read \in 0..MaxUploads
           /\ t.note \in {"null", "pending", "applying"}
BY DEF Uploads!Task

LEMMA TaskClaimedKeeps ==
    ASSUME Uploads!IInv, Uploads!Aging, Uploads!TaskClaimed
    PROVE  Uploads!IInv'
<1>1. task # None /\ task \in Uploads!Task /\ inst # None /\ task.status = "queued" /\ task.read = 0 /\ task.note = "null"
  BY QueueFacts, TaskFields DEF Uploads!TaskClaimed, Uploads!IInv, Uploads!TaskInOrder,
     Uploads!TypeOK
<1>2. task' = [task EXCEPT !.status = "claimed"] /\ [task EXCEPT !.status = "claimed"] \in Uploads!Task
  BY <1>1 DEF Uploads!TaskClaimed, Uploads!Task
<1>3. task' \in Uploads!Task /\ task'.read = 0 /\ task'.note = "null" /\ task'.nonce = task.nonce /\ task'.status = "claimed"
  BY <1>1, <1>2 DEF Uploads!Task
<1>4. apply = None
  BY <1>1 DEF Uploads!IInv, Uploads!TypeOK
<1>5. /\ bytes' = bytes /\ inst' = inst /\ marker' = marker /\ up' = up /\ direct' = direct /\ job' = job
      /\ apply' = apply /\ covered' = covered /\ enq' = enq /\ faults' = faults
  BY DEF Uploads!TaskClaimed
<1>6. \A k \in -1..MaxUploads : Uploads!EnqueueInOrder(k)'
  <2>1. task' # None
    BY <1>1, <1>2, RecordsAssumption
  <2>2. QED
    BY <1>5, <2>1, EnqueueStays, UploadsRest
<1>7. faults' \in 0..MaxFaults /\ enq' \in [-1..MaxUploads -> Uploads!Enqueue \cup {None}]
  BY <1>5 DEF Uploads!IInv, Uploads!TypeOK
<1>8. task'.nonce # 0 => up[task'.nonce].phase \in Uploads!Past
  BY <1>1, <1>3 DEF Uploads!IInv, Uploads!TaskInOrder
<1>9. QED
  BY <1>1, <1>3, <1>4, <1>5, <1>6, <1>7, <1>8, TaskMoves

LEMMA TaskReadsKeeps ==
    ASSUME Uploads!IInv, Uploads!Aging, Uploads!TaskReads
    PROVE  Uploads!IInv'
<1>1. task # None /\ task \in Uploads!Task /\ inst # None /\ task.status = "claimed" /\ task.note = "null"
  BY QueueFacts, TaskFields DEF Uploads!TaskReads, Uploads!IInv, Uploads!TypeOK
<1>2. Uploads!Content(inst.uri) \in Uploads!Gens
  BY <1>1, FileFacts DEF Uploads!Content
<1>3. task' = [task EXCEPT !.read = Uploads!Content(inst.uri)] /\ [task EXCEPT !.read = Uploads!Content(inst.uri)] \in Uploads!Task
  BY <1>1, <1>2, GensFacts DEF Uploads!TaskReads, Uploads!Task, Uploads!Gens
<1>4. /\ task' \in Uploads!Task /\ task'.read = Uploads!Content(inst.uri) /\ task'.note = "null" /\ task'.nonce = task.nonce
      /\ task'.status = "claimed"
  BY <1>1, <1>3 DEF Uploads!Task
<1>5. apply = None
  BY <1>1 DEF Uploads!IInv, Uploads!TypeOK
<1>6. /\ bytes' = bytes /\ inst' = inst /\ marker' = marker /\ up' = up /\ direct' = direct /\ job' = job
      /\ apply' = apply /\ covered' = covered /\ enq' = enq /\ faults' = faults
  BY DEF Uploads!TaskReads
<1>7. \A k \in -1..MaxUploads : Uploads!EnqueueInOrder(k)'
  <2>1. task' # None
    BY <1>4, RecordsAssumption
  <2>2. QED
    BY <1>6, <2>1, EnqueueStays, UploadsRest
<1>8. faults' \in 0..MaxFaults /\ enq' \in [-1..MaxUploads -> Uploads!Enqueue \cup {None}]
  BY <1>6 DEF Uploads!IInv, Uploads!TypeOK
<1>9. task'.nonce # 0 => up[task'.nonce].phase \in Uploads!Past
  BY <1>1, <1>4 DEF Uploads!IInv, Uploads!TaskInOrder
<1>10. QED
  BY <1>1, <1>4, <1>5, <1>6, <1>7, <1>8, <1>9, TaskMoves

LEMMA TaskSubmittedKeeps ==
    ASSUME Uploads!IInv, Uploads!Aging, Uploads!TaskSubmitted
    PROVE  Uploads!IInv'
<1>1. task # None /\ task \in Uploads!Task /\ inst # None /\ task.status = "claimed" /\ task.note = "null" /\ task.read # 0
  BY QueueFacts, TaskFields DEF Uploads!TaskSubmitted, Uploads!IInv, Uploads!TypeOK
<1>2. /\ task' = [task EXCEPT !.status = "completed", !.note = "pending"]
      /\ [task EXCEPT !.status = "completed", !.note = "pending"] \in Uploads!Task
  BY <1>1 DEF Uploads!TaskSubmitted, Uploads!Task
<1>3. task' \in Uploads!Task /\ task'.read = task.read /\ task'.nonce = task.nonce /\ task'.status = "completed"
  BY <1>1, <1>2 DEF Uploads!Task
<1>4. apply = None
  BY <1>1 DEF Uploads!IInv, Uploads!TypeOK
<1>5. /\ bytes' = bytes /\ inst' = inst /\ marker' = marker /\ up' = up /\ direct' = direct /\ job' = job
      /\ apply' = apply /\ covered' = covered /\ enq' = enq /\ faults' = faults
  BY DEF Uploads!TaskSubmitted
<1>6. \A k \in -1..MaxUploads : Uploads!EnqueueInOrder(k)'
  <2>1. task' # None
    BY <1>3, RecordsAssumption
  <2>2. QED
    BY <1>5, <2>1, EnqueueStays, UploadsRest
<1>7. faults' \in 0..MaxFaults /\ enq' \in [-1..MaxUploads -> Uploads!Enqueue \cup {None}]
  BY <1>5 DEF Uploads!IInv, Uploads!TypeOK
<1>8. task'.nonce # 0 => up[task'.nonce].phase \in Uploads!Past
  BY <1>1, <1>3 DEF Uploads!IInv, Uploads!TaskInOrder
<1>9. QED
  BY <1>1, <1>3, <1>4, <1>5, <1>6, <1>7, <1>8, TaskMoves

\* One more fault.
LEMMA FaultIs == ASSUME Uploads!IInv, Uploads!Fault PROVE faults' \in 0..MaxFaults
BY RecordsAssumption DEF Uploads!IInv, Uploads!TypeOK, Uploads!Fault

LEMMA TaskFailsKeeps ==
    ASSUME Uploads!IInv, Uploads!Aging, Uploads!TaskFails
    PROVE  Uploads!IInv'
<1>1. task # None /\ task \in Uploads!Task /\ inst # None /\ task.status \in {"queued", "claimed"} /\ task.note = "null"
  BY QueueFacts, TaskFields DEF Uploads!TaskFails, Uploads!IInv, Uploads!TypeOK
<1>2. PICK s \in {"queued", "failed", "canceled"} : task' = [task EXCEPT !.status = s, !.read = 0]
  BY DEF Uploads!TaskFails
<1>3. [task EXCEPT !.status = s, !.read = 0] \in Uploads!Task
  <2>1. 0 \in 0..MaxUploads /\ s \in {"queued", "claimed", "completed", "failed", "canceled"}
    BY RecordsAssumption
  <2>2. QED
    BY <1>1, <2>1 DEF Uploads!Task
<1>4. task' \in Uploads!Task /\ task'.read = 0 /\ task'.note = "null" /\ task'.nonce = task.nonce
  BY <1>1, <1>2, <1>3 DEF Uploads!Task
<1>5. apply = None
  BY <1>1 DEF Uploads!IInv, Uploads!TypeOK
<1>6. /\ bytes' = bytes /\ inst' = inst /\ marker' = marker /\ up' = up /\ direct' = direct /\ job' = job
      /\ apply' = apply /\ covered' = covered /\ enq' = enq
  BY DEF Uploads!TaskFails
<1>7. \A k \in -1..MaxUploads : Uploads!EnqueueInOrder(k)'
  <2>1. task' # None
    BY <1>4, RecordsAssumption
  <2>2. QED
    BY <1>6, <2>1, EnqueueStays, UploadsRest
<1>8. faults' \in 0..MaxFaults /\ enq' \in [-1..MaxUploads -> Uploads!Enqueue \cup {None}]
  BY <1>6, FaultIs DEF Uploads!TaskFails, Uploads!IInv, Uploads!TypeOK
<1>9. task'.nonce # 0 => up[task'.nonce].phase \in Uploads!Past
  BY <1>1, <1>4 DEF Uploads!IInv, Uploads!TaskInOrder
<1>10. QED
  BY <1>1, <1>4, <1>5, <1>6, <1>7, <1>8, <1>9, TaskMoves

\* enqueueUploadMetadata goes on without changing the row.
LEMMA EnqueueMoves ==
    ASSUME Uploads!IInv, Uploads!Aging, NEW k \in -1..MaxUploads, NEW e \in Uploads!Enqueue \cup {None}, enq' = [enq EXCEPT ![k] = e], inst # None,
           UNCHANGED <<bytes, inst, covered, marker, task, up, direct, apply, job, faults>>,
           e # None => /\ e.nonce # 0 => up[e.nonce].phase \in Uploads!Past
                       /\ e.phase \in {"refresh", "reread"} => task # None
    PROVE  Uploads!IInv'
<1>1. enq' \in [-1..MaxUploads -> Uploads!Enqueue \cup {None}] /\ enq'[k] = e /\ \A j \in -1..MaxUploads : j # k => enq'[j] = enq[j]
  BY QueueFacts
<1>2. \A j \in -1..MaxUploads : Uploads!EnqueueInOrder(j)'
  <2>1. \A j \in -1..MaxUploads : j # k => Uploads!EnqueueInOrder(j)'
    BY <1>1, EnqueueStays, UploadsRest
  <2>2. Uploads!EnqueueInOrder(k)'
    BY <1>1 DEF Uploads!EnqueueInOrder
  <2>3. QED
    BY <2>1, <2>2
<1>3. faults' \in 0..MaxFaults
  BY DEF Uploads!IInv, Uploads!TypeOK
<1>4. Uploads!TypeOK'
  BY <1>1, <1>3, UploadTypes, HandlerFacts, FileFacts
<1>5. Uploads!TaskInOrder' /\ Uploads!ApplyInOrder' /\ (Uploads!ApplyHolds' => Uploads!ApplyHolds)
  <2>1. Uploads!Content(inst.uri)' = Uploads!Content(inst.uri)
    BY DEF Uploads!Aging, Uploads!Content
  <2>2. QED
    BY <2>1, TaskStays, ApplyStays, UploadsRest, MarkerSame DEF Uploads!ApplyHolds
<1>6. QED
  BY <1>2, <1>4, <1>5, QueueMoves

LEMMA EnqueueFields ==
    ASSUME NEW e \in Uploads!Enqueue
    PROVE  /\ e.uri \in Uploads!Gens /\ e.nonce \in 0..MaxUploads /\ e.attempt \in 0..1
           /\ \A i \in 0..1 : [e EXCEPT !.attempt = i] \in Uploads!Enqueue /\ [e EXCEPT !.attempt = i].nonce = e.nonce
           /\ \A p \in {"read", "refresh", "reread", "dispatch"} :
                 [e EXCEPT !.phase = p] \in Uploads!Enqueue /\ [e EXCEPT !.phase = p].nonce = e.nonce /\ [e EXCEPT !.phase = p].phase = p
<1>1. e.uri \in Uploads!Gens /\ e.nonce \in 0..MaxUploads /\ e.attempt \in 0..1
  BY DEF Uploads!Enqueue
<1>2. \A i \in 0..1 : [e EXCEPT !.attempt = i] \in Uploads!Enqueue /\ [e EXCEPT !.attempt = i].nonce = e.nonce
  BY DEF Uploads!Enqueue
<1>3. \A p \in {"read", "refresh", "reread", "dispatch"} :
          [e EXCEPT !.phase = p] \in Uploads!Enqueue /\ [e EXCEPT !.phase = p].nonce = e.nonce /\ [e EXCEPT !.phase = p].phase = p
  BY DEF Uploads!Enqueue
<1>4. QED
  BY <1>1, <1>2, <1>3

LEMMA EnqueueReadKeeps ==
    ASSUME Uploads!IInv, Uploads!Aging, NEW k \in -1..MaxUploads, Uploads!EnqueueRead(k)
    PROVE  Uploads!IInv'
<1>1. /\ enq[k] # None /\ enq[k] \in Uploads!Enqueue /\ inst # None
      /\ UNCHANGED <<bytes, inst, covered, marker, task, up, direct, apply, job, faults>>
  BY QueueFacts DEF Uploads!EnqueueRead
<1>2. PICK a \in 0..1 :
         \/ enq' = [enq EXCEPT ![k] = None]
         \/ task # None /\ enq' = [enq EXCEPT ![k] = [[enq[k] EXCEPT !.attempt = a] EXCEPT !.phase = "refresh"]]
         \/ enq' = [enq EXCEPT ![k] = [[enq[k] EXCEPT !.attempt = a] EXCEPT !.phase = "dispatch"]]
  <2>1. PICK a \in 0..1 : a = IF enq[k].auto /\ Uploads!Terminal(task) THEN 1 ELSE 0
    OBVIOUS
  <2>2. QED
    BY <2>1 DEF Uploads!EnqueueRead
<1>3. PICK f \in Uploads!Enqueue : f = [enq[k] EXCEPT !.attempt = a] /\ f.nonce = enq[k].nonce
  <2>1. PICK g \in Uploads!Enqueue : g = enq[k]
    BY <1>1
  <2>2. [g EXCEPT !.attempt = a] \in Uploads!Enqueue /\ [g EXCEPT !.attempt = a].nonce = g.nonce
    BY EnqueueFields
  <2>3. QED
    BY <2>1, <2>2
<1>4. enq[k].nonce # 0 => up[enq[k].nonce].phase \in Uploads!Past
  BY <1>1 DEF Uploads!IInv, Uploads!EnqueueInOrder
<1>5. CASE enq' = [enq EXCEPT ![k] = None]
  BY <1>1, <1>5, EnqueueMoves
<1>6. CASE task # None /\ enq' = [enq EXCEPT ![k] = [[enq[k] EXCEPT !.attempt = a] EXCEPT !.phase = "refresh"]]
  <2>1. PICK e \in Uploads!Enqueue : e = [f EXCEPT !.phase = "refresh"] /\ e.nonce = f.nonce /\ e.phase = "refresh"
    BY EnqueueFields
  <2>2. enq' = [enq EXCEPT ![k] = e]
    BY <1>3, <1>6, <2>1
  <2>3. e.nonce # 0 => up[e.nonce].phase \in Uploads!Past
    BY <1>3, <1>4, <2>1
  <2>4. QED
    BY <1>1, <1>6, <2>1, <2>2, <2>3, EnqueueMoves
<1>7. CASE enq' = [enq EXCEPT ![k] = [[enq[k] EXCEPT !.attempt = a] EXCEPT !.phase = "dispatch"]]
  <2>1. PICK e \in Uploads!Enqueue : e = [f EXCEPT !.phase = "dispatch"] /\ e.nonce = f.nonce /\ e.phase = "dispatch"
    BY EnqueueFields
  <2>2. enq' = [enq EXCEPT ![k] = e]
    BY <1>3, <1>7, <2>1
  <2>3. e.nonce # 0 => up[e.nonce].phase \in Uploads!Past
    BY <1>3, <1>4, <2>1
  <2>4. QED
    BY <1>1, <2>1, <2>2, <2>3, EnqueueMoves
<1>8. QED
  BY <1>2, <1>5, <1>6, <1>7

LEMMA EnqueueRereadKeeps ==
    ASSUME Uploads!IInv, Uploads!Aging, NEW k \in -1..MaxUploads, Uploads!EnqueueReread(k)
    PROVE  Uploads!IInv'
<1>1. /\ enq[k] # None /\ enq[k] \in Uploads!Enqueue /\ inst # None
      /\ UNCHANGED <<bytes, inst, covered, marker, task, up, direct, apply, job, faults>>
  BY QueueFacts DEF Uploads!EnqueueReread
<1>2. PICK e \in Uploads!Enqueue : e = [enq[k] EXCEPT !.phase = "dispatch"] /\ e.nonce = enq[k].nonce /\ e.phase = "dispatch"
  BY <1>1, EnqueueFields
<1>3. enq' = [enq EXCEPT ![k] = None] \/ enq' = [enq EXCEPT ![k] = e]
  BY <1>2 DEF Uploads!EnqueueReread
<1>4. enq[k].nonce # 0 => up[enq[k].nonce].phase \in Uploads!Past
  BY <1>1 DEF Uploads!IInv, Uploads!EnqueueInOrder
<1>5. CASE enq' = [enq EXCEPT ![k] = None]
  BY <1>1, <1>5, EnqueueMoves
<1>6. CASE enq' = [enq EXCEPT ![k] = e]
  BY <1>1, <1>2, <1>4, <1>6, EnqueueMoves
<1>7. QED
  BY <1>3, <1>5, <1>6

LEMMA EnqueueRefreshKeeps ==
    ASSUME Uploads!IInv, Uploads!Aging, NEW k \in -1..MaxUploads, Uploads!EnqueueRefresh(k)
    PROVE  Uploads!IInv'
<1>1. /\ enq[k] # None /\ enq[k] \in Uploads!Enqueue /\ inst # None /\ enq[k].phase = "refresh"
      /\ UNCHANGED <<bytes, inst, covered, marker, up, direct, apply, job, faults>>
  BY QueueFacts DEF Uploads!EnqueueRefresh
<1>2. task # None /\ task \in Uploads!Task /\ (enq[k].nonce # 0 => up[enq[k].nonce].phase \in Uploads!Past)
  BY <1>1, QueueFacts DEF Uploads!IInv, Uploads!EnqueueInOrder
<1>3. PICK e \in Uploads!Enqueue : e = [enq[k] EXCEPT !.phase = "reread"] /\ e.nonce = enq[k].nonce /\ e.phase = "reread"
  BY <1>1, EnqueueFields
<1>4. enq' = [enq EXCEPT ![k] = e]
  BY <1>3 DEF Uploads!EnqueueRefresh
<1>5. CASE task.status # "queued"
  <2>1. task' = task
    BY <1>5 DEF Uploads!EnqueueRefresh
  <2>2. e.nonce # 0 => up[e.nonce].phase \in Uploads!Past
    BY <1>2, <1>3
  <2>3. QED
    BY <1>1, <1>2, <1>3, <1>4, <2>1, <2>2, EnqueueMoves
<1>6. CASE task.status = "queued"
  <2>1. PICK t : t = [task EXCEPT !.uri = enq[k].uri, !.nonce = enq[k].nonce, !.attempt = enq[k].attempt] /\ task' = t
    BY <1>6 DEF Uploads!EnqueueRefresh
  <2>2. enq[k].uri \in Uploads!Gens /\ enq[k].nonce \in 0..MaxUploads /\ enq[k].attempt \in 0..1
    BY <1>1, EnqueueFields
  <2>3. t \in Uploads!Task /\ t.status = "queued" /\ t.nonce = enq[k].nonce /\ t.read = task.read /\ t.note = task.note
    BY <1>2, <1>6, <2>1, <2>2 DEF Uploads!Task
  <2>4. task.read = 0 /\ task.note = "null" /\ apply = None
    BY <1>2, <1>6, TaskFields DEF Uploads!IInv, Uploads!TaskInOrder, Uploads!TypeOK
  <2>5. enq' \in [-1..MaxUploads -> Uploads!Enqueue \cup {None}] /\ enq'[k] = e /\ \A j \in -1..MaxUploads : j # k => enq'[j] = enq[j]
    BY <1>4, QueueFacts
  <2>6. \A j \in -1..MaxUploads : Uploads!EnqueueInOrder(j)'
    <3>1. task' # None
      BY <2>1, <2>3, RecordsAssumption
    <3>2. \A j \in -1..MaxUploads : j # k => Uploads!EnqueueInOrder(j)'
      BY <1>1, <2>5, <3>1, EnqueueStays, UploadsRest
    <3>3. Uploads!EnqueueInOrder(k)'
      BY <1>1, <1>2, <1>3, <2>5, <3>1 DEF Uploads!EnqueueInOrder
    <3>4. QED
      BY <3>2, <3>3
  <2>7. faults' \in 0..MaxFaults
    BY <1>1 DEF Uploads!IInv, Uploads!TypeOK
  <2>8. QED
    BY <1>1, <1>2, <2>1, <2>3, <2>4, <2>5, <2>6, <2>7, TaskMoves
<1>7. QED
  BY <1>5, <1>6

LEMMA EnqueueDispatchKeeps ==
    ASSUME Uploads!IInv, Uploads!Aging, NEW k \in -1..MaxUploads, Uploads!EnqueueDispatch(k)
    PROVE  Uploads!IInv'
<1>1. /\ enq[k] # None /\ enq[k] \in Uploads!Enqueue /\ inst # None /\ enq' = [enq EXCEPT ![k] = None]
      /\ UNCHANGED <<bytes, inst, covered, marker, up, direct, apply, job, faults>>
  BY QueueFacts DEF Uploads!EnqueueDispatch
<1>2. enq[k].nonce # 0 => up[enq[k].nonce].phase \in Uploads!Past
  BY <1>1 DEF Uploads!IInv, Uploads!EnqueueInOrder
<1>3. CASE task' = task
  BY <1>1, <1>3, EnqueueMoves
<1>4. CASE task' # task
  <2>1. /\ task = None \/ (Uploads!Terminal(task) /\ (task.status = "completed" => task.note = "null"))
        /\ task' = Uploads!FreshTask(enq[k])
    BY <1>4 DEF Uploads!EnqueueDispatch
  <2>2. apply = None
    BY <2>1 DEF Uploads!IInv, Uploads!TypeOK
  <2>3. enq[k].uri \in Uploads!Gens /\ enq[k].nonce \in 0..MaxUploads /\ enq[k].attempt \in 0..1 /\ 0 \in 0..MaxUploads
    BY <1>1, EnqueueFields, GensFacts
  <2>4. task' \in Uploads!Task
    BY <2>1, <2>3 DEF Uploads!FreshTask, Uploads!Task
  <2>5. task'.status = "queued" /\ task'.nonce = enq[k].nonce /\ task'.read = 0 /\ task'.note = "null"
    BY <2>1 DEF Uploads!FreshTask
  <2>6. enq' \in [-1..MaxUploads -> Uploads!Enqueue \cup {None}] /\ enq'[k] = None /\ \A j \in -1..MaxUploads : j # k => enq'[j] = enq[j]
    BY <1>1, QueueFacts
  <2>7. \A j \in -1..MaxUploads : Uploads!EnqueueInOrder(j)'
    <3>1. task' # None
      BY <2>4, RecordsAssumption
    <3>2. QED
      BY <1>1, <2>6, <3>1, EnqueueStays, UploadsRest
  <2>8. faults' \in 0..MaxFaults
    BY <1>1 DEF Uploads!IInv, Uploads!TypeOK
  <2>9. QED
    BY <1>1, <1>2, <2>2, <2>4, <2>5, <2>6, <2>7, <2>8, TaskMoves
<1>5. QED
  BY <1>3, <1>4

\* An apply goes on and leaves everything but the cover alone.
LEMMA ApplyMoves ==
    ASSUME Uploads!IInv, Uploads!Aging, NEW a \in Uploads!Apply, apply' = a, apply # None, a.uri = apply.uri, a.nonce = apply.nonce, a.gen = apply.gen,
           a.phase \in {"held", "applied", "covered"} => apply.phase \in {"held", "applied", "covered"},
           covered' \in BOOLEAN, faults' \in 0..MaxFaults,
           UNCHANGED <<bytes, inst, marker, task, up, direct, enq, job>>
    PROVE  Uploads!IInv'
<1>1. inst # None /\ task # None /\ task.note = "applying"
  BY QueueFacts DEF Uploads!IInv, Uploads!TypeOK
<1>2. Uploads!TypeOK'
  BY <1>1, UploadTypes, HandlerFacts, FileFacts, QueueFacts
<1>3. Uploads!TaskInOrder'
  <2>1. Uploads!Content(inst.uri)' = Uploads!Content(inst.uri)
    BY DEF Uploads!Aging, Uploads!Content
  <2>2. QED
    BY <2>1, TaskStays, UploadsRest, MarkerSame
<1>4. Uploads!ApplyHolds' => Uploads!ApplyHolds
  BY DEF Uploads!ApplyHolds
<1>5. Uploads!ApplyInOrder'
  <2>1. Uploads!LeaseNonce' = Uploads!LeaseNonce
    BY DEF Uploads!LeaseNonce
  <2>2. QED
    BY <1>4, <2>1 DEF Uploads!IInv, Uploads!ApplyInOrder, Uploads!IsMarker
<1>6. \A k \in -1..MaxUploads : Uploads!EnqueueInOrder(k)'
  BY EnqueueStays, UploadsRest
<1>7. QED
  BY <1>1, <1>2, <1>3, <1>4, <1>5, <1>6, QueueMoves

LEMMA ApplyFields ==
    ASSUME NEW a \in Uploads!Apply
    PROVE  /\ a.phase \in {"read", "acquire", "held", "applied", "covered", "end"} /\ a.uri \in Uploads!Gens
           /\ a.nonce \in 0..MaxUploads /\ a.gen \in Uploads!Gens /\ a.scanned \in BOOLEAN /\ a.failed \in BOOLEAN /\ a.retry \in BOOLEAN
BY DEF Uploads!Apply

LEMMA ApplyReadKeeps ==
    ASSUME Uploads!IInv, Uploads!Aging, Uploads!ApplyRead
    PROVE  Uploads!IInv'
<1>1. /\ apply # None /\ apply \in Uploads!Apply /\ apply.phase = "read" /\ inst # None /\ inst.scanned \in BOOLEAN
      /\ UNCHANGED <<bytes, inst, covered, marker, task, up, direct, enq, job, faults>>
  BY QueueFacts, FileFacts DEF Uploads!ApplyRead, Uploads!Applying
<1>2. covered' \in BOOLEAN /\ faults' \in 0..MaxFaults
  BY <1>1 DEF Uploads!IInv, Uploads!TypeOK
<1>3. CASE inst.uri # apply.uri
  <2>1. PICK a : a = [apply EXCEPT !.phase = "end", !.retry = FALSE] /\ apply' = a
    BY <1>3 DEF Uploads!ApplyRead, Uploads!Ends
  <2>2. a \in Uploads!Apply /\ a.phase = "end" /\ a.uri = apply.uri /\ a.nonce = apply.nonce /\ a.gen = apply.gen
    BY <1>1, <2>1 DEF Uploads!Apply
  <2>3. QED
    BY <1>1, <1>2, <2>1, <2>2, ApplyMoves
<1>4. CASE inst.uri = apply.uri
  <2>1. PICK a : a = [apply EXCEPT !.phase = "acquire", !.scanned = inst.scanned] /\ apply' = a
    BY <1>4 DEF Uploads!ApplyRead
  <2>2. a \in Uploads!Apply /\ a.phase = "acquire" /\ a.uri = apply.uri /\ a.nonce = apply.nonce /\ a.gen = apply.gen
    BY <1>1, <2>1 DEF Uploads!Apply
  <2>3. QED
    BY <1>1, <1>2, <2>1, <2>2, ApplyMoves
<1>5. QED
  BY <1>3, <1>4

LEMMA ApplyCoverKeeps ==
    ASSUME Uploads!IInv, Uploads!Aging, NEW saved \in BOOLEAN, NEW bad \in BOOLEAN, Uploads!ApplyCover(saved, bad)
    PROVE  Uploads!IInv'
<1>1. /\ apply # None /\ apply \in Uploads!Apply /\ apply.phase = "applied"
      /\ UNCHANGED <<bytes, inst, marker, task, up, direct, enq, job, faults>>
  BY QueueFacts DEF Uploads!ApplyCover, Uploads!Applying
<1>2. covered' \in BOOLEAN
  BY DEF Uploads!ApplyCover
<1>3. faults' \in 0..MaxFaults
  BY <1>1 DEF Uploads!IInv, Uploads!TypeOK
<1>4. PICK a : a = [apply EXCEPT !.phase = "covered", !.failed = bad] /\ apply' = a
  BY DEF Uploads!ApplyCover
<1>5. a \in Uploads!Apply /\ a.uri = apply.uri /\ a.nonce = apply.nonce /\ a.gen = apply.gen
  BY <1>1, <1>4 DEF Uploads!Apply
<1>6. QED
  BY <1>1, <1>2, <1>3, <1>4, <1>5, ApplyMoves

LEMMA ApplyCoverThrowsKeeps ==
    ASSUME Uploads!IInv, Uploads!Aging, Uploads!ApplyCoverThrows
    PROVE  Uploads!IInv'
<1>1. /\ apply # None /\ apply \in Uploads!Apply /\ apply.phase = "applied"
      /\ UNCHANGED <<bytes, inst, covered, marker, task, up, direct, enq, job>>
  BY QueueFacts DEF Uploads!ApplyCoverThrows, Uploads!Applying
<1>2. covered' \in BOOLEAN /\ faults' \in 0..MaxFaults
  BY <1>1, FaultIs DEF Uploads!ApplyCoverThrows, Uploads!IInv, Uploads!TypeOK
<1>3. PICK a : a = [apply EXCEPT !.phase = "covered", !.failed = TRUE, !.retry = TRUE] /\ apply' = a
  BY DEF Uploads!ApplyCoverThrows
<1>4. a \in Uploads!Apply /\ a.uri = apply.uri /\ a.nonce = apply.nonce /\ a.gen = apply.gen
  BY <1>1, <1>3 DEF Uploads!Apply
<1>5. QED
  BY <1>1, <1>2, <1>3, <1>4, ApplyMoves

LEMMA ApplyStartKeeps ==
    ASSUME Uploads!IInv, Uploads!Aging, Uploads!ApplyStart
    PROVE  Uploads!IInv'
<1>1. /\ task # None /\ task \in Uploads!Task /\ inst # None /\ task.status = "completed" /\ task.note = "pending" /\ task.read # 0
      /\ UNCHANGED <<bytes, inst, covered, marker, up, direct, enq, job, faults>>
  BY QueueFacts DEF Uploads!ApplyStart, Uploads!IInv, Uploads!TaskInOrder
<1>2. apply = None
  BY <1>1 DEF Uploads!IInv, Uploads!TypeOK
<1>3. PICK t : t = [task EXCEPT !.note = "applying"] /\ task' = t
  BY DEF Uploads!ApplyStart
<1>4. /\ t \in Uploads!Task /\ t.nonce = task.nonce /\ t.read = task.read /\ t.status = task.status /\ t.note = "applying"
  BY <1>1, <1>3 DEF Uploads!Task
<1>5. PICK a : /\ a = [phase |-> "read", uri |-> task.uri, nonce |-> task.nonce, gen |-> task.read,
                       scanned |-> FALSE, failed |-> FALSE, retry |-> FALSE]
               /\ apply' = a
  BY DEF Uploads!ApplyStart
<1>6. task.uri \in Uploads!Gens /\ task.nonce \in 0..MaxUploads /\ task.read \in Uploads!Gens
  BY <1>1, TaskFields, GensFacts
<1>7. a \in Uploads!Apply /\ a.phase = "read" /\ a.nonce = task.nonce /\ a.gen = task.read
  BY <1>5, <1>6 DEF Uploads!Apply
<1>8. task' # None
  BY <1>3, <1>4, RecordsAssumption
<1>9. Uploads!TypeOK'
  <2>1. faults' \in 0..MaxFaults
    BY <1>1 DEF Uploads!IInv, Uploads!TypeOK
  <2>2. QED
    BY <1>1, <1>3, <1>4, <1>5, <1>7, <1>8, <2>1, UploadTypes, HandlerFacts, FileFacts,
       QueueFacts
<1>10. Uploads!TaskInOrder'
  <2>1. Uploads!Content(inst.uri)' = Uploads!Content(inst.uri)
    BY <1>1 DEF Uploads!Aging, Uploads!Content
  <2>2. QED
    BY <1>1, <1>3, <1>4, <2>1 DEF Uploads!IInv, Uploads!TaskInOrder
<1>11. Uploads!ApplyInOrder' /\ ~Uploads!ApplyHolds'
  BY <1>3, <1>4, <1>5, <1>7 DEF Uploads!ApplyInOrder, Uploads!ApplyHolds
<1>12. \A k \in -1..MaxUploads : Uploads!EnqueueInOrder(k)'
  BY <1>1, <1>8, EnqueueStays, UploadsRest
<1>13. QED
  BY <1>1, <1>9, <1>10, <1>11, <1>12, QueueMoves

\* The note of the row changes, and then nobody is applying it.
LEMMA NoteMoves ==
    ASSUME Uploads!IInv, Uploads!Aging, task # None, task.note = "applying", NEW note \in {"null", "pending"},
           task' = [task EXCEPT !.note = note], apply' = None,
           UNCHANGED <<bytes, inst, covered, marker, up, direct, enq, job, faults>>
    PROVE  Uploads!IInv'
<1>1. task \in Uploads!Task /\ inst # None /\ task.status = "completed" /\ task.read # 0
  BY QueueFacts DEF Uploads!IInv, Uploads!TaskInOrder, Uploads!TypeOK
<1>2. [task EXCEPT !.note = note] \in Uploads!Task
  BY <1>1 DEF Uploads!Task
<1>3. /\ task' \in Uploads!Task /\ task'.nonce = task.nonce /\ task'.read = task.read /\ task'.status = "completed"
      /\ task'.note = note
  BY <1>1, <1>2 DEF Uploads!Task
<1>4. \A k \in -1..MaxUploads : Uploads!EnqueueInOrder(k)'
  <2>1. task' # None
    BY <1>3, RecordsAssumption
  <2>2. QED
    BY <2>1, EnqueueStays, UploadsRest
<1>5. faults' \in 0..MaxFaults /\ enq' \in [-1..MaxUploads -> Uploads!Enqueue \cup {None}]
  BY DEF Uploads!IInv, Uploads!TypeOK
<1>6. task'.nonce # 0 => up[task'.nonce].phase \in Uploads!Past
  BY <1>1, <1>3 DEF Uploads!IInv, Uploads!TaskInOrder
<1>7. QED
  BY <1>1, <1>3, <1>4, <1>5, <1>6, TaskMoves

LEMMA ApplyEndKeeps ==
    ASSUME Uploads!IInv, Uploads!Aging, Uploads!ApplyEnd \/ Uploads!Reapply
    PROVE  Uploads!IInv'
<1>1. task # None /\ task.note = "applying"
  BY DEF Uploads!ApplyEnd, Uploads!Applying, Uploads!Reapply, Uploads!IInv, Uploads!TypeOK
<1>2. PICK note \in {"null", "pending"} : task' = [task EXCEPT !.note = note]
  BY DEF Uploads!ApplyEnd, Uploads!Reapply
<1>3. apply' = None /\ UNCHANGED <<bytes, inst, covered, marker, up, direct, enq, job, faults>>
  BY DEF Uploads!ApplyEnd, Uploads!Reapply
<1>4. QED
  BY <1>1, <1>2, <1>3, NoteMoves

-----------------------------------------------------------------------------
\* The scheduled job goes on, and leaves everything but the queue alone.
LEMMA JobMoves ==
    ASSUME Uploads!IInv, Uploads!Aging, inst # None, job' \in Uploads!AtMarker \cup {None},
           UNCHANGED <<bytes, inst, covered, marker, task, up, direct, apply, faults>>,
           enq' \in [-1..MaxUploads -> Uploads!Enqueue \cup {None}], \A k \in -1..MaxUploads : Uploads!EnqueueInOrder(k)', Uploads!JobInOrder'
    PROVE  Uploads!IInv'
<1>1. inPlace' = inPlace
  BY DEF Uploads!Aging
<1>2. Uploads!TypeOK'
  <2>1. faults' \in 0..MaxFaults
    BY DEF Uploads!IInv, Uploads!TypeOK
  <2>2. QED
    BY <2>1, UploadTypes, HandlerFacts, FileFacts
<1>3. Uploads!NothingBefore'
  BY DEF Uploads!NothingBefore
<1>4. Uploads!MarkerInOrder'
  BY <1>1, MarkerRests, UploadsRest
<1>5. Uploads!TaskInOrder' /\ Uploads!ApplyInOrder'
  <2>1. Uploads!Content(inst.uri)' = Uploads!Content(inst.uri)
    BY <1>1 DEF Uploads!Content
  <2>2. QED
    BY <2>1, TaskStays, ApplyStays, UploadsRest, MarkerSame
<1>6. \A g \in Uploads!Gens : Uploads!UploadInOrder(g)'
  BY <1>1, UploadStays
<1>7. \A g \in Uploads!Gens : Uploads!DirectInOrder(g)'
  <2>1. Uploads!ApplyHolds' = Uploads!ApplyHolds
    BY DEF Uploads!ApplyHolds
  <2>2. QED
    BY <1>1, <2>1, DirectStays, DirectAlone
<1>8. QED
  BY <1>2, <1>3, <1>4, <1>5, <1>6, <1>7 DEF Uploads!IInv

LEMMA JobLookKeeps ==
    ASSUME Uploads!IInv, Uploads!Aging, Uploads!JobLook
    PROVE  Uploads!IInv'
<1>1. /\ marker # None /\ marker.uri \in Uploads!Gens /\ marker.nonce \in Uploads!Gens \cup {Uploads!Lease} /\ marker.status = "canceled"
      /\ UNCHANGED <<bytes, inst, covered, marker, task, up, direct, apply, enq, faults>>
  BY FileFacts DEF Uploads!JobLook
<1>2. inst # None
  BY <1>1 DEF Uploads!IInv, Uploads!NothingBefore
<1>3. PICK j : j = [phase |-> "look", uri |-> marker.uri, nonce |-> marker.nonce, to |-> 0, drop |-> FALSE] /\ job' = j
  BY DEF Uploads!JobLook
<1>4. j \in Uploads!AtMarker /\ j.phase = "look" /\ j.nonce = marker.nonce /\ ~j.drop
  BY <1>1, <1>3, GensFacts DEF Uploads!AtMarker
<1>5. marker.nonce = Uploads!Lease \/ (marker.nonce \in Uploads!Gens /\ up[marker.nonce].phase \in Uploads!Past)
  <2>1. ASSUME marker.nonce \in Uploads!Gens PROVE up[marker.nonce].phase \in Uploads!Past
    <3>1. up[marker.nonce].phase \in Uploads!Holding \cup Uploads!Past
      BY <1>1, <2>1, GensFacts DEF Uploads!IInv, Uploads!MarkerInOrder
    <3>2. QED
      BY <1>1, <2>1, <3>1, UploadAlone
  <2>2. QED
    BY <1>1, <2>1
<1>6. Uploads!JobInOrder'
  BY <1>1, <1>3, <1>4, <1>5 DEF Uploads!JobInOrder
<1>7. \A k \in -1..MaxUploads : Uploads!EnqueueInOrder(k)'
  BY <1>1, EnqueueStays, UploadsRest
<1>8. QED
  BY <1>1, <1>2, <1>3, <1>4, <1>6, <1>7, JobMoves, QueueFacts

LEMMA JobFields ==
    ASSUME NEW j \in Uploads!AtMarker
    PROVE  /\ j.phase \in {"look", "move", "delete", "enqueue"} /\ j.uri \in Uploads!Gens /\ j.nonce \in Int
           /\ j.to \in Uploads!Gens \cup {0} /\ j.drop \in BOOLEAN
BY DEF Uploads!AtMarker

LEMMA JobDecideKeeps ==
    ASSUME Uploads!IInv, Uploads!Aging, Uploads!JobDecide
    PROVE  Uploads!IInv'
<1>1. /\ job # None /\ job \in Uploads!AtMarker /\ inst # None /\ inst.uri \in Uploads!Gens /\ inst.scanned \in BOOLEAN
      /\ UNCHANGED <<bytes, inst, covered, marker, task, up, direct, apply, enq, faults>>
  BY QueueFacts, FileFacts DEF Uploads!JobDecide
<1>2. job.nonce = Uploads!Lease \/ (job.nonce \in Uploads!Gens /\ up[job.nonce].phase \in Uploads!Past)
  BY <1>1 DEF Uploads!IInv, Uploads!JobInOrder
<1>3. PICK drop \in BOOLEAN, phase \in {"move", "delete", "enqueue"} :
         /\ job' = [job EXCEPT !.to = inst.uri, !.drop = drop, !.phase = phase]
         /\ drop => job.nonce < 0 \/ inst.scanned
         /\ phase = "delete" => drop
         /\ phase = "move" => job.nonce > 0
         /\ phase = "enqueue" => ~(job.nonce < 0)
  <2>1. PICK drop : drop = (job.nonce < 0 \/ (inst.scanned /\ covered))
    OBVIOUS
  <2>2. PICK phase : phase = IF job.nonce > 0 /\ job.uri # inst.uri THEN "move" ELSE IF drop THEN "delete" ELSE "enqueue"
    OBVIOUS
  <2>3. job' = [job EXCEPT !.to = inst.uri, !.drop = drop, !.phase = phase]
    BY <2>1, <2>2 DEF Uploads!JobDecide
  <2>4. drop \in BOOLEAN /\ phase \in {"move", "delete", "enqueue"}
    BY <2>1, <2>2
  <2>5. QED
    BY <2>1, <2>2, <2>3, <2>4
<1>4. PICK j : j = [job EXCEPT !.to = inst.uri, !.drop = drop, !.phase = phase] /\ job' = j
  BY <1>3
<1>5. j \in Uploads!AtMarker /\ j.phase = phase /\ j.nonce = job.nonce /\ j.to = inst.uri /\ (j.drop <=> drop)
  BY <1>1, <1>3, <1>4 DEF Uploads!AtMarker
<1>6. \A g \in Uploads!Gens : g > 0 /\ ~(g < 0) /\ Uploads!Lease < 0 /\ ~(Uploads!Lease > 0)
  BY RecordsAssumption DEF Uploads!Gens, Uploads!Lease
<1>7. Uploads!JobInOrder'
  BY <1>1, <1>2, <1>3, <1>4, <1>5, <1>6 DEF Uploads!JobInOrder
<1>8. \A k \in -1..MaxUploads : Uploads!EnqueueInOrder(k)'
  BY <1>1, EnqueueStays, UploadsRest
<1>9. QED
  BY <1>1, <1>4, <1>5, <1>7, <1>8, JobMoves, QueueFacts

LEMMA Queued ==
    ASSUME Uploads!IInv, NEW k \in -1..MaxUploads, NEW uri \in Uploads!Gens, NEW nonce \in 0..MaxUploads, NEW auto \in BOOLEAN,
           Uploads!Queue(k, uri, nonce, auto), UploadsGoOn, task' = task, nonce # 0 => up'[nonce].phase \in Uploads!Past
    PROVE  enq' \in [-1..MaxUploads -> Uploads!Enqueue \cup {None}] /\ \A j \in -1..MaxUploads : Uploads!EnqueueInOrder(j)'
<1>1. PICK e : /\ e = [phase |-> "read", uri |-> uri, nonce |-> nonce, auto |-> auto, attempt |-> 0]
               /\ enq' = [enq EXCEPT ![k] = e]
  BY DEF Uploads!Queue
<1>2. e \in Uploads!Enqueue /\ e.phase = "read" /\ e.nonce = nonce
  BY <1>1 DEF Uploads!Enqueue
<1>3. enq' \in [-1..MaxUploads -> Uploads!Enqueue \cup {None}] /\ enq'[k] = e /\ \A j \in -1..MaxUploads : j # k => enq'[j] = enq[j]
  BY <1>1, <1>2, QueueFacts
<1>4. \A j \in -1..MaxUploads : j # k => Uploads!EnqueueInOrder(j)'
  BY <1>3, EnqueueStays
<1>5. Uploads!EnqueueInOrder(k)'
  BY <1>2, <1>3 DEF Uploads!EnqueueInOrder
<1>6. QED
  BY <1>3, <1>4, <1>5

LEMMA JobAndFallback == Uploads!Job \in -1..MaxUploads /\ Uploads!Fallback \in -1..MaxUploads /\ \A g \in Uploads!Gens : g \in -1..MaxUploads
BY RecordsAssumption DEF Uploads!Job, Uploads!Fallback, Uploads!Gens

LEMMA JobEnqueueKeeps ==
    ASSUME Uploads!IInv, Uploads!Aging, Uploads!JobEnqueue
    PROVE  Uploads!IInv'
<1>1. /\ job # None /\ job \in Uploads!AtMarker /\ inst # None /\ job.phase = "enqueue" /\ job' = None
      /\ Uploads!Queue(Uploads!Job, job.to, job.nonce, TRUE)
      /\ UNCHANGED <<bytes, inst, covered, marker, task, up, direct, apply, faults>>
  BY QueueFacts DEF Uploads!JobEnqueue
<1>2. job.to \in Uploads!Gens /\ job.nonce \in Uploads!Gens /\ up[job.nonce].phase \in Uploads!Past
  BY <1>1, GensFacts DEF Uploads!IInv, Uploads!JobInOrder
<1>3. job.nonce \in 0..MaxUploads
  BY <1>2, RecordsAssumption DEF Uploads!Gens
<1>4. enq' \in [-1..MaxUploads -> Uploads!Enqueue \cup {None}] /\ \A j \in -1..MaxUploads : Uploads!EnqueueInOrder(j)'
  BY <1>1, <1>2, <1>3, Queued, JobAndFallback, UploadsRest
<1>5. Uploads!JobInOrder'
  BY <1>1 DEF Uploads!JobInOrder
<1>6. QED
  BY <1>1, <1>4, <1>5, JobMoves

LEMMA JobCandidateKeeps ==
    ASSUME Uploads!IInv, Uploads!Aging, Uploads!JobCandidate
    PROVE  Uploads!IInv'
<1>1. /\ inst # None /\ inst.uri \in Uploads!Gens /\ job = None /\ job' = None
      /\ Uploads!Queue(Uploads!Job, inst.uri, 0, TRUE)
      /\ UNCHANGED <<bytes, inst, covered, marker, task, up, direct, apply, faults>>
  BY FileFacts DEF Uploads!JobCandidate
<1>2. enq' \in [-1..MaxUploads -> Uploads!Enqueue \cup {None}] /\ \A j \in -1..MaxUploads : Uploads!EnqueueInOrder(j)'
  BY <1>1, Queued, JobAndFallback, UploadsRest, GensFacts
<1>3. Uploads!JobInOrder'
  BY <1>1 DEF Uploads!JobInOrder
<1>4. QED
  BY <1>1, <1>2, <1>3, JobMoves

\* A marker that nobody holds changes its place or its status, or is deleted.
LEMMA FreeMarkerMoves ==
    ASSUME Uploads!IInv, Uploads!Aging, inst # None, UNCHANGED <<bytes, inst, covered, task, up, direct, apply, enq, faults>>,
           \A g \in Uploads!Gens : up[g].phase \notin Uploads!Holding /\ ~Uploads!DirectHolds(g), ~Uploads!ApplyHolds,
           marker' \in Uploads!Marker \cup {None}, marker' # None => marker # None /\ marker'.nonce = marker.nonce,
           marker' = None => marker = None \/ marker.nonce = Uploads!Lease \/ inst.scanned,
           job' \in Uploads!AtMarker \cup {None}, Uploads!JobInOrder'
    PROVE  Uploads!IInv'
<1>1. inPlace' = inPlace
  BY DEF Uploads!Aging
<1>2. Uploads!TypeOK'
  <2>1. faults' \in 0..MaxFaults
    BY DEF Uploads!IInv, Uploads!TypeOK
  <2>2. QED
    BY <2>1, UploadTypes, HandlerFacts, FileFacts, QueueFacts
<1>3. Uploads!NothingBefore'
  BY DEF Uploads!NothingBefore
<1>4. Uploads!MarkerInOrder'
  <2>1. marker' # None => marker'.nonce = Uploads!Lease \/ (marker'.nonce \in Uploads!Gens /\ up'[marker'.nonce].phase \in Uploads!Holding \cup Uploads!Past)
    BY DEF Uploads!IInv, Uploads!MarkerInOrder
  <2>2. QED
    BY <1>1, <2>1, MarkerChanges
<1>5. Uploads!TaskInOrder' /\ Uploads!ApplyInOrder'
  <2>1. Uploads!Content(inst.uri)' = Uploads!Content(inst.uri)
    BY <1>1 DEF Uploads!Content
  <2>2. MarkerGoesOn
    BY DEF MarkerGoesOn
  <2>3. QED
    BY <2>1, <2>2, TaskStays, ApplyStays, UploadsRest
<1>6. \A g \in Uploads!Gens : Uploads!UploadInOrder(g)'
  BY <1>1, UploadStays
<1>7. \A g \in Uploads!Gens : Uploads!DirectInOrder(g)'
  BY <1>1, DirectStays
<1>8. \A k \in -1..MaxUploads : Uploads!EnqueueInOrder(k)'
  BY EnqueueStays, UploadsRest
<1>9. QED
  BY <1>2, <1>3, <1>4, <1>5, <1>6, <1>7, <1>8 DEF Uploads!IInv

LEMMA SweepLeaseKeeps ==
    ASSUME Uploads!IInv, Uploads!Aging, Uploads!SweepLease
    PROVE  Uploads!IInv'
<1>1. /\ marker # None /\ marker \in Uploads!Marker /\ ~Uploads!HeldBySomebody
      /\ UNCHANGED <<bytes, inst, covered, task, up, direct, apply, enq, job, faults>>
  BY FileFacts DEF Uploads!SweepLease
<1>2. inst # None
  BY <1>1 DEF Uploads!IInv, Uploads!NothingBefore
<1>3. ASSUME NEW g \in Uploads!Gens PROVE up[g].phase \notin Uploads!Holding /\ ~Uploads!DirectHolds(g)
  BY <1>1 DEF Uploads!IInv, Uploads!UploadInOrder, Uploads!DirectInOrder,
     Uploads!HeldBySomebody, Uploads!DirectHolds
<1>4. ~Uploads!ApplyHolds
  BY <1>1 DEF Uploads!IInv, Uploads!ApplyInOrder, Uploads!HeldBySomebody, Uploads!ApplyHolds
<1>5. PICK mk : mk = [marker EXCEPT !.status = "canceled"] /\ marker' = mk
  BY DEF Uploads!SweepLease
<1>6. mk \in Uploads!Marker /\ mk.nonce = marker.nonce
  BY <1>1, <1>5 DEF Uploads!Marker
<1>7. marker' # None
  BY <1>5, <1>6, RecordsAssumption
<1>8. Uploads!JobInOrder'
  <2>1. MarkerGoesOn
    BY <1>1, <1>5, <1>6 DEF MarkerGoesOn
  <2>2. QED
    BY <1>1, <2>1, JobStays, UploadsRest
<1>9. job' \in Uploads!AtMarker \cup {None}
  BY <1>1, QueueFacts
<1>10. QED
  BY <1>1, <1>2, <1>3, <1>4, <1>5, <1>6, <1>7, <1>8, <1>9, FreeMarkerMoves

LEMMA JobMoveKeeps ==
    ASSUME Uploads!IInv, Uploads!Aging, Uploads!JobMove
    PROVE  Uploads!IInv'
<1>1. /\ job # None /\ job \in Uploads!AtMarker /\ inst # None /\ job.phase = "move"
      /\ UNCHANGED <<bytes, inst, covered, task, up, direct, apply, enq, faults>>
  BY QueueFacts DEF Uploads!JobMove
<1>2. job.nonce \in Uploads!Gens /\ job.to \in Uploads!Gens /\ job.uri \in Uploads!Gens
  BY <1>1, QueueFacts DEF Uploads!IInv, Uploads!JobInOrder
<1>3. CASE ~Uploads!IsMarker("canceled", job.uri, job.nonce)
  <2>1. marker' = marker /\ job' = None
    BY <1>3 DEF Uploads!JobMove
  <2>2. Uploads!JobInOrder'
    BY <2>1 DEF Uploads!JobInOrder
  <2>3. enq' \in [-1..MaxUploads -> Uploads!Enqueue \cup {None}] /\ \A j \in -1..MaxUploads : Uploads!EnqueueInOrder(j)'
    BY <1>1, QueueFacts, EnqueueStays, UploadsRest
  <2>4. QED
    BY <1>1, <2>1, <2>2, <2>3, JobMoves
<1>4. CASE Uploads!IsMarker("canceled", job.uri, job.nonce)
  <2>1. marker # None /\ marker.status = "canceled" /\ marker.nonce = job.nonce /\ marker \in Uploads!Marker
    BY <1>2, <1>4, MarkerFields, FileFacts
  <2>2. PICK mk : mk = [marker EXCEPT !.uri = job.to] /\ marker' = mk
    BY <1>4 DEF Uploads!JobMove
  <2>3. mk \in Uploads!Marker /\ mk.nonce = marker.nonce
    BY <1>2, <2>1, <2>2 DEF Uploads!Marker
  <2>4. marker' # None
    BY <2>2, <2>3, RecordsAssumption
  <2>5. PICK phase \in {"delete", "enqueue"} : /\ job' = [job EXCEPT !.uri = job.to, !.phase = phase]
                                               /\ phase = "delete" => job.drop
    BY <1>4 DEF Uploads!JobMove
  <2>6. PICK j : j = [job EXCEPT !.uri = job.to, !.phase = phase] /\ job' = j
    BY <2>5
  <2>7. j \in Uploads!AtMarker /\ j.phase = phase /\ j.nonce = job.nonce /\ j.to = job.to /\ (j.drop <=> job.drop)
    BY <1>1, <1>2, <2>5, <2>6 DEF Uploads!AtMarker
  <2>8. Uploads!JobInOrder'
    BY <1>1, <1>2, <2>1, <2>2, <2>3, <2>5, <2>6, <2>7 DEF Uploads!IInv, Uploads!JobInOrder
  <2>9. QED
    BY <1>1, <2>1, <2>2, <2>3, <2>4, <2>6, <2>7, <2>8, LeaseFree, FreeMarkerMoves
<1>5. QED
  BY <1>3, <1>4

LEMMA JobDeleteKeeps ==
    ASSUME Uploads!IInv, Uploads!Aging, Uploads!JobDelete
    PROVE  Uploads!IInv'
<1>1. /\ job # None /\ job \in Uploads!AtMarker /\ inst # None /\ job.phase = "delete" /\ job' = None
      /\ UNCHANGED <<bytes, inst, covered, task, up, direct, apply, enq, faults>>
  BY QueueFacts DEF Uploads!JobDelete
<1>2. Uploads!JobInOrder'
  BY <1>1 DEF Uploads!JobInOrder
<1>3. CASE ~Uploads!IsMarker("canceled", job.uri, job.nonce)
  <2>1. marker' = marker
    BY <1>3 DEF Uploads!JobDelete
  <2>2. enq' \in [-1..MaxUploads -> Uploads!Enqueue \cup {None}] /\ \A j \in -1..MaxUploads : Uploads!EnqueueInOrder(j)'
    BY <1>1, QueueFacts, EnqueueStays, UploadsRest
  <2>3. QED
    BY <1>1, <1>2, <2>1, <2>2, JobMoves
<1>4. CASE Uploads!IsMarker("canceled", job.uri, job.nonce)
  <2>1. job.drop /\ job.uri \in Uploads!Gens /\ job.nonce \in Uploads!Gens \cup {Uploads!Lease}
    BY <1>1, QueueFacts DEF Uploads!IInv, Uploads!JobInOrder
  <2>2. marker # None /\ marker.status = "canceled" /\ marker.nonce = job.nonce /\ marker' = None
    BY <1>4, <2>1, MarkerFields DEF Uploads!JobDelete
  <2>3. marker.nonce = Uploads!Lease \/ inst.scanned
    BY <1>1, <2>1, <2>2 DEF Uploads!IInv, Uploads!JobInOrder
  <2>4. QED
    BY <1>1, <1>2, <2>2, <2>3, LeaseFree, FreeMarkerMoves
<1>5. QED
  BY <1>3, <1>4

\* A holder of the lease takes it or lets go of it.
LEMMA LeaseStep ==
    ASSUME Uploads!IInv, Uploads!Aging, inst # None, UNCHANGED <<bytes, inst, task, enq, job>>, UploadsGoOn, MarkerGoesOn, Uploads!TypeOK', marker' # None,
           marker'.nonce = Uploads!Lease \/ (marker'.nonce \in Uploads!Gens /\ up'[marker'.nonce].phase \in Uploads!Holding \cup Uploads!Past),
           marker'.nonce = Uploads!Lease => marker = None \/ marker.nonce = Uploads!Lease,
           Uploads!ApplyInOrder', \A g \in Uploads!Gens : Uploads!UploadInOrder(g)' /\ Uploads!DirectInOrder(g)'
    PROVE  Uploads!IInv'
<1>1. inPlace' = inPlace
  BY DEF Uploads!Aging
<1>2. Uploads!NothingBefore'
  BY DEF Uploads!NothingBefore
<1>3. Uploads!MarkerInOrder'
  BY <1>1, MarkerChanges
<1>4. Uploads!TaskInOrder' /\ Uploads!JobInOrder'
  <2>1. Uploads!Content(inst.uri)' = Uploads!Content(inst.uri)
    BY <1>1 DEF Uploads!Content
  <2>2. QED
    BY <2>1, TaskStays, JobStays
<1>5. \A k \in -1..MaxUploads : Uploads!EnqueueInOrder(k)'
  BY EnqueueStays
<1>6. QED
  BY <1>2, <1>3, <1>4, <1>5 DEF Uploads!IInv

\* An apply takes the lease or lets go of it.
LEMMA ApplyLeaseMoves ==
    ASSUME Uploads!IInv, Uploads!Aging, NEW a \in Uploads!Apply, apply' = a, apply # None, a.uri = apply.uri, a.nonce = apply.nonce, a.gen = apply.gen,
           UNCHANGED <<bytes, inst, covered, task, up, direct, enq, job>>, faults' \in 0..MaxFaults,
           \A g \in Uploads!Gens : up[g].phase \notin Uploads!Holding /\ ~Uploads!DirectHolds(g),
           marker' \in Uploads!Marker, (marker # None /\ marker'.nonce = marker.nonce) \/ (marker = None /\ marker'.nonce = Uploads!Lease),
           a.phase \in {"held", "applied", "covered"} => Uploads!IsMarker("claimed", apply.uri, Uploads!LeaseNonce)'
    PROVE  Uploads!IInv'
<1>1. inPlace' = inPlace /\ inst # None /\ task # None /\ task.note = "applying" /\ marker' # None
  BY QueueFacts, RecordsAssumption DEF Uploads!Aging, Uploads!IInv, Uploads!TypeOK
<1>2. Uploads!TypeOK'
  BY <1>1, UploadTypes, HandlerFacts, FileFacts, QueueFacts
<1>3. UploadsGoOn /\ MarkerGoesOn
  BY GensFacts DEF UploadsGoOn, MarkerGoesOn
<1>4. marker'.nonce = Uploads!Lease \/ (marker'.nonce \in Uploads!Gens /\ up'[marker'.nonce].phase \in Uploads!Holding \cup Uploads!Past)
  BY DEF Uploads!IInv, Uploads!MarkerInOrder
<1>5. Uploads!ApplyInOrder'
  <2>1. Uploads!LeaseNonce' = Uploads!LeaseNonce
    BY DEF Uploads!LeaseNonce
  <2>2. QED
    BY <2>1 DEF Uploads!IInv, Uploads!ApplyInOrder, Uploads!ApplyHolds, Uploads!IsMarker
<1>6. \A g \in Uploads!Gens : Uploads!UploadInOrder(g)'
  BY <1>1, UploadStays
<1>7. \A g \in Uploads!Gens : Uploads!DirectInOrder(g)'
  BY <1>1, DirectStays
<1>8. QED
  BY <1>1, <1>2, <1>3, <1>4, <1>5, <1>6, <1>7, LeaseStep

LEMMA Acquiring ==
    ASSUME Uploads!IInv, NEW uri \in Uploads!Gens, NEW nonce \in 0..MaxUploads, NEW lease, lease = (IF nonce = 0 THEN Uploads!Lease ELSE nonce),
           Uploads!Acquire(uri, nonce)
    PROVE  marker' \in Uploads!Marker /\ marker' # None /\ marker'.nonce = lease /\ Uploads!IsMarker("claimed", uri, lease)'
<1>1. lease \in Uploads!Gens \cup {Uploads!Lease}
  BY GensFacts
<1>2. marker' = [status |-> "claimed", uri |-> uri, nonce |-> lease]
  BY DEF Uploads!Acquire
<1>3. QED
  BY <1>1, <1>2, MarkerIs DEF Uploads!IsMarker

LEMMA Releasing ==
    ASSUME Uploads!IInv, NEW uri \in Uploads!Gens, NEW nonce \in Uploads!Gens \cup {Uploads!Lease}, NEW status \in {"canceled", "completed"},
           Uploads!IsMarker("claimed", uri, nonce), Uploads!Release(uri, nonce, status)
    PROVE  marker' \in Uploads!Marker /\ marker' # None /\ marker'.nonce = nonce /\ marker'.status = status /\ marker' # marker
<1>1. marker # None /\ marker \in Uploads!Marker /\ marker.status = "claimed" /\ marker.nonce = nonce
  BY MarkerFields, FileFacts
<1>2. marker' = [marker EXCEPT !.status = status]
  BY DEF Uploads!Release
<1>3. [marker EXCEPT !.status = status] \in Uploads!Marker
  BY <1>1 DEF Uploads!Marker
<1>4. marker' \in Uploads!Marker /\ marker'.status = status /\ marker'.nonce = nonce
  BY <1>1, <1>2, <1>3 DEF Uploads!Marker
<1>5. QED
  BY <1>1, <1>4, RecordsAssumption

LEMMA ApplyAcquireKeeps ==
    ASSUME Uploads!IInv, Uploads!Aging, Uploads!ApplyAcquire
    PROVE  Uploads!IInv'
<1>1. /\ apply # None /\ apply \in Uploads!Apply /\ apply.phase = "acquire" /\ apply.uri \in Uploads!Gens /\ apply.nonce \in 0..MaxUploads
      /\ UNCHANGED <<bytes, inst, covered, task, up, direct, enq, job, faults>>
  BY QueueFacts DEF Uploads!ApplyAcquire, Uploads!Applying
<1>2. covered' \in BOOLEAN /\ faults' \in 0..MaxFaults
  BY <1>1 DEF Uploads!IInv, Uploads!TypeOK
<1>3. ASSUME NEW retry \in BOOLEAN, Uploads!Ends(retry), marker' = marker PROVE Uploads!IInv'
  <2>1. PICK a : a = [apply EXCEPT !.phase = "end", !.retry = retry] /\ apply' = a
    BY <1>3 DEF Uploads!Ends
  <2>2. a \in Uploads!Apply /\ a.phase = "end" /\ a.uri = apply.uri /\ a.nonce = apply.nonce /\ a.gen = apply.gen
    BY <1>1, <2>1 DEF Uploads!Apply
  <2>3. QED
    BY <1>1, <1>2, <1>3, <2>1, <2>2, ApplyMoves
<1>4. ASSUME Uploads!Acquirable(apply.uri, apply.nonce), Uploads!Acquire(apply.uri, apply.nonce), apply' = [apply EXCEPT !.phase = "held"]
      PROVE  Uploads!IInv'
  <2>1. PICK a : a = [apply EXCEPT !.phase = "held"] /\ apply' = a
    BY <1>4
  <2>2. a \in Uploads!Apply /\ a.phase = "held" /\ a.uri = apply.uri /\ a.nonce = apply.nonce /\ a.gen = apply.gen
    BY <1>1, <2>1 DEF Uploads!Apply
  <2>3. PICK lease : lease = IF apply.nonce = 0 THEN Uploads!Lease ELSE apply.nonce
    OBVIOUS
  <2>4. marker' \in Uploads!Marker /\ marker' # None /\ marker'.nonce = lease /\ marker' = [status |-> "claimed", uri |-> apply.uri, nonce |-> lease]
    <3>1. marker' \in Uploads!Marker /\ marker' # None /\ marker'.nonce = lease
      BY <1>1, <1>4, <2>3, Acquiring
    <3>2. QED
      BY <1>4, <2>3, <3>1 DEF Uploads!Acquire
  <2>5. Uploads!LeaseNonce' = lease
    BY <2>1, <2>2, <2>3 DEF Uploads!LeaseNonce
  <2>6. Uploads!IsMarker("claimed", apply.uri, Uploads!LeaseNonce)'
    BY <2>1, <2>2, <2>4, <2>5 DEF Uploads!IsMarker
  <2>7. marker = None \/ marker.status # "claimed"
    BY <1>4 DEF Uploads!Acquirable
  <2>8. (marker # None /\ marker'.nonce = marker.nonce) \/ (marker = None /\ marker'.nonce = Uploads!Lease)
    BY <1>4, <2>3, <2>4 DEF Uploads!Acquirable
  <2>9. \A g \in Uploads!Gens : up[g].phase \notin Uploads!Holding /\ ~Uploads!DirectHolds(g)
    BY <2>7, LeaseFree
  <2>10. QED
    BY <1>1, <1>2, <2>1, <2>2, <2>4, <2>6, <2>8, <2>9, ApplyLeaseMoves
<1>5. QED
  BY <1>3, <1>4 DEF Uploads!ApplyAcquire

\* An apply that has the lease lets go of it.
LEMMA ApplyLetsGo ==
    ASSUME Uploads!IInv, Uploads!Aging, Uploads!ApplyHolds, NEW status \in {"canceled", "completed"}, Uploads!Release(apply.uri, Uploads!LeaseNonce, status),
           NEW retry \in BOOLEAN, Uploads!Ends(retry),
           UNCHANGED <<bytes, inst, covered, task, up, direct, enq, job>>, faults' \in 0..MaxFaults
    PROVE  Uploads!IInv'
<1>1. apply # None /\ apply \in Uploads!Apply /\ apply.uri \in Uploads!Gens /\ Uploads!LeaseNonce \in Uploads!Gens \cup {Uploads!Lease}
  BY QueueFacts, PlacesAre DEF Uploads!ApplyHolds
<1>2. PICK a : a = [apply EXCEPT !.phase = "end", !.retry = retry] /\ apply' = a
  BY DEF Uploads!Ends
<1>3. a \in Uploads!Apply /\ a.phase = "end" /\ a.uri = apply.uri /\ a.nonce = apply.nonce /\ a.gen = apply.gen
  BY <1>1, <1>2 DEF Uploads!Apply
<1>4. Uploads!IsMarker("claimed", apply.uri, Uploads!LeaseNonce) /\ marker # None /\ marker.nonce = Uploads!LeaseNonce
  BY ApplyAlone DEF Uploads!IInv, Uploads!ApplyInOrder, Uploads!ApplyHolds
<1>5. marker' \in Uploads!Marker /\ marker'.nonce = Uploads!LeaseNonce
  BY <1>1, <1>4, Releasing
<1>6. QED
  BY <1>1, <1>2, <1>3, <1>4, <1>5, ApplyAlone, ApplyLeaseMoves

LEMMA ApplyThrowsKeeps ==
    ASSUME Uploads!IInv, Uploads!Aging, Uploads!ApplyThrows
    PROVE  Uploads!IInv'
<1>1. Uploads!ApplyHolds
  BY DEF Uploads!ApplyThrows, Uploads!Applying, Uploads!ApplyHolds
<1>2. QED
  BY <1>1, FaultIs, ApplyLetsGo DEF Uploads!ApplyThrows

LEMMA ApplyReleaseKeeps ==
    ASSUME Uploads!IInv, Uploads!Aging, Uploads!ApplyRelease
    PROVE  Uploads!IInv'
<1>1. Uploads!ApplyHolds /\ apply.retry \in BOOLEAN
  BY QueueFacts, ApplyFields DEF Uploads!ApplyRelease, Uploads!Applying, Uploads!ApplyHolds
<1>2. PICK status \in {"canceled", "completed"} : status = IF apply.failed THEN "canceled" ELSE "completed"
  OBVIOUS
<1>3. Uploads!Release(apply.uri, Uploads!LeaseNonce, status) /\ Uploads!Ends(apply.retry)
  BY <1>2 DEF Uploads!ApplyRelease
<1>4. UNCHANGED <<bytes, inst, covered, task, up, direct, enq, job, faults>> /\ faults' \in 0..MaxFaults
  BY DEF Uploads!ApplyRelease, Uploads!IInv, Uploads!TypeOK
<1>5. QED
  BY <1>1, <1>3, <1>4, ApplyLetsGo

\* A submission goes on, and leaves the file alone.
LEMMA DirectMoves ==
    ASSUME Uploads!IInv, Uploads!Aging, NEW g \in Uploads!Gens, inst # None, direct[g].phase # "none",
           UNCHANGED <<bytes, inst, task, up, apply, enq, job>>, covered' \in BOOLEAN, faults' \in 0..MaxFaults,
           direct' \in [Uploads!Gens -> Uploads!Direct], \A k \in Uploads!Gens : k # g => direct'[k] = direct[k],
           marker' = marker \/ (/\ marker # None /\ marker' \in Uploads!Marker /\ marker'.nonce = marker.nonce
                                /\ \A k \in Uploads!Gens : up[k].phase \notin Uploads!Holding /\ (k # g => ~Uploads!DirectHolds(k))
                                /\ ~Uploads!ApplyHolds),
           Uploads!DirectHolds(g)' => Uploads!IsMarker("claimed", Uploads!Uri(g), g)' /\ ~Uploads!ApplyHolds,
           direct'[g].phase = "sure" => inst.uri = Uploads!Uri(g)
    PROVE  Uploads!IInv'
<1>1. inPlace' = inPlace /\ Uploads!Content(inst.uri)' = Uploads!Content(inst.uri)
  BY DEF Uploads!Aging, Uploads!Content
<1>2. Uploads!TypeOK'
  BY UploadTypes, HandlerFacts, FileFacts, QueueFacts
<1>3. UploadsGoOn /\ MarkerGoesOn
  BY DEF UploadsGoOn, MarkerGoesOn
<1>4. Uploads!MarkerInOrder'
  <2>1. CASE marker' = marker
    BY <1>1, <1>3, <2>1, MarkerRests
  <2>2. CASE marker # None /\ marker' \in Uploads!Marker /\ marker'.nonce = marker.nonce
    <3>1. marker' # None
      BY <2>2, RecordsAssumption
    <3>2. marker.nonce = Uploads!Lease \/ (marker.nonce \in Uploads!Gens /\ up'[marker.nonce].phase \in Uploads!Holding \cup Uploads!Past)
      BY <2>2 DEF Uploads!IInv, Uploads!MarkerInOrder
    <3>3. QED
      BY <1>1, <2>2, <3>1, <3>2, MarkerChanges
  <2>3. QED
    BY <2>1, <2>2
<1>5. Uploads!TaskInOrder' /\ Uploads!JobInOrder'
  BY <1>1, <1>3, TaskStays, JobStays
<1>6. Uploads!ApplyInOrder'
  BY ApplyStays
<1>7. \A k \in -1..MaxUploads : Uploads!EnqueueInOrder(k)'
  BY <1>3, EnqueueStays
<1>8. \A k \in Uploads!Gens : Uploads!UploadInOrder(k)'
  BY <1>1, UploadStays
<1>9. Uploads!ApplyHolds' = Uploads!ApplyHolds
  BY DEF Uploads!ApplyHolds
<1>10. ASSUME NEW k \in Uploads!Gens PROVE Uploads!DirectInOrder(k)'
  <2>1. CASE k = g
    <3>1. up[g].phase = "over" /\ up[g].kind = "direct"
      BY DEF Uploads!IInv, Uploads!DirectInOrder
    <3>2. Uploads!Uri(g)' = Uploads!Uri(g)
      BY <1>1 DEF Uploads!Uri
    <3>3. QED
      BY <1>9, <2>1, <3>1, <3>2 DEF Uploads!DirectInOrder
  <2>2. CASE k # g
    <3>1. Uploads!DirectHolds(k) => marker' = marker /\ ~Uploads!ApplyHolds
      BY <2>2 DEF Uploads!IInv, Uploads!DirectInOrder
    <3>2. QED
      BY <1>1, <1>9, <2>2, <3>1, DirectStays
  <2>3. QED
    BY <2>1, <2>2
<1>11. Uploads!NothingBefore'
  BY DEF Uploads!NothingBefore
<1>12. QED
  BY <1>2, <1>4, <1>5, <1>6, <1>7, <1>8, <1>10, <1>11 DEF Uploads!IInv

\* A submission has a file, and keeps whoever holds the lease.
LEMMA SubmissionFacts ==
    ASSUME Uploads!IInv, NEW g \in Uploads!Gens, direct[g].phase # "none"
    PROVE  /\ inst # None /\ Uploads!Uri(g) \in Uploads!Gens /\ g \in Uploads!Gens \cup {Uploads!Lease} /\ g # 0 /\ g \in 0..MaxUploads
           /\ covered \in BOOLEAN /\ faults \in 0..MaxFaults
           /\ Uploads!DirectHolds(g) => /\ Uploads!IsMarker("claimed", Uploads!Uri(g), g) /\ marker # None /\ marker.nonce = g
                                        /\ \A k \in Uploads!Gens : up[k].phase \notin Uploads!Holding /\ (k # g => ~Uploads!DirectHolds(k))
                                        /\ ~Uploads!ApplyHolds
<1>1. inst # None
  BY DEF Uploads!IInv, Uploads!NothingBefore
<1>2. Uploads!Uri(g) \in Uploads!Gens /\ g # 0 /\ g \in 0..MaxUploads
  BY PlacesAre, GensFacts DEF Uploads!Gens
<1>3. covered \in BOOLEAN /\ faults \in 0..MaxFaults
  BY DEF Uploads!IInv, Uploads!TypeOK
<1>4. ASSUME Uploads!DirectHolds(g)
      PROVE  /\ Uploads!IsMarker("claimed", Uploads!Uri(g), g) /\ marker # None /\ marker.nonce = g
             /\ \A k \in Uploads!Gens : up[k].phase \notin Uploads!Holding /\ (k # g => ~Uploads!DirectHolds(k))
             /\ ~Uploads!ApplyHolds
  <2>1. Uploads!IsMarker("claimed", Uploads!Uri(g), g)
    BY <1>4 DEF Uploads!IInv, Uploads!DirectInOrder
  <2>2. QED
    BY <1>4, <2>1, DirectAlone
<1>5. QED
  BY <1>1, <1>2, <1>3, <1>4

LEMMA DirectCheckKeeps ==
    ASSUME Uploads!IInv, Uploads!Aging, NEW g \in Uploads!Gens, Uploads!DirectCheck(g)
    PROVE  Uploads!IInv'
<1>1. /\ direct[g].phase = "granted" /\ marker # None /\ marker' = marker
      /\ direct' = [direct EXCEPT ![g] = [phase |-> "checked", failed |-> FALSE]]
      /\ UNCHANGED <<bytes, inst, covered, task, up, apply, enq, job, faults>>
  BY DEF Uploads!DirectCheck
<1>2. PICK d : d = [phase |-> "checked", failed |-> FALSE] /\ direct' = [direct EXCEPT ![g] = d]
  BY <1>1
<1>3. d \in Uploads!Direct /\ d.phase = "checked"
  BY <1>2 DEF Uploads!Direct
<1>4. direct' \in [Uploads!Gens -> Uploads!Direct] /\ direct'[g] = d /\ \A k \in Uploads!Gens : k # g => direct'[k] = direct[k]
  BY <1>2, <1>3, HandlerFacts
<1>5. direct'[g].phase = "checked" /\ ~Uploads!DirectHolds(g)'
  BY <1>3, <1>4 DEF Uploads!DirectHolds
<1>6. QED
  BY <1>1, <1>4, <1>5, SubmissionFacts, DirectMoves

\* A submission that has the lease, or does not take it, goes on without a change of the marker.
LEMMA DirectGoesOn ==
    ASSUME Uploads!IInv, Uploads!Aging, NEW g \in Uploads!Gens, direct[g].phase # "none", marker' = marker,
           UNCHANGED <<bytes, inst, task, up, apply, enq, job>>, covered' \in BOOLEAN, faults' \in 0..MaxFaults,
           direct' \in [Uploads!Gens -> Uploads!Direct], \A k \in Uploads!Gens : k # g => direct'[k] = direct[k],
           Uploads!DirectHolds(g)' => Uploads!DirectHolds(g),
           direct'[g].phase = "sure" => inst.uri = Uploads!Uri(g)
    PROVE  Uploads!IInv'
<1>1. inst # None
  BY SubmissionFacts
<1>2. Uploads!Uri(g)' = Uploads!Uri(g)
  BY DEF Uploads!Aging, Uploads!Uri
<1>3. Uploads!DirectHolds(g)' => Uploads!IsMarker("claimed", Uploads!Uri(g), g)' /\ ~Uploads!ApplyHolds
  <2>1. Uploads!DirectHolds(g) => Uploads!IsMarker("claimed", Uploads!Uri(g), g) /\ ~Uploads!ApplyHolds
    BY SubmissionFacts
  <2>2. QED
    BY <1>2, <2>1 DEF Uploads!IsMarker
<1>4. QED
  BY <1>1, <1>3, DirectMoves

\* One that has the lease lets go of it.
LEMMA DirectLetsGo ==
    ASSUME Uploads!IInv, Uploads!Aging, NEW g \in Uploads!Gens, Uploads!DirectHolds(g), NEW status \in {"canceled", "completed"},
           Uploads!Release(Uploads!Uri(g), g, status), Uploads!Submits(g, "granted"),
           UNCHANGED <<bytes, inst, covered, task, up, apply, enq, job>>, faults' \in 0..MaxFaults
    PROVE  Uploads!IInv'
<1>1. direct[g].phase # "none"
  BY DEF Uploads!DirectHolds
<1>2. /\ inst # None /\ Uploads!Uri(g) \in Uploads!Gens /\ g \in Uploads!Gens \cup {Uploads!Lease} /\ covered' \in BOOLEAN
      /\ Uploads!IsMarker("claimed", Uploads!Uri(g), g) /\ marker # None /\ marker.nonce = g
      /\ \A k \in Uploads!Gens : up[k].phase \notin Uploads!Holding /\ (k # g => ~Uploads!DirectHolds(k))
      /\ ~Uploads!ApplyHolds
  BY <1>1, SubmissionFacts
<1>3. marker' \in Uploads!Marker /\ marker'.nonce = g
  BY <1>2, Releasing
<1>4. direct' \in [Uploads!Gens -> Uploads!Direct] /\ direct'[g].phase = "granted" /\ \A k \in Uploads!Gens : k # g => direct'[k] = direct[k]
  BY Submitting
<1>5. ~Uploads!DirectHolds(g)'
  BY <1>4 DEF Uploads!DirectHolds
<1>6. QED
  BY <1>1, <1>2, <1>3, <1>4, <1>5, DirectMoves

LEMMA DirectAcquireKeeps ==
    ASSUME Uploads!IInv, Uploads!Aging, NEW g \in Uploads!Gens, Uploads!DirectAcquire(g)
    PROVE  Uploads!IInv'
<1>1. direct[g].phase = "checked" /\ UNCHANGED <<bytes, inst, covered, task, up, apply, enq, job, faults>>
  BY DEF Uploads!DirectAcquire
<1>2. /\ inst # None /\ Uploads!Uri(g) \in Uploads!Gens /\ g \in 0..MaxUploads /\ g # 0
      /\ covered' \in BOOLEAN /\ faults' \in 0..MaxFaults
  BY <1>1, SubmissionFacts
<1>3. ASSUME Uploads!Submits(g, "granted"), marker' = marker PROVE Uploads!IInv'
  <2>1. direct' \in [Uploads!Gens -> Uploads!Direct] /\ direct'[g].phase = "granted" /\ \A k \in Uploads!Gens : k # g => direct'[k] = direct[k]
    BY <1>3, Submitting
  <2>2. ~Uploads!DirectHolds(g)'
    BY <2>1 DEF Uploads!DirectHolds
  <2>3. QED
    BY <1>1, <1>2, <1>3, <2>1, <2>2, DirectGoesOn
<1>4. ASSUME Uploads!Acquirable(Uploads!Uri(g), g), Uploads!Acquire(Uploads!Uri(g), g), Uploads!Submits(g, "held") PROVE Uploads!IInv'
  <2>1. direct' \in [Uploads!Gens -> Uploads!Direct] /\ direct'[g].phase = "held" /\ \A k \in Uploads!Gens : k # g => direct'[k] = direct[k]
    BY <1>4, Submitting
  <2>2. marker # None /\ marker.status # "claimed" /\ marker.nonce = g
    BY <1>2, <1>4 DEF Uploads!Acquirable
  <2>3. PICK uri : uri = Uploads!Uri(g)
    OBVIOUS
  <2>4. uri \in Uploads!Gens /\ Uploads!Acquire(uri, g) /\ g = IF g = 0 THEN Uploads!Lease ELSE g
    BY <1>2, <1>4, <2>3
  <2>5. marker' \in Uploads!Marker /\ marker'.nonce = g /\ Uploads!IsMarker("claimed", uri, g)'
    <3>1. marker' \in Uploads!Marker /\ marker' # None /\ marker'.nonce = g
      BY <1>2, <2>4, Acquiring
    <3>2. marker' = [status |-> "claimed", uri |-> uri, nonce |-> g]
      BY <1>2, <2>4 DEF Uploads!Acquire
    <3>3. QED
      BY <3>1, <3>2 DEF Uploads!IsMarker
  <2>6. Uploads!Uri(g)' = Uploads!Uri(g)
    BY DEF Uploads!Aging, Uploads!Uri
  <2>7. Uploads!IsMarker("claimed", Uploads!Uri(g), g)'
    BY <2>3, <2>5, <2>6 DEF Uploads!IsMarker
  <2>8. (\A k \in Uploads!Gens : up[k].phase \notin Uploads!Holding /\ ~Uploads!DirectHolds(k)) /\ ~Uploads!ApplyHolds
    BY <2>2, LeaseFree
  <2>9. QED
    BY <1>1, <1>2, <2>1, <2>2, <2>5, <2>7, <2>8, DirectMoves
<1>5. QED
  BY <1>3, <1>4 DEF Uploads!DirectAcquire

LEMMA DirectRecheckKeeps ==
    ASSUME Uploads!IInv, Uploads!Aging, NEW g \in Uploads!Gens, Uploads!DirectRecheck(g)
    PROVE  Uploads!IInv'
<1>1. /\ direct[g].phase = "held" /\ Uploads!DirectHolds(g)
      /\ UNCHANGED <<bytes, inst, covered, task, up, apply, enq, job, faults>>
  BY DEF Uploads!DirectRecheck, Uploads!DirectHolds
<1>2. covered' \in BOOLEAN /\ faults' \in 0..MaxFaults
  BY <1>1, SubmissionFacts
<1>3. ASSUME inst.uri = Uploads!Uri(g), Uploads!Submits(g, "sure"), marker' = marker PROVE Uploads!IInv'
  <2>1. direct' \in [Uploads!Gens -> Uploads!Direct] /\ \A k \in Uploads!Gens : k # g => direct'[k] = direct[k]
    BY <1>3, Submitting
  <2>2. QED
    BY <1>1, <1>2, <1>3, <2>1, DirectGoesOn
<1>4. ASSUME Uploads!Release(Uploads!Uri(g), g, "canceled"), Uploads!Submits(g, "granted") PROVE Uploads!IInv'
  BY <1>1, <1>2, <1>4, DirectLetsGo
<1>5. QED
  BY <1>3, <1>4 DEF Uploads!DirectRecheck

LEMMA DirectThrowsKeeps ==
    ASSUME Uploads!IInv, Uploads!Aging, NEW g \in Uploads!Gens, Uploads!DirectThrows(g)
    PROVE  Uploads!IInv'
<1>1. Uploads!DirectHolds(g)
  BY DEF Uploads!DirectThrows, Uploads!DirectHolds
<1>2. QED
  BY <1>1, FaultIs, DirectLetsGo DEF Uploads!DirectThrows

LEMMA DirectCoverKeeps ==
    ASSUME Uploads!IInv, Uploads!Aging, NEW g \in Uploads!Gens, NEW saved \in BOOLEAN, Uploads!DirectCover(g, saved)
    PROVE  Uploads!IInv'
<1>1. /\ direct[g].phase = "applied" /\ Uploads!DirectHolds(g) /\ Uploads!Submits(g, "covered")
      /\ UNCHANGED <<bytes, inst, marker, task, up, apply, enq, job, faults>>
  BY DEF Uploads!DirectCover, Uploads!DirectHolds
<1>2. covered' \in BOOLEAN /\ faults' \in 0..MaxFaults
  BY <1>1, SubmissionFacts DEF Uploads!DirectCover
<1>3. direct' \in [Uploads!Gens -> Uploads!Direct] /\ direct'[g].phase = "covered" /\ \A k \in Uploads!Gens : k # g => direct'[k] = direct[k]
  BY <1>1, Submitting
<1>4. QED
  BY <1>1, <1>2, <1>3, DirectGoesOn

LEMMA DirectCoverThrowsKeeps ==
    ASSUME Uploads!IInv, Uploads!Aging, NEW g \in Uploads!Gens, Uploads!DirectCoverThrows(g)
    PROVE  Uploads!IInv'
<1>1. /\ direct[g].phase = "applied" /\ Uploads!DirectHolds(g) /\ Uploads!Fault
      /\ direct' = [direct EXCEPT ![g].phase = "covered", ![g].failed = TRUE]
      /\ UNCHANGED <<bytes, inst, covered, marker, task, up, apply, enq, job>>
  BY DEF Uploads!DirectCoverThrows, Uploads!DirectHolds
<1>2. covered' \in BOOLEAN /\ faults' \in 0..MaxFaults
  BY <1>1, SubmissionFacts, FaultIs
<1>3. direct \in [Uploads!Gens -> Uploads!Direct] /\ direct[g] \in Uploads!Direct
  BY HandlerFacts
<1>4. PICK d : d = [direct[g] EXCEPT !.phase = "covered", !.failed = TRUE] /\ direct' = [direct EXCEPT ![g] = d]
  BY <1>1, <1>3
<1>5. d \in Uploads!Direct /\ d.phase = "covered"
  BY <1>3, <1>4 DEF Uploads!Direct
<1>6. direct' \in [Uploads!Gens -> Uploads!Direct] /\ direct'[g].phase = "covered" /\ \A k \in Uploads!Gens : k # g => direct'[k] = direct[k]
  BY <1>3, <1>4, <1>5
<1>7. QED
  BY <1>1, <1>2, <1>6, DirectGoesOn

LEMMA DirectReleaseKeeps ==
    ASSUME Uploads!IInv, Uploads!Aging, NEW g \in Uploads!Gens, Uploads!DirectRelease(g)
    PROVE  Uploads!IInv'
<1>1. Uploads!DirectHolds(g) /\ direct[g].phase # "none"
  BY DEF Uploads!DirectRelease, Uploads!DirectHolds
<1>2. PICK status \in {"canceled", "completed"} : status = IF direct[g].failed THEN "canceled" ELSE "completed"
  OBVIOUS
<1>3. /\ Uploads!Release(Uploads!Uri(g), g, status) /\ Uploads!Submits(g, "granted")
      /\ UNCHANGED <<bytes, inst, covered, task, up, apply, enq, job, faults>>
  BY <1>2 DEF Uploads!DirectRelease
<1>4. faults' \in 0..MaxFaults
  BY <1>1, <1>3, SubmissionFacts
<1>5. QED
  BY <1>1, <1>3, <1>4, DirectLetsGo

\* What is queued alone.
LEMMA DirectFallbackKeeps ==
    ASSUME Uploads!IInv, Uploads!Aging, NEW g \in Uploads!Gens, Uploads!DirectFallback(g)
    PROVE  Uploads!IInv'
<1>1. /\ direct[g].phase = "granted" /\ Uploads!Queue(Uploads!Fallback, inst.uri, g, FALSE)
      /\ UNCHANGED <<bytes, inst, covered, marker, task, up, direct, apply, job, faults>>
  BY DEF Uploads!DirectFallback
<1>2. inst # None /\ inst.uri \in Uploads!Gens /\ g \in 0..MaxUploads /\ up[g].phase \in Uploads!Past
  BY <1>1, SubmissionFacts, FileFacts DEF Uploads!IInv, Uploads!DirectInOrder, Uploads!Past
<1>3. enq' \in [-1..MaxUploads -> Uploads!Enqueue \cup {None}] /\ \A j \in -1..MaxUploads : Uploads!EnqueueInOrder(j)'
  BY <1>1, <1>2, Queued, JobAndFallback, UploadsRest
<1>4. job' \in Uploads!AtMarker \cup {None} /\ Uploads!JobInOrder'
  <2>1. Uploads!JobInOrder'
    BY <1>1, JobStays, UploadsRest, MarkerSame
  <2>2. QED
    BY <1>1, <2>1 DEF Uploads!IInv, Uploads!TypeOK
<1>5. QED
  BY <1>1, <1>2, <1>3, <1>4, JobMoves

\* The file with tags.
LEMMA TaggedFile ==
    ASSUME Uploads!IInv, inst # None, NEW t \in Uploads!Gens, inst' = [inst EXCEPT !.scanned = TRUE, !.tags = t]
    PROVE  /\ inst' \in Uploads!Instance /\ inst' # None /\ inst'.uri = inst.uri /\ inst'.scanned /\ inst'.tags = t /\ t # None
<1>1. inst \in Uploads!Instance
  BY FileFacts
<1>2. inst' \in Uploads!Instance /\ inst'.uri = inst.uri /\ inst'.scanned /\ inst'.tags = t
  BY <1>1 DEF Uploads!Instance
<1>3. t # None
  BY RecordsAssumption, GensFacts
<1>4. QED
  BY <1>2, <1>3, RecordsAssumption

\* While no upload has the lease, tags are written.
LEMMA TagsAreSet ==
    ASSUME Uploads!IInv, Uploads!Aging, inst # None, NEW t \in Uploads!Gens, inst' = [inst EXCEPT !.scanned = TRUE, !.tags = t],
           UNCHANGED <<bytes, marker, task, up, enq, job, faults>>, covered' \in BOOLEAN,
           \A k \in Uploads!Gens : up[k].phase \notin Uploads!Holding,
           direct' \in [Uploads!Gens -> Uploads!Direct], apply' = apply \/ (apply' \in Uploads!Apply /\ apply # None),
           Uploads!ApplyInOrder', \A k \in Uploads!Gens : Uploads!DirectInOrder(k)'
    PROVE  Uploads!IInv'
<1>1. inPlace' = inPlace
  BY DEF Uploads!Aging
<1>2. inst' \in Uploads!Instance /\ inst' # None /\ inst'.uri = inst.uri /\ inst'.scanned /\ inst'.tags # None
  BY TaggedFile
<1>3. Uploads!Content(inst.uri)' = Uploads!Content(inst.uri)
  BY <1>1, <1>2 DEF Uploads!Content
<1>4. Uploads!TypeOK'
  <2>1. bytes' \in 0..MaxUploads /\ faults' \in 0..MaxFaults /\ up' \in [Uploads!Gens -> Uploads!Upload]
    BY DEF Uploads!IInv, Uploads!TypeOK
  <2>2. enq' \in [-1..MaxUploads -> Uploads!Enqueue \cup {None}]
    BY DEF Uploads!IInv, Uploads!TypeOK
  <2>3. apply # None => task # None /\ task.note = "applying"
    BY DEF Uploads!IInv, Uploads!TypeOK
  <2>4. QED
    BY <1>2, <2>1, <2>2, <2>3, UploadTypes
<1>5. UploadsGoOn /\ MarkerGoesOn
  BY DEF UploadsGoOn, MarkerGoesOn
<1>6. Uploads!MarkerInOrder'
  <2>1. bytes # 0
    BY DEF Uploads!IInv, Uploads!MarkerInOrder
  <2>2. marker # None => \/ marker.nonce = Uploads!Lease
                         \/ (marker.nonce \in Uploads!Gens /\ up[marker.nonce].phase \in Uploads!Holding \cup Uploads!Past)
    BY DEF Uploads!IInv, Uploads!MarkerInOrder
  <2>3. QED
    BY <1>2, <2>1, <2>2 DEF Uploads!MarkerInOrder
<1>7. Uploads!TaskInOrder' /\ Uploads!JobInOrder'
  BY <1>2, <1>3, <1>5, TaskStays, JobStays
<1>8. \A k \in -1..MaxUploads : Uploads!EnqueueInOrder(k)'
  BY <1>5, EnqueueStays
<1>9. ASSUME NEW k \in Uploads!Gens PROVE Uploads!UploadInOrder(k)'
  <2>1. k = 1 /\ up[k].phase \in {"idle", "create"} => inst' = inst
    BY DEF Uploads!IInv, Uploads!UploadInOrder
  <2>2. QED
    BY <1>1, <2>1, UploadStays
<1>10. Uploads!NothingBefore'
  BY <1>2 DEF Uploads!NothingBefore
<1>11. QED
  BY <1>4, <1>6, <1>7, <1>8, <1>9, <1>10 DEF Uploads!IInv

LEMMA ApplyTagsKeeps ==
    ASSUME Uploads!IInv, Uploads!Aging, NEW cover \in BOOLEAN, Uploads!ApplyTags(cover)
    PROVE  Uploads!IInv'
<1>1. /\ apply # None /\ apply \in Uploads!Apply /\ apply.phase = "held" /\ Uploads!ApplyHolds /\ apply.gen \in Uploads!Gens
      /\ inst # None
      /\ UNCHANGED <<bytes, marker, task, up, direct, enq, job, faults>>
  BY QueueFacts DEF Uploads!ApplyTags, Uploads!Applying, Uploads!ApplyHolds
<1>2. PICK a : a = [apply EXCEPT !.phase = "applied"] /\ apply' = a
  BY DEF Uploads!ApplyTags
<1>3. a \in Uploads!Apply /\ a.phase = "applied" /\ a.uri = apply.uri /\ a.nonce = apply.nonce /\ a.gen = apply.gen
  BY <1>1, <1>2 DEF Uploads!Apply
<1>4. covered' \in BOOLEAN /\ faults' \in 0..MaxFaults
  BY DEF Uploads!ApplyTags, Uploads!IInv, Uploads!TypeOK
<1>5. ASSUME inst' = inst PROVE Uploads!IInv'
  BY <1>1, <1>2, <1>3, <1>4, <1>5, ApplyMoves
<1>6. ASSUME inst' = [inst EXCEPT !.scanned = TRUE, !.tags = apply.gen] PROVE Uploads!IInv'
  <2>1. (\A k \in Uploads!Gens : up[k].phase \notin Uploads!Holding /\ ~Uploads!DirectHolds(k)) /\ Uploads!IsMarker("claimed", apply.uri, Uploads!LeaseNonce)
    BY <1>1, ApplyAlone DEF Uploads!IInv, Uploads!ApplyInOrder
  <2>2. Uploads!ApplyInOrder'
    <3>1. Uploads!LeaseNonce' = Uploads!LeaseNonce
      BY <1>2, <1>3 DEF Uploads!LeaseNonce
    <3>2. Uploads!IsMarker("claimed", apply.uri, Uploads!LeaseNonce)'
      BY <1>1, <1>2, <1>3, <2>1, <3>1 DEF Uploads!IsMarker
    <3>3. apply.nonce = task.nonce /\ apply.gen = task.read
      BY <1>1 DEF Uploads!IInv, Uploads!ApplyInOrder
    <3>4. QED
      BY <1>1, <1>2, <1>3, <3>2, <3>3 DEF Uploads!ApplyInOrder
  <2>3. ASSUME NEW k \in Uploads!Gens PROVE Uploads!DirectInOrder(k)'
    <3>1. inPlace' = inPlace
      BY DEF Uploads!Aging
    <3>2. QED
      BY <1>1, <2>1, <3>1, DirectStays
  <2>4. apply' \in Uploads!Apply /\ direct' \in [Uploads!Gens -> Uploads!Direct]
    BY <1>1, <1>2, <1>3, HandlerFacts
  <2>5. QED
    BY <1>1, <1>4, <1>6, <2>1, <2>2, <2>3, <2>4, TagsAreSet
<1>7. QED
  BY <1>5, <1>6 DEF Uploads!ApplyTags

LEMMA DirectTagsKeeps ==
    ASSUME Uploads!IInv, Uploads!Aging, NEW g \in Uploads!Gens, NEW cover \in BOOLEAN, Uploads!DirectTags(g, cover)
    PROVE  Uploads!IInv'
<1>1. /\ direct[g].phase = "sure" /\ Uploads!DirectHolds(g) /\ Uploads!Submits(g, "applied") /\ covered' = cover
      /\ inst' = [inst EXCEPT !.scanned = TRUE, !.tags = g]
      /\ UNCHANGED <<bytes, marker, task, up, apply, enq, job, faults>>
  BY DEF Uploads!DirectTags, Uploads!DirectHolds
<1>2. /\ inst # None /\ Uploads!IsMarker("claimed", Uploads!Uri(g), g) /\ ~Uploads!ApplyHolds
      /\ \A k \in Uploads!Gens : up[k].phase \notin Uploads!Holding /\ (k # g => ~Uploads!DirectHolds(k))
  BY <1>1, SubmissionFacts
<1>3. direct' \in [Uploads!Gens -> Uploads!Direct] /\ direct'[g].phase = "applied" /\ \A k \in Uploads!Gens : k # g => direct'[k] = direct[k]
  BY <1>1, Submitting
<1>4. inPlace' = inPlace /\ Uploads!ApplyHolds' = Uploads!ApplyHolds
  BY <1>1 DEF Uploads!Aging, Uploads!ApplyHolds
<1>5. Uploads!ApplyInOrder'
  BY <1>1, ApplyStays
<1>6. ASSUME NEW k \in Uploads!Gens PROVE Uploads!DirectInOrder(k)'
  <2>1. CASE k = g
    <3>1. up[g].phase = "over" /\ up[g].kind = "direct"
      BY <1>1 DEF Uploads!IInv, Uploads!DirectInOrder
    <3>2. Uploads!IsMarker("claimed", Uploads!Uri(g), g)'
      BY <1>1, <1>2, <1>4 DEF Uploads!IsMarker, Uploads!Uri
    <3>3. QED
      BY <1>1, <1>2, <1>3, <1>4, <2>1, <3>1, <3>2 DEF Uploads!DirectInOrder
  <2>2. CASE k # g
    BY <1>1, <1>2, <1>3, <1>4, <2>2, DirectStays
  <2>3. QED
    BY <2>1, <2>2
<1>7. QED
  BY <1>1, <1>2, <1>3, <1>5, <1>6, TagsAreSet

\* An upload goes on, and leaves the file and the lease alone.
LEMMA UploadMoves ==
    ASSUME Uploads!IInv, Uploads!Aging, NEW g \in Uploads!Gens, up[g].phase # "over", up' \in [Uploads!Gens -> Uploads!Upload], \A k \in Uploads!Gens : k # g => up'[k] = up[k],
           up[g].phase \in Uploads!Past => up'[g].phase \in Uploads!Past, up[g].phase \in Uploads!Holding => up'[g].phase \in Uploads!Holding \cup Uploads!Past,
           UNCHANGED <<bytes, inst, covered, marker, task, direct, apply, job>>, faults' \in 0..MaxFaults,
           enq' \in [-1..MaxUploads -> Uploads!Enqueue \cup {None}], \A k \in -1..MaxUploads : Uploads!EnqueueInOrder(k)',
           inst = None => up'[g].phase \in {"create", "over"} /\ enq' = enq,
           Uploads!UploadInOrder(g)'
    PROVE  Uploads!IInv'
<1>1. inPlace' = inPlace /\ Uploads!Content(inst.uri)' = Uploads!Content(inst.uri)
  BY DEF Uploads!Aging, Uploads!Content
<1>2. Uploads!TypeOK'
  BY UploadTypes, HandlerFacts, FileFacts
<1>3. UploadsGoOn /\ MarkerGoesOn
  BY MarkerSame DEF UploadsGoOn
<1>4. Uploads!MarkerInOrder'
  BY <1>1, <1>3, MarkerRests
<1>5. Uploads!TaskInOrder' /\ Uploads!JobInOrder' /\ Uploads!ApplyInOrder'
  BY <1>1, <1>3, TaskStays, JobStays, ApplyStays
<1>6. \A k \in Uploads!Gens : Uploads!UploadInOrder(k)'
  BY <1>1, UploadStays
<1>7. Uploads!ApplyHolds' = Uploads!ApplyHolds
  BY DEF Uploads!ApplyHolds
<1>8. ASSUME NEW k \in Uploads!Gens PROVE Uploads!DirectInOrder(k)'
  <2>1. direct[k].phase # "none" => up'[k] = up[k]
    BY DEF Uploads!IInv, Uploads!DirectInOrder
  <2>2. Uploads!DirectHolds(k) => ~Uploads!ApplyHolds
    BY DEF Uploads!IInv, Uploads!DirectInOrder
  <2>3. QED
    BY <1>1, <1>7, <2>1, <2>2, DirectStays
<1>9. Uploads!NothingBefore'
  BY DEF Uploads!IInv, Uploads!NothingBefore
<1>10. QED
  BY <1>2, <1>4, <1>5, <1>6, <1>8, <1>9, <1>2 DEF Uploads!IInv

LEMMA StartKeeps ==
    ASSUME Uploads!IInv, Uploads!Aging, NEW g \in Uploads!Gens, NEW kind \in Kinds, Uploads!Start(g, kind)
    PROVE  Uploads!IInv'
<1>1. /\ up[g].phase = "idle" /\ (g > 1 => inst # None)
      /\ UNCHANGED <<bytes, inst, covered, marker, task, direct, apply, enq, job, faults>>
  BY DEF Uploads!Start
<1>2. PICK u : /\ up' = [up EXCEPT ![g] = u]
               /\ u = IF inst = None THEN [kind |-> kind, seen |-> 0, phase |-> "create"]
                      ELSE [kind |-> kind, seen |-> inst.uri, phase |-> "mark"]
  BY DEF Uploads!Start
<1>3. u \in Uploads!Upload /\ u.phase = IF inst = None THEN "create" ELSE "mark"
  BY <1>2, FileFacts DEF Uploads!Upload
<1>4. up' \in [Uploads!Gens -> Uploads!Upload] /\ up'[g] = u /\ \A k \in Uploads!Gens : k # g => up'[k] = up[k]
  BY <1>2, <1>3, HandlerFacts
<1>5. up[g].phase \notin Uploads!Past /\ up[g].phase \notin Uploads!Holding /\ up'[g].phase \notin Uploads!Holding
  BY <1>1, <1>3, <1>4 DEF Uploads!Past, Uploads!Holding
<1>6. faults' \in 0..MaxFaults /\ enq' \in [-1..MaxUploads -> Uploads!Enqueue \cup {None}]
  BY <1>1 DEF Uploads!IInv, Uploads!TypeOK
<1>7. \A k \in -1..MaxUploads : Uploads!EnqueueInOrder(k)'
  <2>1. UploadsGoOn
    BY <1>4, <1>5 DEF UploadsGoOn
  <2>2. QED
    BY <1>1, <2>1, EnqueueStays
<1>8. Uploads!UploadInOrder(g)'
  <2>1. inst = None => g = 1
    BY <1>1, GensFacts DEF Uploads!Gens
  <2>2. g = 1 => inst = None
    BY <1>1 DEF Uploads!IInv, Uploads!UploadInOrder
  <2>3. CASE inst = None
    BY <1>1, <1>3, <1>4, <1>5, <2>1, <2>3 DEF Uploads!UploadInOrder
  <2>4. CASE inst # None
    BY <1>1, <1>3, <1>4, <1>5, <2>2, <2>4 DEF Uploads!UploadInOrder
  <2>5. QED
    BY <2>3, <2>4
<1>9. QED
  BY <1>1, <1>3, <1>4, <1>5, <1>6, <1>7, <1>8, UploadMoves

\* An upload whose file is there; only one that is over has a capability.
LEMMA UploadHasFile ==
    ASSUME Uploads!IInv, NEW g \in Uploads!Gens, up[g].phase \notin {"idle", "create", "over"}
    PROVE  /\ inst # None /\ Uploads!Uri(g) \in Uploads!Gens /\ g \in Uploads!Gens \cup {Uploads!Lease} /\ g # 0 /\ g \in 0..MaxUploads
           /\ direct[g].phase = "none" /\ covered \in BOOLEAN /\ faults \in 0..MaxFaults
           /\ enq \in [-1..MaxUploads -> Uploads!Enqueue \cup {None}]
<1>1. inst # None /\ direct[g].phase = "none"
  BY DEF Uploads!IInv, Uploads!NothingBefore, Uploads!DirectInOrder
<1>2. Uploads!Uri(g) \in Uploads!Gens /\ g # 0 /\ g \in 0..MaxUploads
  BY PlacesAre, GensFacts DEF Uploads!Gens
<1>3. covered \in BOOLEAN /\ faults \in 0..MaxFaults /\ enq \in [-1..MaxUploads -> Uploads!Enqueue \cup {None}]
  BY DEF Uploads!IInv, Uploads!TypeOK
<1>4. QED
  BY <1>1, <1>2, <1>3

\* An upload that is refused, or leaves the tags to the queue.
LEMMA UploadLeaves ==
    ASSUME Uploads!IInv, Uploads!Aging, NEW g \in Uploads!Gens, up[g].phase \notin {"idle", "create", "over"}, NEW phase \in Uploads!Past, Uploads!Goes(g, phase),
           UNCHANGED <<bytes, inst, covered, marker, task, direct, apply, job>>, faults' \in 0..MaxFaults,
           enq' \in [-1..MaxUploads -> Uploads!Enqueue \cup {None}],
           enq' = enq \/ \A k \in -1..MaxUploads : Uploads!EnqueueInOrder(k)'
    PROVE  Uploads!IInv'
<1>1. inst # None
  BY UploadHasFile
<1>2. phase \in {"finish", "over"} /\ phase \notin Uploads!Holding
  BY DEF Uploads!Past, Uploads!Holding
<1>3. up' \in [Uploads!Gens -> Uploads!Upload] /\ up'[g].phase = phase /\ \A k \in Uploads!Gens : k # g => up'[k] = up[k]
  BY <1>2, Going
<1>4. UploadsGoOn
  BY <1>3 DEF UploadsGoOn
<1>5. \A k \in -1..MaxUploads : Uploads!EnqueueInOrder(k)'
  BY <1>4, EnqueueStays
<1>6. Uploads!UploadInOrder(g)'
  BY <1>2, <1>3 DEF Uploads!UploadInOrder
<1>7. QED
  BY <1>1, <1>3, <1>5, <1>6, UploadMoves

LEMMA FinishKeeps ==
    ASSUME Uploads!IInv, Uploads!Aging, NEW g \in Uploads!Gens, Uploads!Finish(g)
    PROVE  Uploads!IInv'
<1>1. /\ up[g].phase = "finish" /\ Uploads!Goes(g, "over")
      /\ UNCHANGED <<bytes, inst, covered, marker, task, direct, apply, job, faults>>
  BY DEF Uploads!Finish
<1>2. PICK nonce \in {0, g} : Uploads!Queue(g, Uploads!Uri(g), nonce, FALSE)
  BY DEF Uploads!Finish
<1>3. nonce \in 0..MaxUploads /\ (nonce # 0 => nonce = g) /\ Uploads!Uri(g) \in Uploads!Gens /\ faults' \in 0..MaxFaults
  BY <1>1, <1>2, UploadHasFile, GensFacts
<1>4. up'[g].phase \in Uploads!Past /\ UploadsGoOn
  <2>1. up'[g].phase = "over" /\ \A k \in Uploads!Gens : k # g => up'[k] = up[k]
    BY <1>1, Going
  <2>2. QED
    BY <2>1 DEF UploadsGoOn, Uploads!Past
<1>5. enq' \in [-1..MaxUploads -> Uploads!Enqueue \cup {None}] /\ \A j \in -1..MaxUploads : Uploads!EnqueueInOrder(j)'
  BY <1>1, <1>2, <1>3, <1>4, Queued, JobAndFallback
<1>6. "over" \in Uploads!Past
  BY DEF Uploads!Past
<1>7. QED
  BY <1>1, <1>3, <1>5, <1>6, UploadLeaves

\* One that takes the lease.
LEMMA UploadTakes ==
    ASSUME Uploads!IInv, Uploads!Aging, NEW g \in Uploads!Gens, up[g].phase \in {"pend", "mark"}, Uploads!Markable, Uploads!Acquire(Uploads!Uri(g), g),
           NEW phase \in Uploads!Holding, Uploads!Goes(g, phase), up[g].phase = "pend" => phase = "pended", up[g].phase = "mark" => phase = "reset",
           UNCHANGED <<bytes, inst, covered, task, direct, apply, enq, job, faults>>
    PROVE  Uploads!IInv'
<1>1. /\ inst # None /\ Uploads!Uri(g) \in Uploads!Gens /\ g # 0 /\ g \in 0..MaxUploads /\ direct[g].phase = "none"
      /\ faults' \in 0..MaxFaults /\ enq \in [-1..MaxUploads -> Uploads!Enqueue \cup {None}]
  BY UploadHasFile
<1>2. inPlace' = inPlace /\ Uploads!Uri(g)' = Uploads!Uri(g)
  BY DEF Uploads!Aging, Uploads!Uri
<1>3. up' \in [Uploads!Gens -> Uploads!Upload] /\ up'[g].phase = phase /\ up'[g].kind = up[g].kind /\ \A k \in Uploads!Gens : k # g => up'[k] = up[k]
  BY Going
<1>4. (\A k \in Uploads!Gens : up[k].phase \notin Uploads!Holding /\ ~Uploads!DirectHolds(k)) /\ ~Uploads!ApplyHolds
  BY LeaseFree DEF Uploads!Markable
<1>5. PICK uri : uri = Uploads!Uri(g)
  OBVIOUS
<1>6. marker' \in Uploads!Marker /\ marker' # None /\ marker'.nonce = g /\ Uploads!IsMarker("claimed", Uploads!Uri(g), g)'
  <2>1. uri \in Uploads!Gens /\ Uploads!Acquire(uri, g) /\ g = IF g = 0 THEN Uploads!Lease ELSE g
    BY <1>1, <1>5
  <2>2. marker' \in Uploads!Marker /\ marker' # None /\ marker'.nonce = g
    BY <1>1, <2>1, Acquiring
  <2>3. marker' = [status |-> "claimed", uri |-> Uploads!Uri(g), nonce |-> g]
    BY <1>1, <1>5, <2>1 DEF Uploads!Acquire
  <2>4. QED
    BY <1>2, <2>2, <2>3 DEF Uploads!IsMarker
<1>7. up[g].phase \notin Uploads!Past
  BY DEF Uploads!Past
<1>8. Uploads!TypeOK'
  <2>1. bytes' \in 0..MaxUploads /\ direct' \in [Uploads!Gens -> Uploads!Direct]
    BY FileFacts, HandlerFacts
  <2>2. QED
    BY <1>1, <1>3, <1>6, <2>1, UploadTypes
<1>9. UploadsGoOn /\ MarkerGoesOn
  BY <1>3, <1>4, <1>6, <1>7 DEF UploadsGoOn, MarkerGoesOn
<1>10. Uploads!ApplyInOrder'
  BY <1>4, ApplyStays
<1>11. ASSUME NEW k \in Uploads!Gens PROVE Uploads!UploadInOrder(k)'
  <2>1. CASE k # g
    BY <1>2, <1>3, <1>4, <2>1, UploadStays
  <2>2. CASE k = g
    <3>1. phase \in {"pended", "reset"} /\ (phase = "pended" <=> up[g].phase = "pend")
      OBVIOUS
    <3>2. (phase = "pended" => g = 1 /\ up[g].kind = "direct") /\ (phase = "reset" => g # 1)
      BY <3>1 DEF Uploads!IInv, Uploads!UploadInOrder
    <3>3. QED
      BY <1>3, <1>6, <2>2, <3>1, <3>2 DEF Uploads!UploadInOrder
  <2>3. QED
    BY <2>1, <2>2
<1>12. ASSUME NEW k \in Uploads!Gens PROVE Uploads!DirectInOrder(k)'
  BY <1>1, <1>2, <1>3, <1>4, DirectStays
<1>13. marker'.nonce \in Uploads!Gens /\ up'[marker'.nonce].phase \in Uploads!Holding /\ marker'.nonce # Uploads!Lease
  BY <1>3, <1>6, GensFacts
<1>14. QED
  BY <1>1, <1>6, <1>8, <1>9, <1>10, <1>11, <1>12, <1>13, LeaseStep

LEMMA MarkKeeps ==
    ASSUME Uploads!IInv, Uploads!Aging, NEW g \in Uploads!Gens, Uploads!Pend(g) \/ Uploads!Mark(g)
    PROVE  Uploads!IInv'
<1>1. /\ up[g].phase \in {"pend", "mark"}
      /\ UNCHANGED <<bytes, inst, covered, task, direct, apply, enq, job, faults>>
  BY DEF Uploads!Pend, Uploads!Mark
<1>2. "pended" \in Uploads!Holding /\ "reset" \in Uploads!Holding /\ "finish" \in Uploads!Past /\ "over" \in Uploads!Past
  BY DEF Uploads!Holding, Uploads!Past
<1>3. CASE Uploads!Markable
  BY <1>1, <1>2, <1>3, UploadTakes DEF Uploads!Pend, Uploads!Mark
<1>4. CASE ~Uploads!Markable
  BY <1>1, <1>2, <1>4, UploadHasFile, UploadLeaves DEF Uploads!Pend, Uploads!Mark
<1>5. QED
  BY <1>3, <1>4

\* An upload that has the lease goes on, with the file or without.
LEMMA UploadHolds ==
    ASSUME Uploads!IInv, Uploads!Aging, NEW g \in Uploads!Gens, up[g].phase \in Uploads!Holding,
           up' \in [Uploads!Gens -> Uploads!Upload], \A k \in Uploads!Gens : k # g => up'[k] = up[k], up'[g].phase \in Uploads!Holding \cup Uploads!Past,
           UNCHANGED <<covered, task, apply, enq, job>>, faults' \in 0..MaxFaults,
           marker' \in Uploads!Marker, marker'.nonce = g,
           bytes' \in Uploads!Gens, inst' \in Uploads!Instance, inst' = inst \/ ~inst'.scanned,
           Uploads!Content(inst.uri)' = Uploads!Content(inst.uri) \/ Uploads!Content(inst.uri)' # 1,
           direct' \in [Uploads!Gens -> Uploads!Direct], \A k \in Uploads!Gens : k # g => direct'[k] = direct[k],
           Uploads!UploadInOrder(g)', Uploads!DirectInOrder(g)'
    PROVE  Uploads!IInv'
<1>1. /\ inPlace' = inPlace /\ inst # None /\ inst' # None /\ marker' # None
      /\ (\A k \in Uploads!Gens : k # g => up[k].phase \notin Uploads!Holding) /\ (\A k \in Uploads!Gens : ~Uploads!DirectHolds(k)) /\ ~Uploads!ApplyHolds
  <2>1. up[g].phase \notin {"idle", "create", "over"}
    BY DEF Uploads!Holding
  <2>2. QED
    BY <2>1, UploadHasFile, UploadAlone, RecordsAssumption DEF Uploads!Aging
<1>2. Uploads!TypeOK'
  <2>1. bytes' \in 0..MaxUploads
    BY DEF Uploads!Gens
  <2>2. enq' \in [-1..MaxUploads -> Uploads!Enqueue \cup {None}]
    BY QueueFacts
  <2>3. inst' = inst \/ (inst' \in Uploads!Instance /\ (inst'.scanned => inst'.tags # None))
    OBVIOUS
  <2>4. QED
    BY <2>1, <2>2, <2>3, UploadTypes
<1>3. up[g].phase \notin Uploads!Past
  BY DEF Uploads!Holding, Uploads!Past
<1>4. UploadsGoOn /\ MarkerGoesOn /\ IsUploads
  BY <1>1, <1>3 DEF UploadsGoOn, MarkerGoesOn, IsUploads
<1>5. Uploads!MarkerInOrder'
  <2>1. g # Uploads!Lease /\ bytes' # 0
    BY GensFacts
  <2>2. QED
    BY <1>1, <2>1 DEF Uploads!MarkerInOrder
<1>6. Uploads!TaskInOrder' /\ Uploads!JobInOrder'
  BY <1>4, TaskStays, JobStays
<1>7. Uploads!ApplyInOrder' /\ ~Uploads!ApplyHolds'
  BY <1>1, ApplyStays DEF Uploads!ApplyHolds
<1>8. \A k \in -1..MaxUploads : Uploads!EnqueueInOrder(k)'
  BY <1>4, EnqueueStays
<1>9. ASSUME NEW k \in Uploads!Gens, k # g PROVE Uploads!UploadInOrder(k)'
  <2>1. k = 1 /\ up[k].phase \in {"idle", "create"} => inst' = inst
    BY <1>1 DEF Uploads!IInv, Uploads!UploadInOrder
  <2>2. QED
    BY <1>1, <1>9, <2>1, UploadStays
<1>10. ASSUME NEW k \in Uploads!Gens, k # g PROVE Uploads!DirectInOrder(k)'
  BY <1>1, <1>10, DirectStays
<1>11. Uploads!NothingBefore'
  BY <1>1 DEF Uploads!NothingBefore
<1>12. QED
  BY <1>2, <1>5, <1>6, <1>7, <1>8, <1>9, <1>10, <1>11 DEF Uploads!IInv

\* One that has it has a file, which nobody has tagged.
LEMMA HolderFacts ==
    ASSUME Uploads!IInv, NEW g \in Uploads!Gens, up[g].phase \in Uploads!Holding
    PROVE  /\ up[g].phase \notin {"idle", "create", "over"} /\ up[g].phase \notin Uploads!Past
           /\ inst # None /\ inst \in Uploads!Instance /\ bytes \in Uploads!Gens /\ g \in Uploads!Gens \cup {Uploads!Lease}
           /\ Uploads!IsMarker("claimed", Uploads!Uri(g), g) /\ marker # None /\ marker \in Uploads!Marker /\ marker.nonce = g
           /\ Uploads!Uri(g) \in Uploads!Gens /\ direct[g].phase = "none" /\ direct \in [Uploads!Gens -> Uploads!Direct] /\ faults \in 0..MaxFaults
<1>1. up[g].phase \notin {"idle", "create", "over"} /\ up[g].phase \notin Uploads!Past
  BY DEF Uploads!Holding, Uploads!Past
<1>2. inst # None /\ Uploads!Uri(g) \in Uploads!Gens /\ g \in Uploads!Gens \cup {Uploads!Lease} /\ direct[g].phase = "none" /\ faults \in 0..MaxFaults
  BY <1>1, UploadHasFile
<1>3. Uploads!IsMarker("claimed", Uploads!Uri(g), g) /\ marker # None /\ marker.nonce = g
  BY UploadAlone DEF Uploads!IInv, Uploads!UploadInOrder
<1>4. QED
  BY <1>1, <1>2, <1>3, FileFacts, HandlerFacts

LEMMA NoCapability ==
    ASSUME NEW g \in Uploads!Gens, direct'[g] = direct[g], direct[g].phase = "none"
    PROVE  Uploads!DirectInOrder(g)'
BY DEF Uploads!DirectInOrder, Uploads!DirectHolds

\* Letting go of the lease, with the capability or without.
LEMMA UploadLetsGo ==
    ASSUME Uploads!IInv, Uploads!Aging, NEW g \in Uploads!Gens, up[g].phase \in Uploads!Holding, Uploads!Release(Uploads!Uri(g), g, "canceled"),
           NEW phase \in Uploads!Past, Uploads!Goes(g, phase), bytes' \in Uploads!Gens,
           Uploads!Content(inst.uri)' = Uploads!Content(inst.uri) \/ Uploads!Content(inst.uri)' # 1,
           UNCHANGED <<inst, covered, task, apply, enq, job>>, faults' \in 0..MaxFaults,
           direct' = direct \/ (Uploads!Grant(g) /\ phase = "over" /\ up[g].kind = "direct")
    PROVE  Uploads!IInv'
<1>1. /\ inst \in Uploads!Instance /\ direct[g].phase = "none" /\ Uploads!Uri(g) \in Uploads!Gens /\ g \in Uploads!Gens \cup {Uploads!Lease}
      /\ Uploads!IsMarker("claimed", Uploads!Uri(g), g) /\ direct \in [Uploads!Gens -> Uploads!Direct]
  BY HolderFacts
<1>2. phase \in {"finish", "over"} /\ phase \notin Uploads!Holding
  BY DEF Uploads!Past, Uploads!Holding
<1>3. up' \in [Uploads!Gens -> Uploads!Upload] /\ up'[g].phase = phase /\ up'[g].kind = up[g].kind /\ \A k \in Uploads!Gens : k # g => up'[k] = up[k]
  BY <1>2, Going
<1>4. marker' \in Uploads!Marker /\ marker'.nonce = g
  BY <1>1, Releasing
<1>5. Uploads!UploadInOrder(g)'
  BY <1>2, <1>3 DEF Uploads!UploadInOrder
<1>6. /\ direct' \in [Uploads!Gens -> Uploads!Direct] /\ (\A k \in Uploads!Gens : k # g => direct'[k] = direct[k])
      /\ Uploads!DirectInOrder(g)'
  <2>1. CASE direct' = direct
    BY <1>1, <2>1, NoCapability
  <2>2. CASE Uploads!Grant(g) /\ phase = "over" /\ up[g].kind = "direct"
    <3>1. Uploads!Submits(g, "granted")
      BY <2>2 DEF Uploads!Grant, Uploads!Submits
    <3>2. direct' \in [Uploads!Gens -> Uploads!Direct] /\ direct'[g].phase = "granted" /\ \A k \in Uploads!Gens : k # g => direct'[k] = direct[k]
      BY <3>1, Submitting
    <3>3. QED
      BY <1>3, <2>2, <3>2 DEF Uploads!DirectInOrder, Uploads!DirectHolds
  <2>3. QED
    BY <2>1, <2>2
<1>7. QED
  BY <1>1, <1>3, <1>4, <1>5, <1>6, UploadHolds

LEMMA FreeLeaseKeeps ==
    ASSUME Uploads!IInv, Uploads!Aging, NEW g \in Uploads!Gens, Uploads!Pended(g) \/ Uploads!FreeLease(g)
    PROVE  Uploads!IInv'
<1>1. /\ up[g].phase \in {"pended", "release"} /\ Uploads!Release(Uploads!Uri(g), g, "canceled")
      /\ UNCHANGED <<bytes, inst, covered, task, apply, enq, job, faults>>
  BY DEF Uploads!Pended, Uploads!FreeLease
<1>2. up[g].phase \in Uploads!Holding
  BY <1>1 DEF Uploads!Holding
<1>3. /\ Uploads!IsMarker("claimed", Uploads!Uri(g), g) /\ Uploads!Uri(g) \in Uploads!Gens /\ g \in Uploads!Gens \cup {Uploads!Lease} /\ bytes' \in Uploads!Gens
      /\ faults' \in 0..MaxFaults
  BY <1>1, <1>2, HolderFacts
<1>4. marker' # marker
  BY <1>1, <1>3, Releasing
<1>5. Uploads!Content(inst.uri)' = Uploads!Content(inst.uri)
  BY <1>1 DEF Uploads!Content, Uploads!Aging
<1>6. PICK phase \in Uploads!Past : Uploads!Goes(g, phase) /\ (direct' = direct \/ (Uploads!Grant(g) /\ phase = "over" /\ up[g].kind = "direct"))
  <2>1. "over" \in Uploads!Past /\ "finish" \in Uploads!Past
    BY DEF Uploads!Past
  <2>2. up[g].phase = "pended" => up[g].kind = "direct"
    BY DEF Uploads!IInv, Uploads!UploadInOrder
  <2>3. CASE Uploads!Pended(g)
    BY <1>4, <2>1, <2>2, <2>3 DEF Uploads!Pended
  <2>4. CASE Uploads!FreeLease(g)
    BY <1>4, <2>1, <2>4 DEF Uploads!FreeLease
  <2>5. QED
    BY <2>3, <2>4
<1>7. QED
  BY <1>1, <1>2, <1>3, <1>5, <1>6, UploadLetsGo

LEMMA WriteFailsKeeps ==
    ASSUME Uploads!IInv, Uploads!Aging, NEW g \in Uploads!Gens, Uploads!WriteFails(g)
    PROVE  Uploads!IInv'
<1>1. /\ up[g].phase = "write" /\ Uploads!Fault /\ bytes' \in {bytes, g} /\ Uploads!Release(Uploads!Uri(g), g, "canceled") /\ Uploads!Goes(g, "over")
      /\ UNCHANGED <<inst, covered, task, direct, apply, enq, job>>
  BY DEF Uploads!WriteFails
<1>2. up[g].phase \in Uploads!Holding /\ "over" \in Uploads!Past
  BY <1>1 DEF Uploads!Holding, Uploads!Past
<1>3. bytes' \in Uploads!Gens /\ faults' \in 0..MaxFaults
  BY <1>1, <1>2, HolderFacts, FaultIs
<1>4. g # 1
  BY <1>1 DEF Uploads!IInv, Uploads!UploadInOrder
<1>5. Uploads!Content(inst.uri)' = Uploads!Content(inst.uri) \/ Uploads!Content(inst.uri)' # 1
  BY <1>1, <1>4 DEF Uploads!Content, Uploads!Aging
<1>6. QED
  BY <1>1, <1>2, <1>3, <1>5, UploadLetsGo

\* Going on with the lease towards a file without tags.
LEMMA UploadWrites ==
    ASSUME Uploads!IInv, Uploads!Aging, NEW g \in Uploads!Gens, up[g].phase \in {"reset", "write", "register"},
           NEW phase \in {"write", "register", "release"}, Uploads!Goes(g, phase), bytes' \in Uploads!Gens,
           inst' \in Uploads!Instance, inst' = inst \/ ~inst'.scanned, ~inst'.scanned,
           Uploads!Content(inst.uri)' = Uploads!Content(inst.uri) \/ Uploads!Content(inst.uri)' # 1,
           UNCHANGED <<covered, marker, task, direct, apply, enq, job, faults>>
    PROVE  Uploads!IInv'
<1>1. up[g].phase \in Uploads!Holding /\ phase \in Uploads!Holding
  BY DEF Uploads!Holding
<1>2. /\ Uploads!IsMarker("claimed", Uploads!Uri(g), g) /\ marker \in Uploads!Marker /\ marker.nonce = g
      /\ direct[g].phase = "none" /\ direct \in [Uploads!Gens -> Uploads!Direct] /\ faults' \in 0..MaxFaults
  BY <1>1, HolderFacts
<1>3. up' \in [Uploads!Gens -> Uploads!Upload] /\ up'[g].phase = phase /\ \A k \in Uploads!Gens : k # g => up'[k] = up[k]
  BY <1>1, Going
<1>4. Uploads!UploadInOrder(g)'
  <2>1. g # 1
    BY DEF Uploads!IInv, Uploads!UploadInOrder
  <2>2. Uploads!IsMarker("claimed", Uploads!Uri(g), g)'
    BY <1>2 DEF Uploads!IsMarker, Uploads!Uri, Uploads!Aging
  <2>3. QED
    BY <1>3, <2>1, <2>2 DEF Uploads!UploadInOrder
<1>5. Uploads!DirectInOrder(g)'
  BY <1>2, NoCapability
<1>6. QED
  BY <1>1, <1>2, <1>3, <1>4, <1>5, UploadHolds

LEMMA ResetKeeps ==
    ASSUME Uploads!IInv, Uploads!Aging, NEW g \in Uploads!Gens, Uploads!Reset(g)
    PROVE  Uploads!IInv'
<1>1. /\ up[g].phase = "reset" /\ UNCHANGED <<bytes, covered, task, direct, apply, enq, job, faults>>
  BY DEF Uploads!Reset
<1>2. up[g].phase \in Uploads!Holding /\ "over" \in Uploads!Past
  BY <1>1 DEF Uploads!Holding, Uploads!Past
<1>3. inst \in Uploads!Instance /\ bytes' \in Uploads!Gens /\ faults' \in 0..MaxFaults
  BY <1>1, <1>2, HolderFacts
<1>4. ASSUME inst' = [inst EXCEPT !.scanned = FALSE], marker' = marker, Uploads!Goes(g, "write") PROVE Uploads!IInv'
  <2>1. inst' \in Uploads!Instance /\ ~inst'.scanned /\ inst'.uri = inst.uri
    BY <1>3, <1>4 DEF Uploads!Instance
  <2>2. Uploads!Content(inst.uri)' = Uploads!Content(inst.uri)
    BY <1>1, <2>1 DEF Uploads!Content, Uploads!Aging
  <2>3. QED
    BY <1>1, <1>3, <1>4, <2>1, <2>2, UploadWrites
<1>5. ASSUME inst' = inst, Uploads!Release(Uploads!Uri(g), g, "canceled"), Uploads!Goes(g, "over") PROVE Uploads!IInv'
  <2>1. Uploads!Content(inst.uri)' = Uploads!Content(inst.uri)
    BY <1>1, <1>5 DEF Uploads!Content, Uploads!Aging
  <2>2. QED
    BY <1>1, <1>2, <1>3, <1>5, <2>1, UploadLetsGo
<1>6. QED
  BY <1>4, <1>5 DEF Uploads!Reset

LEMMA WriteKeeps ==
    ASSUME Uploads!IInv, Uploads!Aging, NEW g \in Uploads!Gens, Uploads!Write(g)
    PROVE  Uploads!IInv'
<1>1. /\ up[g].phase = "write" /\ bytes' = g /\ Uploads!Goes(g, "register")
      /\ UNCHANGED <<inst, covered, marker, task, direct, apply, enq, job, faults>>
  BY DEF Uploads!Write
<1>2. up[g].phase \in Uploads!Holding
  BY <1>1 DEF Uploads!Holding
<1>3. inst \in Uploads!Instance
  BY <1>2, HolderFacts
<1>4. ~inst.scanned /\ g # 1
  BY <1>1 DEF Uploads!IInv, Uploads!UploadInOrder
<1>5. Uploads!Content(inst.uri)' = Uploads!Content(inst.uri) \/ Uploads!Content(inst.uri)' # 1
  BY <1>1, <1>4 DEF Uploads!Content, Uploads!Aging
<1>6. QED
  BY <1>1, <1>3, <1>4, <1>5, UploadWrites

LEMMA RegisterFileKeeps ==
    ASSUME Uploads!IInv, Uploads!Aging, NEW g \in Uploads!Gens, Uploads!Register(g)
    PROVE  Uploads!IInv'
<1>1. /\ up[g].phase = "register" /\ inst' = [inst EXCEPT !.uri = Uploads!Uri(g), !.scanned = FALSE] /\ Uploads!Goes(g, "release")
      /\ UNCHANGED <<bytes, covered, marker, task, direct, apply, enq, job, faults>>
  BY DEF Uploads!Register
<1>2. up[g].phase \in Uploads!Holding
  BY <1>1 DEF Uploads!Holding
<1>3. inst \in Uploads!Instance /\ Uploads!Uri(g) \in Uploads!Gens /\ bytes \in Uploads!Gens
  BY <1>2, HolderFacts
<1>4. inst' \in Uploads!Instance /\ ~inst'.scanned /\ inst'.uri = Uploads!Uri(g)
  BY <1>1, <1>3 DEF Uploads!Instance
<1>5. g # 1
  BY <1>1 DEF Uploads!IInv, Uploads!UploadInOrder
<1>6. Uploads!Content(inst.uri)' = Uploads!Content(inst.uri) \/ Uploads!Content(inst.uri)' # 1
  BY <1>1, <1>4, <1>5 DEF Uploads!Content, Uploads!Uri, Uploads!Aging
<1>7. QED
  BY <1>1, <1>3, <1>4, <1>6, UploadWrites

\* Before the file is there, nothing is.
LEMMA CreateFileKeeps ==
    ASSUME Uploads!IInv, Uploads!Aging, NEW g \in Uploads!Gens, Uploads!Create(g)
    PROVE  Uploads!IInv'
<1>1. /\ up[g].phase = "create" /\ bytes' = g /\ inst' = [uri |-> Uploads!Uri(g), scanned |-> FALSE, tags |-> None]
      /\ Uploads!Goes(g, IF up[g].kind = "direct" THEN "pend" ELSE "finish")
      /\ UNCHANGED <<covered, marker, task, direct, apply, enq, job, faults>>
  BY DEF Uploads!Create
<1>2. g = 1 /\ inst = None
  BY <1>1 DEF Uploads!IInv, Uploads!UploadInOrder
<1>3. /\ marker = None /\ task = None /\ job = None /\ apply = None
      /\ \A k \in -1..MaxUploads : enq[k] = None
      /\ \A k \in Uploads!Gens : up[k].phase \in {"idle", "create", "over"} /\ direct[k].phase = "none"
  BY <1>2 DEF Uploads!IInv, Uploads!NothingBefore, Uploads!TypeOK
<1>4. Uploads!Uri(g) \in Uploads!Gens /\ inPlace' = inPlace
  BY PlacesAre DEF Uploads!Aging
<1>5. inst' \in Uploads!Instance /\ inst'.uri = Uploads!Uri(g) /\ ~inst'.scanned
  BY <1>1, <1>4 DEF Uploads!Instance
<1>6. inst' # None /\ bytes' \in Uploads!Gens /\ bytes' # 0 /\ bytes' \in 0..MaxUploads
  <2>1. inst' # None
    BY <1>5, RecordsAssumption
  <2>2. g # 0 /\ g \in 0..MaxUploads
    BY GensFacts DEF Uploads!Gens
  <2>3. QED
    BY <1>1, <2>1, <2>2
<1>7. PICK phase \in {"pend", "finish"} : Uploads!Goes(g, phase) /\ (phase = "pend" => up[g].kind = "direct")
  BY <1>1
<1>8. /\ up' \in [Uploads!Gens -> Uploads!Upload] /\ up'[g].phase = phase /\ up'[g].kind = up[g].kind
      /\ \A k \in Uploads!Gens : k # g => up'[k] = up[k]
  BY <1>7, Going
<1>9. Uploads!TypeOK'
  <2>1. faults' \in 0..MaxFaults /\ direct' \in [Uploads!Gens -> Uploads!Direct] /\ enq' \in [-1..MaxUploads -> Uploads!Enqueue \cup {None}]
    BY <1>1 DEF Uploads!IInv, Uploads!TypeOK
  <2>2. QED
    BY <1>1, <1>5, <1>6, <1>8, <2>1, UploadTypes
<1>10. Uploads!Content(inst.uri)' = 1
  BY <1>1, <1>2, <1>4, <1>5, PlacesAre DEF Uploads!Content
<1>11. Uploads!MarkerInOrder'
  BY <1>1, <1>3, <1>6, <1>10 DEF Uploads!MarkerInOrder
<1>12. Uploads!TaskInOrder' /\ Uploads!ApplyInOrder' /\ Uploads!JobInOrder'
  BY <1>1, <1>3 DEF Uploads!TaskInOrder, Uploads!ApplyInOrder, Uploads!JobInOrder
<1>13. \A k \in -1..MaxUploads : Uploads!EnqueueInOrder(k)'
  BY <1>1, <1>3 DEF Uploads!EnqueueInOrder
<1>14. ASSUME NEW k \in Uploads!Gens PROVE Uploads!UploadInOrder(k)'
  <2>1. CASE k = g
    BY <1>2, <1>7, <1>8, <2>1 DEF Uploads!UploadInOrder, Uploads!Holding
  <2>2. CASE k # g
    <3>1. up[k].phase \in {"idle", "create", "over"} /\ (up[k].phase = "create" => k = 1)
      BY <1>3 DEF Uploads!IInv, Uploads!UploadInOrder
    <3>2. up'[k].phase \in {"idle", "over"} /\ k # 1
      BY <1>2, <1>8, <2>2, <3>1
    <3>3. QED
      BY <3>2 DEF Uploads!UploadInOrder, Uploads!Holding
  <2>3. QED
    BY <2>1, <2>2
<1>15. \A k \in Uploads!Gens : Uploads!DirectInOrder(k)'
  BY <1>1, <1>3, NoCapability
<1>16. Uploads!NothingBefore'
  BY <1>6 DEF Uploads!NothingBefore
<1>17. QED
  BY <1>9, <1>11, <1>12, <1>13, <1>14, <1>15, <1>16 DEF Uploads!IInv

LEMMA HandlerDiesKeeps ==
    ASSUME Uploads!IInv, Uploads!Aging, Uploads!Dies
    PROVE  Uploads!IInv'
<1>1. UNCHANGED <<bytes, inst, covered, marker, task>> /\ faults' \in 0..MaxFaults
  BY FaultIs DEF Uploads!Dies
<1>2. inPlace' = inPlace /\ Uploads!Content(inst.uri)' = Uploads!Content(inst.uri)
  BY <1>1 DEF Uploads!Aging, Uploads!Content
<1>3. ASSUME NEW g \in Uploads!Gens, up[g].phase \notin {"idle", "over"}, Uploads!Goes(g, "over"), UNCHANGED <<direct, apply, enq, job>>
      PROVE  Uploads!IInv'
  <2>1. up' \in [Uploads!Gens -> Uploads!Upload] /\ up'[g].phase = "over" /\ \A k \in Uploads!Gens : k # g => up'[k] = up[k]
    BY <1>3, Going
  <2>2. "over" \in Uploads!Past /\ "over" \notin Uploads!Holding
    BY DEF Uploads!Past, Uploads!Holding
  <2>3. Uploads!UploadInOrder(g)'
    BY <2>1, <2>2 DEF Uploads!UploadInOrder
  <2>4. UploadsGoOn
    BY <2>1, <2>2 DEF UploadsGoOn
  <2>5. (\A k \in -1..MaxUploads : Uploads!EnqueueInOrder(k)') /\ enq' \in [-1..MaxUploads -> Uploads!Enqueue \cup {None}]
    BY <1>1, <1>3, <2>4, EnqueueStays, QueueFacts
  <2>6. QED
    BY <1>1, <1>3, <2>1, <2>2, <2>3, <2>5, UploadMoves
<1>4. ASSUME NEW g \in Uploads!Gens, direct[g].phase \notin {"none", "granted"}, Uploads!Submits(g, "granted"), UNCHANGED <<up, apply, enq, job>>
      PROVE  Uploads!IInv'
  <2>1. direct' \in [Uploads!Gens -> Uploads!Direct] /\ direct'[g].phase = "granted" /\ \A k \in Uploads!Gens : k # g => direct'[k] = direct[k]
    BY <1>4, Submitting
  <2>2. ~Uploads!DirectHolds(g)'
    BY <2>1 DEF Uploads!DirectHolds
  <2>3. covered' \in BOOLEAN
    BY <1>1 DEF Uploads!IInv, Uploads!TypeOK
  <2>4. QED
    BY <1>1, <1>4, <2>1, <2>2, <2>3, DirectGoesOn
<1>5. ASSUME apply # None, apply' = None, UNCHANGED <<up, direct, enq, job>>
      PROVE  Uploads!IInv'
  <2>1. inst # None
    BY <1>5, QueueFacts
  <2>2. Uploads!TypeOK'
    BY <1>1, <1>5, UploadTypes, HandlerFacts, FileFacts, QueueFacts
  <2>3. Uploads!TaskInOrder'
    BY <1>1, <1>2, <1>5, TaskStays, UploadsRest, MarkerSame
  <2>4. Uploads!ApplyInOrder' /\ (Uploads!ApplyHolds' => Uploads!ApplyHolds)
    BY <1>5 DEF Uploads!ApplyInOrder, Uploads!ApplyHolds
  <2>5. \A k \in -1..MaxUploads : Uploads!EnqueueInOrder(k)'
    BY <1>1, <1>5, UploadsRest, EnqueueStays
  <2>6. QED
    BY <1>1, <1>5, <2>1, <2>2, <2>3, <2>4, <2>5, QueueMoves
<1>6. ASSUME NEW k \in -1..MaxUploads, enq[k] # None, enq' = [enq EXCEPT ![k] = None], UNCHANGED <<up, direct, apply, job>>
      PROVE  Uploads!IInv'
  <2>1. inst # None
    BY <1>6, QueueFacts
  <2>2. enq' \in [-1..MaxUploads -> Uploads!Enqueue \cup {None}] /\ \A j \in -1..MaxUploads : enq'[j] = enq[j] \/ enq'[j] = None
    BY <1>6, QueueFacts
  <2>3. Uploads!TypeOK'
    BY <1>1, <1>6, <2>2, UploadTypes, HandlerFacts, FileFacts, QueueFacts
  <2>4. Uploads!TaskInOrder' /\ Uploads!ApplyInOrder'
    BY <1>1, <1>2, <1>6, TaskStays, ApplyStays, UploadsRest, MarkerSame
  <2>5. Uploads!ApplyHolds' => Uploads!ApplyHolds
    BY <1>6 DEF Uploads!ApplyHolds
  <2>6. \A j \in -1..MaxUploads : Uploads!EnqueueInOrder(j)'
    BY <1>1, <1>6, <2>2, UploadsRest, EnqueueStays
  <2>7. QED
    BY <1>1, <1>6, <2>1, <2>3, <2>4, <2>5, <2>6, QueueMoves
<1>7. ASSUME job # None, job' = None, UNCHANGED <<up, direct, apply, enq>>
      PROVE  Uploads!IInv'
  <2>1. inst # None
    BY <1>7, QueueFacts
  <2>2. Uploads!TypeOK'
    BY <1>1, <1>7, UploadTypes, HandlerFacts, FileFacts, QueueFacts
  <2>3. Uploads!TaskInOrder' /\ Uploads!ApplyInOrder' /\ Uploads!JobInOrder' /\ Uploads!MarkerInOrder'
    BY <1>1, <1>2, <1>7, TaskStays, ApplyStays, JobStays, MarkerRests, UploadsRest,
       MarkerSame
  <2>4. Uploads!ApplyHolds' = Uploads!ApplyHolds
    BY <1>7 DEF Uploads!ApplyHolds
  <2>5. \A k \in -1..MaxUploads : Uploads!EnqueueInOrder(k)'
    BY <1>1, <1>7, UploadsRest, EnqueueStays
  <2>6. \A g \in Uploads!Gens : Uploads!UploadInOrder(g)'
    BY <1>1, <1>2, <1>7, UploadStays
  <2>7. \A g \in Uploads!Gens : Uploads!DirectInOrder(g)'
    BY <1>1, <1>2, <1>7, <2>4, DirectStays DEF Uploads!IInv, Uploads!DirectInOrder
  <2>8. Uploads!NothingBefore'
    BY <1>1, <2>1 DEF Uploads!NothingBefore
  <2>9. QED
    BY <2>2, <2>3, <2>5, <2>6, <2>7, <2>8 DEF Uploads!IInv
<1>8. QED
  BY <1>3, <1>4, <1>5, <1>6, <1>7 DEF Uploads!Dies

LEMMA UploadsStart == ASSUME Uploads!Init PROVE Uploads!IInv
<1>1. Uploads!TypeOK
  <2>1. 0 \in 0..MaxUploads /\ 0 \in 0..MaxFaults /\ None \in Uploads!Instance \cup {None} /\ None \in Uploads!Marker \cup {None}
    BY RecordsAssumption
  <2>2. up \in [Uploads!Gens -> Uploads!Upload]
    BY DEF Uploads!Init, Uploads!Upload
  <2>3. direct \in [Uploads!Gens -> Uploads!Direct]
    BY DEF Uploads!Init, Uploads!Direct
  <2>4. enq \in [-1..MaxUploads -> Uploads!Enqueue \cup {None}] /\ older \subseteq Uploads!InFlight
    BY DEF Uploads!Init
  <2>5. QED
    BY <2>1, <2>2, <2>3, <2>4 DEF Uploads!Init, Uploads!TypeOK
<1>2. Uploads!NothingBefore /\ Uploads!MarkerInOrder
  BY DEF Uploads!Init, Uploads!NothingBefore, Uploads!MarkerInOrder
<1>3. Uploads!TaskInOrder /\ Uploads!ApplyInOrder /\ Uploads!JobInOrder
  BY DEF Uploads!Init, Uploads!TaskInOrder, Uploads!ApplyInOrder, Uploads!JobInOrder
<1>4. \A g \in Uploads!Gens : Uploads!UploadInOrder(g) /\ Uploads!DirectInOrder(g)
  BY DEF Uploads!Init, Uploads!UploadInOrder, Uploads!DirectInOrder, Uploads!DirectHolds,
     Uploads!Holding
<1>5. \A k \in -1..MaxUploads : Uploads!EnqueueInOrder(k)
  BY DEF Uploads!Init, Uploads!EnqueueInOrder
<1>6. QED
  BY <1>1, <1>2, <1>3, <1>4, <1>5 DEF Uploads!IInv

LEMMA UploadsStep == ASSUME Uploads!IInv, Uploads!Next PROVE Uploads!IInv'
<1>1. Uploads!Aging
  BY DEF Uploads!Next
<1>2. ASSUME NEW g \in Uploads!Gens, NEW kind \in Kinds, Uploads!Start(g, kind) PROVE Uploads!IInv'
  BY <1>1, <1>2, StartKeeps
<1>3. ASSUME NEW g \in Uploads!Gens, Uploads!UploadStep(g) PROVE Uploads!IInv'
  BY <1>1, <1>3, CreateFileKeeps, MarkKeeps, FreeLeaseKeeps, ResetKeeps, WriteKeeps,
     RegisterFileKeeps, FinishKeeps DEF Uploads!UploadStep
<1>4. ASSUME NEW g \in Uploads!Gens, Uploads!DirectCheck(g) \/ Uploads!DirectFallback(g) \/ Uploads!DirectStep(g) PROVE Uploads!IInv'
  BY <1>1, <1>4, DirectCheckKeeps, DirectFallbackKeeps, DirectAcquireKeeps,
     DirectRecheckKeeps, DirectReleaseKeeps,
     DirectTagsKeeps, DirectCoverKeeps DEF Uploads!DirectStep
<1>5. ASSUME NEW k \in -1..MaxUploads, Uploads!EnqueueStep(k) PROVE Uploads!IInv'
  BY <1>1, <1>5, EnqueueReadKeeps, EnqueueRefreshKeeps, EnqueueRereadKeeps,
     EnqueueDispatchKeeps DEF Uploads!EnqueueStep
<1>6. ASSUME Uploads!TaskSteps PROVE Uploads!IInv'
  BY <1>1, <1>6, TaskClaimedKeeps, TaskReadsKeeps, TaskSubmittedKeeps DEF Uploads!TaskSteps
<1>7. ASSUME Uploads!ApplySteps PROVE Uploads!IInv'
  BY <1>1, <1>7, ApplyStartKeeps, ApplyReadKeeps, ApplyAcquireKeeps, ApplyTagsKeeps,
     ApplyCoverKeeps, ApplyReleaseKeeps,
     ApplyEndKeeps DEF Uploads!ApplySteps
<1>8. ASSUME Uploads!JobSteps PROVE Uploads!IInv'
  BY <1>1, <1>8, JobLookKeeps, JobDecideKeeps, JobMoveKeeps, JobDeleteKeeps,
     JobEnqueueKeeps, JobCandidateKeeps DEF Uploads!JobSteps
<1>9. ASSUME Uploads!Faults PROVE Uploads!IInv'
  BY <1>1, <1>9, WriteFailsKeeps, DirectThrowsKeeps, DirectCoverThrowsKeeps,
     ApplyThrowsKeeps, ApplyCoverThrowsKeeps,
     TaskFailsKeeps, HandlerDiesKeeps DEF Uploads!Faults
<1>10. QED
  BY <1>1, <1>2, <1>3, <1>4, <1>5, <1>6, <1>7, <1>8, <1>9, SweepLeaseKeeps DEF Uploads!Next

\* While another part of the suite runs.
LEMMA UploadsStill == ASSUME Uploads!IInv, UNCHANGED uploadVars PROVE Uploads!IInv'
<1>1. Uploads!TypeOK'
  <2>1. Uploads!InFlight' = Uploads!InFlight
    BY DEF uploadVars, Uploads!InFlight
  <2>2. inst' = inst /\ task' = task /\ apply' = apply
    BY DEF uploadVars
  <2>3. /\ inPlace' \in Storages /\ bytes' \in 0..MaxUploads /\ inst' \in Uploads!Instance \cup {None} /\ covered' \in BOOLEAN
        /\ marker' \in Uploads!Marker \cup {None} /\ task' \in Uploads!Task \cup {None}
    BY DEF Uploads!IInv, Uploads!TypeOK, uploadVars
  <2>4. /\ up' \in [Uploads!Gens -> Uploads!Upload] /\ direct' \in [Uploads!Gens -> Uploads!Direct] /\ apply' \in Uploads!Apply \cup {None}
        /\ enq' \in [-1..MaxUploads -> Uploads!Enqueue \cup {None}] /\ job' \in Uploads!AtMarker \cup {None}
    BY DEF Uploads!IInv, Uploads!TypeOK, uploadVars
  <2>5. older' \subseteq Uploads!InFlight' /\ faults' \in 0..MaxFaults
    BY <2>1 DEF Uploads!IInv, Uploads!TypeOK, uploadVars
  <2>6. /\ inst' # None => (inst'.scanned => inst'.tags # None)
        /\ task' # None => (task'.note # "null" => task'.status = "completed")
        /\ apply' # None => task' # None /\ task'.note = "applying"
    BY <2>2 DEF Uploads!IInv, Uploads!TypeOK
  <2>7. QED
    BY <2>3, <2>4, <2>5, <2>6 DEF Uploads!TypeOK
<1>2. Uploads!NothingBefore' /\ Uploads!MarkerInOrder'
  BY DEF Uploads!IInv, Uploads!NothingBefore, Uploads!MarkerInOrder, Uploads!Content,
     uploadVars
<1>3. Uploads!TaskInOrder' /\ Uploads!JobInOrder'
  BY DEF Uploads!IInv, Uploads!TaskInOrder, Uploads!JobInOrder, Uploads!Content, uploadVars
<1>4. Uploads!ApplyInOrder'
  BY DEF Uploads!IInv, Uploads!ApplyInOrder, Uploads!ApplyHolds, Uploads!IsMarker,
     Uploads!LeaseNonce, uploadVars
<1>5. \A g \in Uploads!Gens : Uploads!UploadInOrder(g)'
  BY DEF Uploads!IInv, Uploads!UploadInOrder, Uploads!IsMarker, Uploads!Uri, uploadVars
<1>6. \A g \in Uploads!Gens : Uploads!DirectInOrder(g)'
  BY DEF Uploads!IInv, Uploads!DirectInOrder, Uploads!DirectHolds, Uploads!ApplyHolds,
     Uploads!IsMarker, Uploads!Uri, uploadVars
<1>7. \A k \in -1..MaxUploads : Uploads!EnqueueInOrder(k)'
  BY DEF Uploads!IInv, Uploads!EnqueueInOrder, uploadVars
<1>8. QED
  BY <1>1, <1>2, <1>3, <1>4, <1>5, <1>6, <1>7 DEF Uploads!IInv

\* Whoever takes the lease or lets go of it leaves a marker, and who lets go of it the same.
LEMMA MarkerEdited ==
    ASSUME Uploads!IInv, marker # None
    PROVE  /\ \A status \in {"claimed", "canceled", "completed"} :
                  [marker EXCEPT !.status = status] # None /\ [marker EXCEPT !.status = status].nonce = marker.nonce
           /\ \A uri \in Uploads!Gens : [marker EXCEPT !.uri = uri] # None /\ [marker EXCEPT !.uri = uri].nonce = marker.nonce
<1>1. marker \in Uploads!Marker
  BY FileFacts
<1>2. ASSUME NEW status \in {"claimed", "canceled", "completed"}
      PROVE  [marker EXCEPT !.status = status] \in Uploads!Marker /\ [marker EXCEPT !.status = status].nonce = marker.nonce
  BY <1>1 DEF Uploads!Marker
<1>3. ASSUME NEW uri \in Uploads!Gens
      PROVE  [marker EXCEPT !.uri = uri] \in Uploads!Marker /\ [marker EXCEPT !.uri = uri].nonce = marker.nonce
  BY <1>1 DEF Uploads!Marker
<1>4. QED
  BY <1>2, <1>3, RecordsAssumption

LEMMA LeaseLeavesMarker ==
    ASSUME Uploads!IInv
    PROVE  /\ \A uri \in Uploads!Gens, nonce \in 0..MaxUploads :
                  Uploads!Acquire(uri, nonce) => marker' # None /\ marker'.nonce = IF nonce = 0 THEN Uploads!Lease ELSE nonce
           /\ \A uri \in Uploads!Gens, nonce \in Uploads!Gens \cup {Uploads!Lease}, status \in {"canceled", "completed"} :
                  Uploads!Release(uri, nonce, status) => marker' = marker \/ (marker # None /\ marker' # None /\ marker'.nonce = marker.nonce)
<1>1. ASSUME NEW uri \in Uploads!Gens, NEW nonce \in 0..MaxUploads, Uploads!Acquire(uri, nonce)
      PROVE  marker' # None /\ marker'.nonce = IF nonce = 0 THEN Uploads!Lease ELSE nonce
  <2>1. PICK lease : lease = IF nonce = 0 THEN Uploads!Lease ELSE nonce
    OBVIOUS
  <2>2. QED
    BY <1>1, <2>1, Acquiring
<1>2. ASSUME NEW uri \in Uploads!Gens, NEW nonce \in Uploads!Gens \cup {Uploads!Lease}, NEW status \in {"canceled", "completed"},
             Uploads!Release(uri, nonce, status), marker' # marker
      PROVE  marker # None /\ marker' # None /\ marker'.nonce = marker.nonce
  <2>1. Uploads!IsMarker("claimed", uri, nonce) /\ marker' = [marker EXCEPT !.status = status]
    BY <1>2 DEF Uploads!Release
  <2>2. marker # None
    BY <2>1, MarkerFields
  <2>3. QED
    BY <2>1, <2>2, MarkerEdited
<1>3. QED
  BY <1>1, <1>2

LEMMA UploadKeepsMarker ==
    ASSUME Uploads!IInv, NEW g \in Uploads!Gens, marker # None, Uploads!UploadStep(g) \/ Uploads!WriteFails(g)
    PROVE  marker' # None
<1>1. Uploads!Uri(g) \in Uploads!Gens /\ g \in Uploads!Gens \cup {Uploads!Lease} /\ g \in 0..MaxUploads
  BY PlacesAre, GensFacts DEF Uploads!Gens
<1>2. Uploads!Pend(g) \/ Uploads!Mark(g) => marker' # None
  BY <1>1, LeaseLeavesMarker DEF Uploads!Pend, Uploads!Mark
<1>3. Uploads!Pended(g) \/ Uploads!Reset(g) => marker' # None
  BY <1>1, LeaseLeavesMarker DEF Uploads!Pended, Uploads!Reset
<1>4. Uploads!FreeLease(g) \/ Uploads!WriteFails(g) => marker' # None
  BY <1>1, LeaseLeavesMarker DEF Uploads!FreeLease, Uploads!WriteFails
<1>5. Uploads!Create(g) \/ Uploads!Write(g) \/ Uploads!Register(g) \/ Uploads!Finish(g) => marker' = marker
  BY DEF Uploads!Create, Uploads!Write, Uploads!Register, Uploads!Finish
<1>6. QED
  BY <1>2, <1>3, <1>4, <1>5 DEF Uploads!UploadStep

LEMMA DirectKeepsMarker ==
    ASSUME Uploads!IInv, NEW g \in Uploads!Gens, marker # None, Uploads!DirectStep(g) \/ Uploads!DirectCheck(g) \/ Uploads!DirectFallback(g) \/ Uploads!DirectThrows(g) \/ Uploads!DirectCoverThrows(g)
    PROVE  marker' # None
<1>1. Uploads!Uri(g) \in Uploads!Gens /\ g \in Uploads!Gens \cup {Uploads!Lease} /\ g \in 0..MaxUploads
  BY PlacesAre, GensFacts DEF Uploads!Gens
<1>2. Uploads!DirectAcquire(g) \/ Uploads!DirectRecheck(g) => marker' # None
  BY <1>1, LeaseLeavesMarker DEF Uploads!DirectAcquire, Uploads!DirectRecheck
<1>3. Uploads!DirectRelease(g) \/ Uploads!DirectThrows(g) => marker' # None
  BY <1>1, LeaseLeavesMarker DEF Uploads!DirectRelease, Uploads!DirectThrows
<1>4. Uploads!DirectCheck(g) \/ Uploads!DirectFallback(g) \/ Uploads!DirectCoverThrows(g) => marker' = marker
  BY DEF Uploads!DirectCheck, Uploads!DirectFallback, Uploads!DirectCoverThrows
<1>5. \A cover \in BOOLEAN : Uploads!DirectTags(g, cover) \/ Uploads!DirectCover(g, cover) => marker' = marker
  BY DEF Uploads!DirectTags, Uploads!DirectCover
<1>6. QED
  BY <1>2, <1>3, <1>4, <1>5 DEF Uploads!DirectStep

LEMMA ApplyKeepsMarker ==
    ASSUME Uploads!IInv, marker # None, Uploads!ApplySteps \/ Uploads!ApplyThrows \/ Uploads!ApplyCoverThrows
    PROVE  marker' # None
<1>1. apply # None => apply.uri \in Uploads!Gens /\ apply.nonce \in 0..MaxUploads /\ Uploads!LeaseNonce \in Uploads!Gens \cup {Uploads!Lease}
  BY QueueFacts, PlacesAre, GensFacts
<1>2. Uploads!ApplyAcquire \/ Uploads!ApplyThrows => marker' # None
  BY <1>1, LeaseLeavesMarker DEF Uploads!ApplyAcquire, Uploads!ApplyThrows, Uploads!Applying
<1>3. Uploads!ApplyRelease => marker' # None
  BY <1>1, LeaseLeavesMarker DEF Uploads!ApplyRelease, Uploads!Applying
<1>4. Uploads!ApplyStart \/ Uploads!ApplyRead \/ Uploads!ApplyEnd \/ Uploads!Reapply \/ Uploads!ApplyCoverThrows => marker' = marker
  BY DEF Uploads!ApplyStart, Uploads!ApplyRead, Uploads!ApplyEnd, Uploads!Reapply,
     Uploads!ApplyCoverThrows
<1>5. \A saved, bad \in BOOLEAN : Uploads!ApplyTags(saved) \/ Uploads!ApplyCover(saved, bad) => marker' = marker
  BY DEF Uploads!ApplyTags, Uploads!ApplyCover
<1>6. QED
  BY <1>2, <1>3, <1>4, <1>5 DEF Uploads!ApplySteps

LEMMA JobKeepsMarker ==
    ASSUME Uploads!IInv, marker # None, marker.nonce > 0, ~inst.scanned, Uploads!JobSteps
    PROVE  marker' # None
<1>1. CASE Uploads!JobDelete
  <2>1. job # None /\ job.drop /\ (job.nonce = Uploads!Lease \/ job.nonce \in Uploads!Gens)
    BY <1>1 DEF Uploads!JobDelete, Uploads!IInv, Uploads!JobInOrder
  <2>2. marker.nonce \in Uploads!Gens
    BY FileFacts DEF Uploads!Lease
  <2>3. marker.nonce # job.nonce
    BY <2>1, <2>2 DEF Uploads!IInv, Uploads!JobInOrder
  <2>4. job.uri \in Uploads!Gens /\ job.nonce \in Uploads!Gens \cup {Uploads!Lease}
    BY <2>1, QueueFacts
  <2>5. ~Uploads!IsMarker("canceled", job.uri, job.nonce)
    BY <2>3, <2>4, MarkerFields
  <2>6. QED
    BY <1>1, <2>5 DEF Uploads!JobDelete
<1>2. CASE Uploads!JobMove
  <2>1. job # None /\ job.phase = "move"
    BY <1>2 DEF Uploads!JobMove
  <2>2. job.to \in Uploads!Gens
    BY <2>1, QueueFacts, GensFacts DEF Uploads!IInv, Uploads!JobInOrder
  <2>3. QED
    BY <1>2, <2>2, MarkerEdited DEF Uploads!JobMove
<1>3. CASE Uploads!JobLook \/ Uploads!JobDecide \/ Uploads!JobEnqueue \/ Uploads!JobCandidate
  BY <1>3 DEF Uploads!JobLook, Uploads!JobDecide, Uploads!JobEnqueue, Uploads!JobCandidate
<1>4. QED
  BY <1>1, <1>2, <1>3 DEF Uploads!JobSteps

LEMMA MarkersStay == Uploads!IInv /\ Uploads!Next => Uploads!KeepsMarker
<1> SUFFICES ASSUME Uploads!IInv, Uploads!Next, marker # None, marker.nonce > 0, ~inst.scanned PROVE marker' # None
  BY DEF Uploads!KeepsMarker
<1>1. ASSUME NEW g \in Uploads!Gens, NEW kind \in Kinds, Uploads!Start(g, kind) PROVE marker' # None
  BY <1>1 DEF Uploads!Start
<1>2. ASSUME NEW g \in Uploads!Gens, Uploads!UploadStep(g) \/ Uploads!DirectCheck(g) \/ Uploads!DirectFallback(g) \/ Uploads!DirectStep(g) PROVE marker' # None
  BY <1>2, UploadKeepsMarker, DirectKeepsMarker
<1>3. ASSUME NEW k \in -1..MaxUploads, Uploads!EnqueueStep(k) PROVE marker' # None
  BY <1>3 DEF Uploads!EnqueueStep, Uploads!EnqueueRead, Uploads!EnqueueRefresh,
     Uploads!EnqueueReread, Uploads!EnqueueDispatch
<1>4. ASSUME Uploads!TaskSteps PROVE marker' # None
  BY <1>4 DEF Uploads!TaskSteps, Uploads!TaskClaimed, Uploads!TaskReads,
     Uploads!TaskSubmitted
<1>5. ASSUME Uploads!SweepLease PROVE marker' # None
  BY <1>5, MarkerEdited DEF Uploads!SweepLease
<1>6. ASSUME Uploads!Faults PROVE marker' # None
  <2>1. Uploads!TaskFails \/ Uploads!Dies => marker' = marker
    BY DEF Uploads!TaskFails, Uploads!Dies
  <2>2. QED
    BY <1>6, <2>1, UploadKeepsMarker, DirectKeepsMarker, ApplyKeepsMarker DEF Uploads!Faults
<1>7. QED
  BY <1>1, <1>2, <1>3, <1>4, <1>5, <1>6, ApplyKeepsMarker, JobKeepsMarker DEF Uploads!Next

\* The tags stay what they are while nobody touches the file, and an apply goes no further.
LEMMA TagsRest ==
    ASSUME Uploads!TagsInOrder, inPlace' = inPlace, bytes' = bytes, inst' = inst, apply' = apply \/ apply' = None
    PROVE  Uploads!TagsInOrder'
<1>1. Uploads!Content(inst.uri)' = Uploads!Content(inst.uri)
  BY DEF Uploads!Content
<1>2. Uploads!TagsOfBytes'
  BY <1>1 DEF Uploads!TagsInOrder, Uploads!TagsOfBytes
<1>3. QED
  BY <1>1, <1>2 DEF Uploads!TagsInOrder

\* A file that has lost its tags is in order, while no apply has the lease.
LEMMA UntaggedIsInOrder ==
    ASSUME inst' # None => ~inst'.scanned, apply' = apply, ~Uploads!ApplyHolds, inst' # None \/ apply = None
    PROVE  Uploads!TagsInOrder'
<1>1. apply' # None => apply'.phase # "held"
  BY DEF Uploads!ApplyHolds
<1>2. QED
  BY <1>1 DEF Uploads!TagsInOrder, Uploads!TagsOfBytes

LEMMA UploadKeepsTags ==
    ASSUME Uploads!IInv, Uploads!Aging, Uploads!TagsInOrder, NEW g \in Uploads!Gens, Uploads!UploadStep(g) \/ Uploads!WriteFails(g)
    PROVE  Uploads!TagsInOrder'
<1>1. inPlace' = inPlace /\ apply' = apply
  BY DEF Uploads!Aging, Uploads!UploadStep, Uploads!WriteFails, Uploads!Create,
     Uploads!Pend, Uploads!Pended, Uploads!Mark, Uploads!Reset, Uploads!Write,
     Uploads!Register, Uploads!FreeLease, Uploads!Finish
<1>2. CASE Uploads!Pend(g) \/ Uploads!Pended(g) \/ Uploads!Mark(g) \/ Uploads!FreeLease(g) \/ Uploads!Finish(g)
  <2>1. bytes' = bytes /\ inst' = inst
    BY <1>2 DEF Uploads!Pend, Uploads!Pended, Uploads!Mark, Uploads!FreeLease,
       Uploads!Finish
  <2>2. QED
    BY <1>1, <2>1, TagsRest
<1>3. CASE Uploads!Create(g)
  <2>1. inst = None
    BY <1>3 DEF Uploads!Create, Uploads!IInv, Uploads!UploadInOrder
  <2>2. apply = None
    BY <2>1, QueueFacts
  <2>3. ~inst'.scanned
    BY <1>3 DEF Uploads!Create
  <2>4. QED
    BY <1>1, <2>2, <2>3, UntaggedIsInOrder DEF Uploads!ApplyHolds
<1>4. CASE Uploads!Reset(g)
  <2>1. up[g].phase \in Uploads!Holding
    BY <1>4 DEF Uploads!Reset, Uploads!Holding
  <2>2. ~Uploads!ApplyHolds /\ inst \in Uploads!Instance
    BY <2>1, UploadAlone, HolderFacts
  <2>3. CASE inst' = inst
    BY <1>1, <1>4, <2>3, TagsRest DEF Uploads!Reset
  <2>4. CASE inst' = [inst EXCEPT !.scanned = FALSE]
    <3>1. inst' \in Uploads!Instance /\ ~inst'.scanned
      BY <2>2, <2>4 DEF Uploads!Instance
    <3>2. QED
      BY <1>1, <2>2, <3>1, UntaggedIsInOrder, RecordsAssumption
  <2>5. QED
    BY <1>4, <2>3, <2>4 DEF Uploads!Reset
<1>5. CASE Uploads!Write(g) \/ Uploads!Register(g) \/ Uploads!WriteFails(g)
  <2>1. up[g].phase \in Uploads!Holding /\ up[g].phase \in {"write", "register"}
    BY <1>5 DEF Uploads!Write, Uploads!Register, Uploads!WriteFails, Uploads!Holding
  <2>2. ~Uploads!ApplyHolds /\ inst \in Uploads!Instance /\ inst # None /\ Uploads!Uri(g) \in Uploads!Gens
    BY <2>1, UploadAlone, HolderFacts
  <2>3. ~inst.scanned
    BY <2>1 DEF Uploads!IInv, Uploads!UploadInOrder
  <2>4. inst' # None /\ ~inst'.scanned
    <3>1. CASE inst' = inst
      BY <2>2, <2>3, <3>1
    <3>2. CASE inst' = [inst EXCEPT !.uri = Uploads!Uri(g), !.scanned = FALSE]
      <4>1. inst' \in Uploads!Instance /\ ~inst'.scanned
        BY <2>2, <3>2 DEF Uploads!Instance
      <4>2. QED
        BY <4>1, RecordsAssumption
    <3>3. QED
      BY <1>5, <3>1, <3>2 DEF Uploads!Write, Uploads!Register, Uploads!WriteFails
  <2>5. QED
    BY <1>1, <2>2, <2>4, UntaggedIsInOrder
<1>6. QED
  BY <1>2, <1>3, <1>4, <1>5 DEF Uploads!UploadStep

LEMMA DirectKeepsTags ==
    ASSUME Uploads!IInv, Uploads!Aging, Uploads!TagsInOrder, Uploads!GrantsInOrder, Uploads!NobodyOvertakes, NEW g \in Uploads!Gens, NEW cover \in BOOLEAN, Uploads!DirectTags(g, cover)
    PROVE  Uploads!TagsInOrder'
<1>1. /\ direct[g].phase = "sure" /\ Uploads!DirectHolds(g) /\ inst' = [inst EXCEPT !.scanned = TRUE, !.tags = g]
      /\ apply' = apply /\ bytes' = bytes
  BY DEF Uploads!DirectTags, Uploads!DirectHolds
<1>2. inst # None /\ inst.uri = Uploads!Uri(g) /\ marker # None /\ marker.nonce = g /\ ~Uploads!ApplyHolds
  BY <1>1, SubmissionFacts DEF Uploads!IInv, Uploads!DirectInOrder
<1>3. apply # None /\ apply.nonce = 0 /\ ~apply.scanned => apply.phase \notin {"acquire", "held"}
  BY <1>1, <1>2 DEF Uploads!NobodyOvertakes, Uploads!ApplyHolds
<1>4. inPlace => bytes = g
  BY <1>1, <1>2 DEF Uploads!GrantsInOrder
<1>5. inst'.uri = Uploads!Uri(g) /\ inst'.tags = g
  BY <1>1, <1>2, TaggedFile
<1>6. Uploads!Content(inst.uri)' = g
  <2>1. inPlace' = inPlace /\ (~inPlace => Uploads!Uri(g) = g)
    BY PlacesAre DEF Uploads!Aging
  <2>2. QED
    BY <1>1, <1>4, <1>5, <2>1 DEF Uploads!Content
<1>7. QED
  BY <1>1, <1>3, <1>5, <1>6 DEF Uploads!TagsInOrder, Uploads!TagsOfBytes

LEMMA ApplyKeepsTags ==
    ASSUME Uploads!IInv, Uploads!Aging, Uploads!TagsInOrder, NEW cover \in BOOLEAN, Uploads!ApplyTags(cover)
    PROVE  Uploads!TagsInOrder'
<1>1. /\ apply # None /\ apply \in Uploads!Apply /\ apply.phase = "held" /\ Uploads!ApplyHolds /\ apply.gen \in Uploads!Gens /\ inst # None
      /\ task # None
  BY QueueFacts DEF Uploads!ApplyTags, Uploads!Applying, Uploads!ApplyHolds
<1>2. PICK a : a = [apply EXCEPT !.phase = "applied"] /\ apply' = a
  BY DEF Uploads!ApplyTags
<1>3. apply'.phase = "applied"
  BY <1>1, <1>2 DEF Uploads!Apply
<1>4. inPlace' = inPlace /\ bytes' = bytes
  BY DEF Uploads!ApplyTags, Uploads!Aging
<1>5. SUFFICES Uploads!TagsOfBytes'
  BY <1>3 DEF Uploads!TagsInOrder
<1>6. CASE inst' = inst
  BY <1>4, <1>6 DEF Uploads!TagsInOrder, Uploads!TagsOfBytes, Uploads!Content
<1>7. CASE ~apply.scanned /\ inst' = [inst EXCEPT !.scanned = TRUE, !.tags = apply.gen]
  <2>1. inst'.uri = inst.uri /\ inst'.tags = apply.gen
    BY <1>1, <1>7, TaggedFile
  <2>2. Uploads!Content(inst.uri)' = Uploads!Content(inst.uri)
    BY <1>4, <2>1 DEF Uploads!Content
  <2>3. apply.nonce = task.nonce /\ apply.gen = task.read /\ task.read # 0
    BY <1>1, GensFacts DEF Uploads!IInv, Uploads!ApplyInOrder
  <2>4. CASE apply.nonce = 0
    <3>1. Uploads!Content(inst.uri) = 1
      BY <1>1, <1>7, <2>4 DEF Uploads!TagsInOrder
    <3>2. task.read = 1
      BY <1>1, <2>3, <3>1 DEF Uploads!IInv, Uploads!TaskInOrder
    <3>3. QED
      BY <2>1, <2>2, <2>3, <3>1, <3>2 DEF Uploads!TagsOfBytes
  <2>5. CASE apply.nonce # 0
    <3>1. marker # None /\ marker.nonce = task.nonce
      BY <1>1, <2>3, <2>5, ApplyAlone, PlacesAre
    <3>2. task.read = Uploads!Content(inst.uri)
      BY <1>1, <2>3, <2>5, <3>1 DEF Uploads!IInv, Uploads!TaskInOrder
    <3>3. QED
      BY <2>1, <2>2, <2>3, <3>2 DEF Uploads!TagsOfBytes
  <2>6. QED
    BY <2>4, <2>5
<1>8. QED
  BY <1>6, <1>7 DEF Uploads!ApplyTags

LEMMA ApplyGoesWithTags ==
    ASSUME Uploads!IInv, Uploads!Aging, Uploads!TagsInOrder, Uploads!ApplyStart \/ Uploads!ApplyRead \/ Uploads!ApplyAcquire
    PROVE  Uploads!TagsInOrder'
<1>1. /\ inPlace' = inPlace /\ bytes' = bytes /\ inst' = inst /\ Uploads!Content(inst.uri)' = Uploads!Content(inst.uri)
  BY DEF Uploads!Aging, Uploads!ApplyStart, Uploads!ApplyRead, Uploads!ApplyAcquire,
     Uploads!Content
<1>2. Uploads!TagsOfBytes'
  BY <1>1 DEF Uploads!TagsInOrder, Uploads!TagsOfBytes
<1>3. SUFFICES ASSUME apply' # None, apply'.nonce = 0, ~apply'.scanned
               PROVE  /\ apply'.phase = "acquire" => ~inst.scanned
                      /\ apply'.phase = "held" => Uploads!Content(inst.uri) = 1
  BY <1>1, <1>2 DEF Uploads!TagsInOrder
<1>4. CASE Uploads!ApplyStart
  BY <1>4 DEF Uploads!ApplyStart
<1>5. ASSUME apply # None, apply \in Uploads!Apply, NEW retry \in BOOLEAN, Uploads!Ends(retry) PROVE apply'.phase = "end"
  <2>1. PICK a : a = [apply EXCEPT !.phase = "end", !.retry = retry] /\ apply' = a
    BY <1>5 DEF Uploads!Ends
  <2>2. QED
    BY <1>5, <2>1 DEF Uploads!Apply
<1>6. CASE Uploads!ApplyRead
  <2>1. apply # None /\ apply \in Uploads!Apply /\ inst # None /\ inst.scanned \in BOOLEAN
    BY <1>6, QueueFacts, FileFacts DEF Uploads!ApplyRead, Uploads!Applying
  <2>2. CASE Uploads!Ends(FALSE)
    BY <1>5, <2>1, <2>2
  <2>3. CASE apply' = [apply EXCEPT !.phase = "acquire", !.scanned = inst.scanned]
    <3>1. apply'.phase = "acquire" /\ apply'.scanned = inst.scanned
      BY <2>1, <2>3 DEF Uploads!Apply
    <3>2. QED
      BY <1>3, <3>1
  <2>4. QED
    BY <1>6, <2>2, <2>3 DEF Uploads!ApplyRead
<1>7. CASE Uploads!ApplyAcquire
  <2>1. apply # None /\ apply \in Uploads!Apply /\ apply.phase = "acquire" /\ inst # None
    BY <1>7, QueueFacts DEF Uploads!ApplyAcquire, Uploads!Applying
  <2>2. CASE Uploads!Ends(FALSE) \/ Uploads!Ends(TRUE)
    BY <1>5, <2>1, <2>2
  <2>3. CASE Uploads!Acquirable(apply.uri, apply.nonce) /\ apply' = [apply EXCEPT !.phase = "held"]
    <3>1. apply'.phase = "held" /\ apply'.nonce = apply.nonce /\ apply'.scanned = apply.scanned
      BY <2>1, <2>3 DEF Uploads!Apply
    <3>2. ~inst.scanned
      BY <1>3, <2>1, <3>1 DEF Uploads!TagsInOrder
    <3>3. marker = None
      BY <1>3, <2>3, <3>1 DEF Uploads!Acquirable
    <3>4. Uploads!Content(inst.uri) = 1
      BY <2>1, <3>2, <3>3 DEF Uploads!IInv, Uploads!MarkerInOrder
    <3>5. QED
      BY <3>1, <3>4
  <2>4. QED
    BY <1>7, <2>2, <2>3 DEF Uploads!ApplyAcquire
<1>8. QED
  BY <1>4, <1>6, <1>7

LEMMA ApplyEndsWithTags ==
    ASSUME Uploads!IInv, Uploads!Aging, Uploads!TagsInOrder,
           (\E saved, bad \in BOOLEAN : Uploads!ApplyCover(saved, bad)) \/ Uploads!ApplyCoverThrows \/ Uploads!ApplyRelease \/ Uploads!ApplyThrows
    PROVE  Uploads!TagsInOrder'
<1>1. inPlace' = inPlace /\ bytes' = bytes /\ inst' = inst /\ Uploads!Content(inst.uri)' = Uploads!Content(inst.uri)
  BY DEF Uploads!Aging, Uploads!ApplyCover, Uploads!ApplyCoverThrows, Uploads!ApplyRelease,
     Uploads!ApplyThrows, Uploads!Content
<1>2. apply # None /\ apply \in Uploads!Apply
  BY QueueFacts DEF Uploads!ApplyCover, Uploads!ApplyCoverThrows, Uploads!ApplyRelease,
     Uploads!ApplyThrows, Uploads!Applying
<1>3. apply'.phase \in {"covered", "end"}
  <2>1. ASSUME NEW saved \in BOOLEAN, NEW bad \in BOOLEAN, Uploads!ApplyCover(saved, bad) PROVE apply'.phase = "covered"
    BY <1>2, <2>1 DEF Uploads!ApplyCover, Uploads!Apply
  <2>2. Uploads!ApplyCoverThrows => apply'.phase = "covered"
    BY <1>2 DEF Uploads!ApplyCoverThrows, Uploads!Apply
  <2>3. Uploads!ApplyRelease \/ Uploads!ApplyThrows => apply'.phase = "end"
    BY <1>2 DEF Uploads!ApplyRelease, Uploads!ApplyThrows, Uploads!Ends, Uploads!Apply
  <2>4. QED
    BY <2>1, <2>2, <2>3
<1>4. QED
  BY <1>1, <1>3 DEF Uploads!TagsInOrder, Uploads!TagsOfBytes

\* The nonce of a marker stays, or is one of no upload.
NonceKept == marker' # None /\ marker'.nonce \in Uploads!Gens => marker # None /\ marker'.nonce = marker.nonce

LEMMA GrantsRest ==
    ASSUME Uploads!GrantsInOrder, inPlace' = inPlace, bytes' = bytes, up' = up, NonceKept,
           \A g \in Uploads!Gens : direct'[g].phase # "none" => direct[g].phase # "none"
    PROVE  Uploads!GrantsInOrder'
BY DEF Uploads!GrantsInOrder, NonceKept

LEMMA NonceOfLease ==
    ASSUME Uploads!IInv
    PROVE  /\ \A uri \in Uploads!Gens, nonce \in 0..MaxUploads : Uploads!Acquirable(uri, nonce) /\ Uploads!Acquire(uri, nonce) => NonceKept
           /\ \A uri \in Uploads!Gens, nonce \in Uploads!Gens \cup {Uploads!Lease}, status \in {"canceled", "completed"} :
                  Uploads!Release(uri, nonce, status) => NonceKept
<1>1. ASSUME NEW uri \in Uploads!Gens, NEW nonce \in 0..MaxUploads, Uploads!Acquirable(uri, nonce), Uploads!Acquire(uri, nonce) PROVE NonceKept
  <2>1. marker'.nonce = IF nonce = 0 THEN Uploads!Lease ELSE nonce
    BY <1>1, LeaseLeavesMarker
  <2>2. QED
    BY <1>1, <2>1, GensFacts DEF Uploads!Acquirable, NonceKept
<1>2. ASSUME NEW uri \in Uploads!Gens, NEW nonce \in Uploads!Gens \cup {Uploads!Lease}, NEW status \in {"canceled", "completed"},
             Uploads!Release(uri, nonce, status)
      PROVE  NonceKept
  <2>1. marker' = marker \/ (marker # None /\ marker' # None /\ marker'.nonce = marker.nonce)
    BY <1>2, LeaseLeavesMarker
  <2>2. QED
    BY <2>1 DEF NonceKept
<1>3. QED
  BY <1>1, <1>2

LEMMA SameMarker == ASSUME marker' = marker PROVE NonceKept
BY DEF NonceKept

\* A submission goes on, and the file is the same.
LEMMA DirectKeepsGrants ==
    ASSUME Uploads!IInv, Uploads!Aging, Uploads!GrantsInOrder, NEW g \in Uploads!Gens,
           Uploads!DirectStep(g) \/ Uploads!DirectCheck(g) \/ Uploads!DirectFallback(g) \/ Uploads!DirectThrows(g) \/ Uploads!DirectCoverThrows(g)
    PROVE  Uploads!GrantsInOrder'
<1>1. Uploads!Uri(g) \in Uploads!Gens /\ g \in Uploads!Gens \cup {Uploads!Lease} /\ g \in 0..MaxUploads /\ inPlace' = inPlace
  BY PlacesAre, GensFacts DEF Uploads!Gens, Uploads!Aging
<1>2. bytes' = bytes /\ up' = up
  BY DEF Uploads!DirectStep, Uploads!DirectCheck, Uploads!DirectFallback,
     Uploads!DirectThrows, Uploads!DirectCoverThrows, Uploads!DirectAcquire,
     Uploads!DirectRecheck,
     Uploads!DirectRelease, Uploads!DirectTags, Uploads!DirectCover
<1>3. NonceKept
  <2>1. CASE Uploads!DirectAcquire(g) \/ Uploads!DirectRecheck(g)
    BY <1>1, <2>1, NonceOfLease, SameMarker DEF Uploads!DirectAcquire, Uploads!DirectRecheck
  <2>2. CASE Uploads!DirectRelease(g) \/ Uploads!DirectThrows(g)
    BY <1>1, <2>2, NonceOfLease DEF Uploads!DirectRelease, Uploads!DirectThrows
  <2>3. CASE Uploads!DirectCheck(g) \/ Uploads!DirectFallback(g) \/ Uploads!DirectCoverThrows(g)
    BY <2>3, SameMarker DEF Uploads!DirectCheck, Uploads!DirectFallback,
       Uploads!DirectCoverThrows
  <2>4. ASSUME NEW cover \in BOOLEAN, Uploads!DirectTags(g, cover) \/ Uploads!DirectCover(g, cover) PROVE NonceKept
    BY <2>4, SameMarker DEF Uploads!DirectTags, Uploads!DirectCover
  <2>5. QED
    BY <2>1, <2>2, <2>3, <2>4 DEF Uploads!DirectStep
<1>4. direct' = direct \/ (direct[g].phase # "none" /\ \A k \in Uploads!Gens : k # g => direct'[k] = direct[k])
  <2>1. direct \in [Uploads!Gens -> Uploads!Direct]
    BY HandlerFacts
  <2>2. CASE Uploads!DirectFallback(g)
    BY <2>2 DEF Uploads!DirectFallback
  <2>3. CASE Uploads!DirectCheck(g) \/ Uploads!DirectCoverThrows(g)
    BY <2>1, <2>3 DEF Uploads!DirectCheck, Uploads!DirectCoverThrows
  <2>4. CASE Uploads!DirectThrows(g) \/ Uploads!DirectStep(g)
    <3>1. PICK phase \in {"granted", "held", "sure", "applied", "covered"} : Uploads!Submits(g, phase)
      BY <2>4 DEF Uploads!DirectThrows, Uploads!DirectStep, Uploads!DirectAcquire,
         Uploads!DirectRecheck, Uploads!DirectRelease, Uploads!DirectTags,
         Uploads!DirectCover
    <3>2. direct[g].phase # "none"
      BY <2>4 DEF Uploads!DirectThrows, Uploads!DirectStep, Uploads!DirectAcquire,
         Uploads!DirectRecheck, Uploads!DirectRelease, Uploads!DirectTags,
         Uploads!DirectCover
    <3>3. QED
      BY <3>1, <3>2, Submitting
  <2>5. QED
    BY <2>2, <2>3, <2>4
<1>5. QED
  BY <1>1, <1>2, <1>3, <1>4, GrantsRest

LEMMA ApplyKeepsGrants ==
    ASSUME Uploads!IInv, Uploads!Aging, Uploads!GrantsInOrder, Uploads!ApplySteps \/ Uploads!ApplyThrows \/ Uploads!ApplyCoverThrows
    PROVE  Uploads!GrantsInOrder'
<1>1. apply # None => apply.uri \in Uploads!Gens /\ apply.nonce \in 0..MaxUploads /\ Uploads!LeaseNonce \in Uploads!Gens \cup {Uploads!Lease}
  BY QueueFacts, PlacesAre, GensFacts
<1>2. inPlace' = inPlace /\ bytes' = bytes /\ up' = up /\ direct' = direct
  <2>1. Uploads!ApplyStart \/ Uploads!ApplyRead \/ Uploads!ApplyAcquire \/ Uploads!ApplyThrows \/ Uploads!ApplyCoverThrows
        => bytes' = bytes /\ up' = up /\ direct' = direct
    BY DEF Uploads!ApplyStart, Uploads!ApplyRead, Uploads!ApplyAcquire, Uploads!ApplyThrows,
       Uploads!ApplyCoverThrows
  <2>2. Uploads!ApplyRelease \/ Uploads!ApplyEnd \/ Uploads!Reapply => bytes' = bytes /\ up' = up /\ direct' = direct
    BY DEF Uploads!ApplyRelease, Uploads!ApplyEnd, Uploads!Reapply
  <2>3. \A saved, bad \in BOOLEAN : Uploads!ApplyTags(saved) \/ Uploads!ApplyCover(saved, bad)
            => bytes' = bytes /\ up' = up /\ direct' = direct
    BY DEF Uploads!ApplyTags, Uploads!ApplyCover
  <2>4. QED
    BY <2>1, <2>2, <2>3 DEF Uploads!Aging, Uploads!ApplySteps
<1>3. NonceKept
  <2>1. CASE Uploads!ApplyAcquire \/ Uploads!ApplyThrows
    BY <1>1, <2>1, NonceOfLease, SameMarker DEF Uploads!ApplyAcquire, Uploads!ApplyThrows,
       Uploads!Applying
  <2>2. CASE Uploads!ApplyRelease
    BY <1>1, <2>2, NonceOfLease DEF Uploads!ApplyRelease, Uploads!Applying
  <2>3. CASE Uploads!ApplyStart \/ Uploads!ApplyRead \/ Uploads!ApplyEnd \/ Uploads!Reapply \/ Uploads!ApplyCoverThrows
    BY <2>3, SameMarker DEF Uploads!ApplyStart, Uploads!ApplyRead, Uploads!ApplyEnd,
       Uploads!Reapply, Uploads!ApplyCoverThrows
  <2>4. ASSUME NEW saved \in BOOLEAN, NEW bad \in BOOLEAN, Uploads!ApplyTags(saved) \/ Uploads!ApplyCover(saved, bad) PROVE NonceKept
    BY <2>4, SameMarker DEF Uploads!ApplyTags, Uploads!ApplyCover
  <2>5. QED
    BY <2>1, <2>2, <2>3, <2>4 DEF Uploads!ApplySteps
<1>4. QED
  BY <1>2, <1>3, GrantsRest

LEMMA JobKeepsGrants ==
    ASSUME Uploads!IInv, Uploads!Aging, Uploads!GrantsInOrder, Uploads!JobSteps \/ Uploads!SweepLease
    PROVE  Uploads!GrantsInOrder'
<1>1. inPlace' = inPlace /\ bytes' = bytes /\ up' = up /\ direct' = direct
  BY DEF Uploads!Aging, Uploads!JobSteps, Uploads!JobLook, Uploads!JobDecide,
     Uploads!JobMove, Uploads!JobDelete, Uploads!JobEnqueue, Uploads!JobCandidate,
     Uploads!SweepLease
<1>2. marker' = marker \/ marker' = None \/ (marker # None /\ marker'.nonce = marker.nonce)
  <2>1. CASE Uploads!JobMove
    <3>1. job # None /\ job.phase = "move"
      BY <2>1 DEF Uploads!JobMove
    <3>2. job.to \in Uploads!Gens /\ job.uri \in Uploads!Gens /\ job.nonce \in Uploads!Gens \cup {Uploads!Lease}
      BY <3>1, QueueFacts, GensFacts DEF Uploads!IInv, Uploads!JobInOrder
    <3>3. Uploads!IsMarker("canceled", job.uri, job.nonce) => marker # None
      BY <3>2, MarkerFields
    <3>4. QED
      BY <2>1, <3>2, <3>3, MarkerEdited DEF Uploads!JobMove
  <2>2. CASE Uploads!SweepLease
    BY <2>2, MarkerEdited DEF Uploads!SweepLease
  <2>3. CASE Uploads!JobLook \/ Uploads!JobDecide \/ Uploads!JobDelete \/ Uploads!JobEnqueue \/ Uploads!JobCandidate
    BY <2>3 DEF Uploads!JobLook, Uploads!JobDecide, Uploads!JobDelete, Uploads!JobEnqueue,
       Uploads!JobCandidate
  <2>4. QED
    BY <2>1, <2>2, <2>3 DEF Uploads!JobSteps
<1>3. QED
  BY <1>1, <1>2, GrantsRest DEF NonceKept

\* An upload goes on; if it writes, it has the lease.
LEMMA GrantsMove ==
    ASSUME Uploads!IInv, Uploads!GrantsInOrder, inPlace' = inPlace, NEW g \in Uploads!Gens, bytes' = bytes \/ up[g].phase \in Uploads!Holding,
           \A k \in Uploads!Gens : k # g => up'[k] = up[k] /\ direct'[k] = direct[k],
           inPlace /\ up'[g].phase \in {"pended", "register", "release"} => bytes' = g,
           inPlace /\ direct'[g].phase # "none" => bytes' = g,
           marker' # None /\ marker'.nonce \in Uploads!Gens => marker'.nonce = g \/ (marker # None /\ marker.nonce = marker'.nonce)
    PROVE  Uploads!GrantsInOrder'
<1>1. SUFFICES ASSUME inPlace, NEW k \in Uploads!Gens, k # g
               PROVE  /\ up[k].phase \in {"pended", "register", "release"} => bytes' = k
                      /\ direct[k].phase # "none" /\ marker' # None /\ marker'.nonce = k => bytes' = k
  BY DEF Uploads!GrantsInOrder
<1>2. ASSUME up[k].phase \in {"pended", "register", "release"} PROVE bytes' = k
  <2>1. up[k].phase \in Uploads!Holding
    BY <1>2 DEF Uploads!Holding
  <2>2. up[g].phase \notin Uploads!Holding
    BY <1>1, <2>1, UploadAlone
  <2>3. QED
    BY <1>1, <1>2, <2>2 DEF Uploads!GrantsInOrder
<1>3. ASSUME direct[k].phase # "none", marker' # None, marker'.nonce = k PROVE bytes' = k
  <2>1. marker # None /\ marker.nonce = k
    BY <1>1, <1>3
  <2>2. up[g].phase \notin Uploads!Holding
    BY <1>1, <2>1, UploadAlone
  <2>3. QED
    BY <1>1, <1>3, <2>1, <2>2 DEF Uploads!GrantsInOrder
<1>4. QED
  BY <1>2, <1>3

\* An upload that is under way has no capability yet, and gets it when it is over.
LEMMA UploadGrants ==
    ASSUME Uploads!IInv, NEW g \in Uploads!Gens, up[g].phase # "over", NEW phase \in {"mark", "pend", "finish", "over"} \cup Uploads!Holding, Uploads!Goes(g, phase),
           direct' = direct
    PROVE  /\ up'[g].phase = phase /\ direct'[g].phase = "none"
           /\ \A k \in Uploads!Gens : k # g => up'[k] = up[k] /\ direct'[k] = direct[k]
<1>1. direct[g].phase = "none"
  BY DEF Uploads!IInv, Uploads!DirectInOrder
<1>2. up'[g].phase = phase /\ \A k \in Uploads!Gens : k # g => up'[k] = up[k]
  BY Going
<1>3. QED
  BY <1>1, <1>2

LEMMA CreateKeepsGrants ==
    ASSUME Uploads!IInv, Uploads!Aging, Uploads!GrantsInOrder, NEW g \in Uploads!Gens, Uploads!Create(g) \/ Uploads!Pend(g) \/ Uploads!Mark(g) \/ Uploads!Finish(g), Uploads!NobodyOvertakes
    PROVE  Uploads!GrantsInOrder'
<1>1. inPlace' = inPlace /\ direct' = direct /\ up[g].phase # "over"
  BY DEF Uploads!Aging, Uploads!Create, Uploads!Pend, Uploads!Mark, Uploads!Finish
<1>2. Uploads!Uri(g) \in Uploads!Gens /\ g \in 0..MaxUploads /\ g # 0
  BY PlacesAre, GensFacts DEF Uploads!Gens
<1>3. CASE Uploads!Create(g)
  <2>1. PICK phase \in {"pend", "finish"} : Uploads!Goes(g, phase)
    BY <1>3 DEF Uploads!Create
  <2>2. /\ up'[g].phase = phase /\ direct'[g].phase = "none"
        /\ \A k \in Uploads!Gens : k # g => up'[k] = up[k] /\ direct'[k] = direct[k]
    BY <1>1, <2>1, UploadGrants
  <2>3. inst = None /\ marker' = marker
    BY <1>3 DEF Uploads!Create, Uploads!IInv, Uploads!UploadInOrder
  <2>4. \A k \in Uploads!Gens : up[k].phase \in {"idle", "create", "over"} /\ direct[k].phase = "none"
    BY <2>3 DEF Uploads!IInv, Uploads!NothingBefore
  <2>5. QED
    BY <1>1, <2>1, <2>2, <2>4 DEF Uploads!GrantsInOrder
<1>4. CASE Uploads!Pend(g) \/ Uploads!Mark(g) \/ Uploads!Finish(g)
  <2>1. bytes' = bytes
    BY <1>4 DEF Uploads!Pend, Uploads!Mark, Uploads!Finish
  <2>2. PICK phase \in {"pended", "reset", "finish", "over"} : Uploads!Goes(g, phase) /\ (phase = "pended" => Uploads!Pend(g))
    BY <1>4 DEF Uploads!Pend, Uploads!Mark, Uploads!Finish
  <2>3. "pended" \in Uploads!Holding /\ "reset" \in Uploads!Holding
    BY DEF Uploads!Holding
  <2>4. /\ up'[g].phase = phase /\ direct'[g].phase = "none"
        /\ \A k \in Uploads!Gens : k # g => up'[k] = up[k] /\ direct'[k] = direct[k]
    BY <1>1, <2>2, <2>3, UploadGrants
  <2>5. inPlace /\ phase = "pended" => bytes = g
    <3>1. Uploads!Pend(g) => up[g].phase = "pend" /\ g = 1
      BY DEF Uploads!Pend, Uploads!IInv, Uploads!UploadInOrder
    <3>2. QED
      BY <2>2, <3>1 DEF Uploads!NobodyOvertakes
  <2>6. marker' = marker \/ marker'.nonce = g
    BY <1>2, <1>4, LeaseLeavesMarker DEF Uploads!Pend, Uploads!Mark, Uploads!Finish
  <2>7. QED
    BY <1>1, <2>1, <2>2, <2>4, <2>5, <2>6, GrantsMove
<1>5. QED
  BY <1>3, <1>4

LEMMA HolderKeepsGrants ==
    ASSUME Uploads!IInv, Uploads!Aging, Uploads!GrantsInOrder, NEW g \in Uploads!Gens,
           Uploads!Reset(g) \/ Uploads!Write(g) \/ Uploads!WriteFails(g) \/ Uploads!Register(g) \/ Uploads!Pended(g) \/ Uploads!FreeLease(g)
    PROVE  Uploads!GrantsInOrder'
<1>1. inPlace' = inPlace
  BY DEF Uploads!Aging
<1>2. up[g].phase \in Uploads!Holding
  BY DEF Uploads!Holding, Uploads!Reset, Uploads!Write, Uploads!WriteFails,
     Uploads!Register, Uploads!Pended, Uploads!FreeLease
<1>3. /\ Uploads!IsMarker("claimed", Uploads!Uri(g), g) /\ Uploads!Uri(g) \in Uploads!Gens /\ g \in Uploads!Gens \cup {Uploads!Lease} /\ up[g].phase # "over"
      /\ marker # None
  BY <1>2, HolderFacts
<1>4. NonceKept
  BY <1>3, NonceOfLease, SameMarker DEF Uploads!Reset, Uploads!Write, Uploads!WriteFails,
     Uploads!Register, Uploads!Pended, Uploads!FreeLease
<1>5. CASE Uploads!Reset(g) \/ Uploads!Write(g) \/ Uploads!WriteFails(g) \/ Uploads!Register(g)
  <2>1. PICK phase \in {"write", "register", "release", "over"} :
            Uploads!Goes(g, phase) /\ (phase = "register" => Uploads!Write(g)) /\ (phase = "release" => Uploads!Register(g))
    BY <1>5 DEF Uploads!Reset, Uploads!Write, Uploads!WriteFails, Uploads!Register
  <2>2. phase \in {"mark", "pend", "finish", "over"} \cup Uploads!Holding /\ direct' = direct
    BY <1>5 DEF Uploads!Holding, Uploads!Reset, Uploads!Write, Uploads!WriteFails,
       Uploads!Register
  <2>3. /\ up'[g].phase = phase /\ direct'[g].phase = "none"
        /\ \A k \in Uploads!Gens : k # g => up'[k] = up[k] /\ direct'[k] = direct[k]
    BY <1>3, <2>1, <2>2, UploadGrants
  <2>4. inPlace /\ phase \in {"register", "release"} => bytes' = g
    BY <2>1 DEF Uploads!Write, Uploads!Register, Uploads!GrantsInOrder
  <2>5. QED
    BY <1>1, <1>2, <1>4, <2>1, <2>3, <2>4, GrantsMove DEF NonceKept
<1>6. CASE Uploads!Pended(g) \/ Uploads!FreeLease(g)
  <2>1. PICK phase \in {"finish", "over"} : Uploads!Goes(g, phase)
    BY <1>6 DEF Uploads!Pended, Uploads!FreeLease
  <2>2. up'[g].phase = phase /\ \A k \in Uploads!Gens : k # g => up'[k] = up[k]
    BY <2>1, Going
  <2>3. \A k \in Uploads!Gens : k # g => direct'[k] = direct[k]
    <3>1. direct' = direct \/ Uploads!Submits(g, "granted")
      BY <1>6 DEF Uploads!Pended, Uploads!FreeLease, Uploads!Grant, Uploads!Submits
    <3>2. QED
      BY <3>1, Submitting
  <2>4. inPlace => bytes' = g
    BY <1>6 DEF Uploads!Pended, Uploads!FreeLease, Uploads!GrantsInOrder
  <2>5. QED
    BY <1>1, <1>2, <1>4, <2>2, <2>3, <2>4, GrantsMove DEF NonceKept
<1>7. QED
  BY <1>5, <1>6

LEMMA GrantsStep == Uploads!IInv /\ Uploads!GrantsInOrder /\ Uploads!NobodyOvertakes /\ Uploads!Next => Uploads!GrantsInOrder'
<1> SUFFICES ASSUME Uploads!IInv, Uploads!GrantsInOrder, Uploads!NobodyOvertakes, Uploads!Next PROVE Uploads!GrantsInOrder'
  OBVIOUS
<1>1. Uploads!Aging /\ inPlace' = inPlace
  BY DEF Uploads!Next, Uploads!Aging
<1>2. ASSUME NEW g \in Uploads!Gens, NEW kind \in Kinds, Uploads!Start(g, kind) PROVE Uploads!GrantsInOrder'
  <2>1. bytes' = bytes /\ marker' = marker /\ direct' = direct /\ up[g].phase = "idle"
    BY <1>2 DEF Uploads!Start
  <2>2. direct[g].phase = "none"
    BY <2>1 DEF Uploads!IInv, Uploads!DirectInOrder
  <2>3. PICK u : /\ up' = [up EXCEPT ![g] = u]
                 /\ u = IF inst = None THEN [kind |-> kind, seen |-> 0, phase |-> "create"]
                        ELSE [kind |-> kind, seen |-> inst.uri, phase |-> "mark"]
    BY <1>2 DEF Uploads!Start
  <2>4. up'[g].phase \in {"create", "mark"} /\ \A k \in Uploads!Gens : k # g => up'[k] = up[k]
    <3>1. u.phase \in {"create", "mark"}
      BY <2>3
    <3>2. QED
      BY <2>3, <3>1, HandlerFacts
  <2>5. QED
    BY <1>1, <2>1, <2>2, <2>4, GrantsMove
<1>3. ASSUME NEW g \in Uploads!Gens, Uploads!UploadStep(g) \/ Uploads!WriteFails(g) PROVE Uploads!GrantsInOrder'
  BY <1>1, <1>3, CreateKeepsGrants, HolderKeepsGrants DEF Uploads!UploadStep
<1>4. ASSUME NEW k \in -1..MaxUploads, Uploads!EnqueueStep(k) PROVE Uploads!GrantsInOrder'
  <2>1. bytes' = bytes /\ marker' = marker /\ up' = up /\ direct' = direct
    BY <1>4 DEF Uploads!EnqueueStep, Uploads!EnqueueRead, Uploads!EnqueueRefresh,
       Uploads!EnqueueReread, Uploads!EnqueueDispatch
  <2>2. QED
    BY <1>1, <2>1, SameMarker, GrantsRest
<1>5. ASSUME Uploads!TaskSteps \/ Uploads!TaskFails PROVE Uploads!GrantsInOrder'
  <2>1. bytes' = bytes /\ marker' = marker /\ up' = up /\ direct' = direct
    BY <1>5 DEF Uploads!TaskSteps, Uploads!TaskClaimed, Uploads!TaskReads,
       Uploads!TaskSubmitted, Uploads!TaskFails
  <2>2. QED
    BY <1>1, <2>1, SameMarker, GrantsRest
<1>6. ASSUME Uploads!Dies PROVE Uploads!GrantsInOrder'
  <2>1. bytes' = bytes /\ marker' = marker
    BY <1>6 DEF Uploads!Dies
  <2>2. CASE up' = up /\ direct' = direct
    BY <1>1, <2>1, <2>2, SameMarker, GrantsRest
  <2>3. ASSUME NEW g \in Uploads!Gens, up[g].phase \notin {"idle", "over"}, Uploads!Goes(g, "over"), direct' = direct PROVE Uploads!GrantsInOrder'
    BY <1>1, <2>1, <2>3, UploadGrants, GrantsMove
  <2>4. ASSUME NEW g \in Uploads!Gens, direct[g].phase \notin {"none", "granted"}, Uploads!Submits(g, "granted"), up' = up PROVE Uploads!GrantsInOrder'
    <3>1. \A k \in Uploads!Gens : k # g => direct'[k] = direct[k]
      BY <2>4, Submitting
    <3>2. QED
      BY <1>1, <2>1, <2>4, <3>1, SameMarker, GrantsRest
  <2>5. QED
    BY <1>6, <2>2, <2>3, <2>4 DEF Uploads!Dies
<1>7. QED
  BY <1>1, <1>2, <1>3, <1>4, <1>5, <1>6, DirectKeepsGrants, ApplyKeepsGrants, JobKeepsGrants
     DEF Uploads!Next, Uploads!Faults

LEMMA TagsStep == Uploads!IInv /\ Uploads!TagsInOrder /\ Uploads!GrantsInOrder /\ Uploads!NobodyOvertakes /\ Uploads!Next => Uploads!TagsInOrder'
<1> SUFFICES ASSUME Uploads!IInv, Uploads!TagsInOrder, Uploads!GrantsInOrder, Uploads!NobodyOvertakes, Uploads!Next PROVE Uploads!TagsInOrder'
  OBVIOUS
<1>1. Uploads!Aging /\ inPlace' = inPlace
  BY DEF Uploads!Next, Uploads!Aging
<1>2. ASSUME NEW g \in Uploads!Gens, NEW kind \in Kinds, Uploads!Start(g, kind) PROVE Uploads!TagsInOrder'
  BY <1>1, <1>2, TagsRest DEF Uploads!Start
<1>3. ASSUME NEW g \in Uploads!Gens, Uploads!UploadStep(g) \/ Uploads!WriteFails(g) PROVE Uploads!TagsInOrder'
  BY <1>1, <1>3, UploadKeepsTags
<1>4. ASSUME NEW g \in Uploads!Gens, Uploads!DirectStep(g) PROVE Uploads!TagsInOrder'
  <2>1. CASE Uploads!DirectAcquire(g) \/ Uploads!DirectRecheck(g) \/ Uploads!DirectRelease(g) \/ \E saved \in BOOLEAN : Uploads!DirectCover(g, saved)
    <3>1. bytes' = bytes /\ inst' = inst /\ apply' = apply
      BY <2>1 DEF Uploads!DirectAcquire, Uploads!DirectRecheck, Uploads!DirectRelease,
         Uploads!DirectCover
    <3>2. QED
      BY <1>1, <3>1, TagsRest
  <2>2. QED
    BY <1>1, <1>4, <2>1, DirectKeepsTags DEF Uploads!DirectStep
<1>5. ASSUME NEW g \in Uploads!Gens, Uploads!DirectCheck(g) \/ Uploads!DirectFallback(g) \/ Uploads!DirectThrows(g) \/ Uploads!DirectCoverThrows(g) PROVE Uploads!TagsInOrder'
  <2>1. bytes' = bytes /\ inst' = inst /\ apply' = apply
    BY <1>5 DEF Uploads!DirectCheck, Uploads!DirectFallback, Uploads!DirectThrows,
       Uploads!DirectCoverThrows
  <2>2. QED
    BY <1>1, <2>1, TagsRest
<1>6. ASSUME NEW k \in -1..MaxUploads, Uploads!EnqueueStep(k) PROVE Uploads!TagsInOrder'
  <2>1. bytes' = bytes /\ inst' = inst /\ apply' = apply
    BY <1>6 DEF Uploads!EnqueueStep, Uploads!EnqueueRead, Uploads!EnqueueRefresh,
       Uploads!EnqueueReread, Uploads!EnqueueDispatch
  <2>2. QED
    BY <1>1, <2>1, TagsRest
<1>7. ASSUME Uploads!TaskSteps \/ Uploads!TaskFails \/ Uploads!Dies \/ Uploads!SweepLease PROVE Uploads!TagsInOrder'
  <2>1. bytes' = bytes /\ inst' = inst /\ (apply' = apply \/ apply' = None)
    BY <1>7 DEF Uploads!TaskSteps, Uploads!TaskClaimed, Uploads!TaskReads,
       Uploads!TaskSubmitted, Uploads!TaskFails, Uploads!Dies, Uploads!SweepLease
  <2>2. QED
    BY <1>1, <2>1, TagsRest
<1>8. ASSUME Uploads!JobSteps PROVE Uploads!TagsInOrder'
  <2>1. bytes' = bytes /\ inst' = inst /\ apply' = apply
    BY <1>8 DEF Uploads!JobSteps, Uploads!JobLook, Uploads!JobDecide, Uploads!JobMove,
       Uploads!JobDelete, Uploads!JobEnqueue, Uploads!JobCandidate
  <2>2. QED
    BY <1>1, <2>1, TagsRest
<1>9. ASSUME Uploads!ApplySteps \/ Uploads!ApplyThrows \/ Uploads!ApplyCoverThrows PROVE Uploads!TagsInOrder'
  <2>1. CASE Uploads!ApplyEnd \/ Uploads!Reapply
    <3>1. bytes' = bytes /\ inst' = inst /\ (apply' = apply \/ apply' = None)
      BY <2>1 DEF Uploads!ApplyEnd, Uploads!Reapply
    <3>2. QED
      BY <1>1, <3>1, TagsRest
  <2>2. QED
    BY <1>1, <1>9, <2>1, ApplyKeepsTags, ApplyGoesWithTags, ApplyEndsWithTags
       DEF Uploads!ApplySteps
<1>10. QED
  BY <1>2, <1>3, <1>4, <1>5, <1>6, <1>7, <1>8, <1>9 DEF Uploads!Next, Uploads!Faults

LEMMA GrantsStill == Uploads!GrantsInOrder /\ UNCHANGED uploadVars => Uploads!GrantsInOrder'
BY DEF Uploads!GrantsInOrder, uploadVars

LEMMA TagsStill == Uploads!TagsInOrder /\ UNCHANGED uploadVars => Uploads!TagsInOrder'
BY DEF Uploads!TagsInOrder, Uploads!TagsOfBytes, Uploads!Content, uploadVars

LEMMA UploadsAlways == RecordsSpec => []Uploads!IInv
<1>1. RecordsInit => Uploads!IInv
  BY UploadsStart DEF RecordsInit
<1>2. Uploads!IInv /\ [RecordsNext]_recordVars => Uploads!IInv'
  <2> SUFFICES ASSUME Uploads!IInv, [RecordsNext]_recordVars PROVE Uploads!IInv'
    OBVIOUS
  <2>1. Uploads!Next \/ UNCHANGED uploadVars
    BY DEF RecordsNext, recordVars, uploadVars
  <2>2. QED
    BY <2>1, UploadsStep, UploadsStill
<1>3. QED
  BY <1>1, <1>2, PTL DEF RecordsSpec

\* Tags of the bytes, unless an overwrite or a submission overtook the late first marker of
\* a new file, or an apply without a nonce.
THEOREM TagsAreOfTheBytes ==
    RecordsSpec /\ [](part = "upload" => Uploads!NobodyOvertakes) => []TagsOfBytes
<1>1. RecordsInit => Uploads!TagsInOrder /\ Uploads!GrantsInOrder
  BY DEF RecordsInit, Uploads!Init, Uploads!TagsInOrder, Uploads!TagsOfBytes,
     Uploads!GrantsInOrder
<1>2. Uploads!IInv /\ Uploads!TagsInOrder /\ Uploads!GrantsInOrder /\ (part = "upload" => Uploads!NobodyOvertakes) /\ [RecordsNext]_recordVars
      => (Uploads!TagsInOrder /\ Uploads!GrantsInOrder)'
  <2> SUFFICES ASSUME Uploads!IInv, Uploads!TagsInOrder, Uploads!GrantsInOrder, part = "upload" => Uploads!NobodyOvertakes, [RecordsNext]_recordVars
               PROVE  Uploads!TagsInOrder' /\ Uploads!GrantsInOrder'
    OBVIOUS
  <2>1. (part = "upload" /\ Uploads!Next) \/ UNCHANGED uploadVars
    BY DEF RecordsNext, recordVars, uploadVars
  <2>2. QED
    BY <2>1, TagsStep, TagsStill, GrantsStep, GrantsStill
<1>3. Uploads!TagsInOrder => TagsOfBytes
  BY DEF Uploads!TagsInOrder, TagsOfBytes
<1>4. QED
  BY <1>1, <1>2, <1>3, UploadsAlways, PTL DEF RecordsSpec

\* Work never undoes what is newer.  The marker of a file that waits for its tags is never
\* deleted (uploadMetadataRecovery.ts:65), and what was edited after a song was looked up is never
\* written over (workMetadataRetrieval.ts:696).
THEOREM NothingNewerIsUndone == RecordsSpec => NewerStays
<1>1. Uploads!IInv /\ Retrieval!IInv /\ [RecordsNext]_recordVars
      => [ /\ part = "upload" => Uploads!KeepsMarker
           /\ part = "retrieval" => Retrieval!KeepsEdits ]_recordVars
  <2> SUFFICES ASSUME Uploads!IInv, Retrieval!IInv, RecordsNext
               PROVE  /\ part = "upload" => Uploads!KeepsMarker
                      /\ part = "retrieval" => Retrieval!KeepsEdits
    OBVIOUS
  <2>1. (part = "upload" => Uploads!Next) /\ (part = "retrieval" => Retrieval!Next)
    BY DEF RecordsNext
  <2>2. QED
    BY <2>1, MarkersStay, EditsAreKept
<1>2. QED
  BY <1>1, UploadsAlways, RetrievalAlways, PTL DEF RecordsSpec, NewerStays

\* The five parts keep to their types.
THEOREM RecordsAreTyped == RecordsSpec => []TypesOK
<1>1. IInv /\ Cron!IInv /\ Update!IInv /\ Uploads!IInv /\ Retrieval!IInv => (part \in {"activation", "cron", "update", "upload", "retrieval"} => TypesOK)
  BY DEF IInv, Cron!IInv, Update!IInv, Uploads!IInv, Retrieval!IInv, TypesOK
<1>2. RecordsInit => part \in {"activation", "cron", "update", "upload", "retrieval"}
  BY DEF RecordsInit
<1>3. part \in {"activation", "cron", "update", "upload", "retrieval"} /\ [RecordsNext]_recordVars
      => (part \in {"activation", "cron", "update", "upload", "retrieval"})'
  BY DEF RecordsNext, recordVars
<1>4. QED
  BY <1>1, <1>2, <1>3, ActivationAlways, CronAlways, UpdateAlways, UploadsAlways,
     RetrievalAlways, PTL DEF RecordsSpec
================================================================================
