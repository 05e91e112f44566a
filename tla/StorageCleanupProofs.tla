------------------------ MODULE StorageCleanupProofs ------------------------
(***************************************************************************)
(* Proofs about StorageCleanup for any sweepers, administrators, objects,  *)
(* timeouts, backoffs and incidents: its types, that a job that reads      *)
(* SUCCEEDED and a product that was finalized have their objects out of    *)
(* the bucket, that the objects of a living product stay in it, that       *)
(* products with commercial history are kept, and that all of it together  *)
(* implements RetainedObjects.                                             *)
(*                                                                         *)
(* The marks are written by id, and nothing stops two workers from having  *)
(* the same job in hand.  What makes that harmless is that an object never *)
(* comes back: keys of uploads are new, so no job names an upload that a   *)
(* handler still holds (Fresh) unless somebody types its key in, and until *)
(* the deletion of the product is asked for a job names a live object only *)
(* if it is an installer whose key was typed in as the image               *)
(* (NothingLiveQueued); canDelete spares it.                               *)
(***************************************************************************)
EXTENDS StorageCleanup, TLAPS

(* Rows that somebody has claimed once.                                    *)
Claimed(j) == jobs[j].status \notin {"NONE", "PENDING"}

(* A handler's list and its job exist, it counted the attempt it works on, *)
(* it deletes what canDelete still allows, and it marks a success only     *)
(* when the object is gone.                                                *)
Known(h) ==
    /\ frame[h].todo \subseteq Queued
    /\ frame[h].at \in {"read", "check", "delete", "succeed", "audit", "fail", "retry"}
          => frame[h].job \in Job /\ Claimed(frame[h].job)
    /\ frame[h].at \in {"check", "delete", "succeed", "audit", "fail"}
          => frame[h].tries > 0
    /\ frame[h].at = "delete" => ~Blocked(frame[h].job)
    /\ frame[h].at = "succeed" => ObjectOf(frame[h].job) \notin stored

Uploading(h) == frame[h].at \in {"swap", "switch", "undo"}
Upload(h) == ObjectOf(frame[h].job)

(* An upload in a handler's hands is no other handler's, and unless its    *)
(* key is typed in it is nobody else's: not the image, not named by a job, *)
(* seen by nobody, still in the bucket.                                    *)
Private(h) ==
    /\ Upload(h) # product.image
    /\ \A j \in Queued : ObjectOf(j) # Upload(h)
    /\ \A g \in Handler : frame[g].at = "switch" => frame[g].seen # Upload(h)
    /\ frame[h].at # "undo" => Upload(h) \in stored

Fresh(h) ==
    Uploading(h) =>
        /\ frame[h].job \in {"ABANDONED_UPLOAD"} \X Image
        /\ \A g \in Handler : g # h /\ Uploading(g) => Upload(g) # Upload(h)
        /\ Upload(h) \notin typed => Private(h)

(* An image nobody typed in leaves the bucket only through a job.          *)
Kept(i) == i \in stored \/ \E j \in Queued : ObjectOf(j) = i

ImagesKept ==
    /\ product.image \in Image \ typed => Kept(product.image)
    /\ \A h \in Handler : frame[h].at = "switch" /\ frame[h].seen \in Image \ typed
                             => Kept(frame[h].seen)

(* Until a deletion is asked for, a job names what the product needs only  *)
(* when an installer took the place of the image and was replaced there.   *)
NothingLiveQueued ==
    ~product.requested =>
        \A j \in Queued : ObjectOf(j) \in Objects =>
            j[1] = "ARTIFACT_REPLACEMENT" /\ ObjectOf(j) \in Artifact

(* The inductive invariant.                                                *)
IInv ==
    /\ TypeOK
    /\ \A h \in Handler : Known(h)
    /\ \A h \in Handler : Fresh(h)
    /\ ImagesKept
    /\ NothingLiveQueued
    /\ SuccessMeansRemoved
    /\ FinalizedMeansRemoved
    /\ LiveObjectsStayStored

-----------------------------------------------------------------------------
(* What steps do to rows and calls.                                        *)

(* A row that exists goes on, and says SUCCEEDED only with its object gone.*)
Advances(j) ==
    /\ jobs'[j].status = "NONE" <=> jobs[j].status = "NONE"
    /\ Claimed(j) => Claimed(j)'
    /\ Claimed(j)' => jobs'[j].attempts > 0
    /\ jobs'[j].status = "SUCCEEDED"
          => jobs[j].status = "SUCCEEDED" \/ ObjectOf(j) \notin stored

(* The call of a handler keeps its upload or ends it; to switch it has     *)
(* just seen the image.                                                    *)
Holds(h) ==
    /\ Uploading(h)' => /\ Uploading(h) /\ frame'[h].job = frame[h].job
                        /\ frame[h].at = "undo" => frame'[h].at = "undo"
    /\ frame'[h].at = "switch" =>
          \/ frame'[h].seen = product.image
          \/ frame[h].at = "switch" /\ frame'[h].seen = frame[h].seen

(* The product keeps its image or has another typed in, and is gone for    *)
(* ever.                                                                   *)
Same ==
    /\ product' \in Product
    /\ product'.requested = product.requested
    /\ product'.exists => product.exists
    /\ product.exists /\ ~product'.exists => AllSucceeded /\ jobs' = jobs
    /\ typed \subseteq typed' /\ typed' \subseteq Image
    /\ product'.image \in Image \ typed' => product'.image = product.image

(* Where a handler goes on.                                                *)
LEMMA GoOnShape ==
    ASSUME IInv, NEW f \in Frame, NEW todo \in SUBSET Job
    PROVE  /\ GoOn(f, todo) \in Frame
           /\ GoOn(f, todo).at \in {"claim", "finalize", "idle"}
           /\ GoOn(f, todo).todo \in {todo, {}}
<1>0. 0 \in 0..MaxAttempts /\ 0 \in 0..MaxLag
  BY CleanupAssumption
<1>1. CASE todo # {}
  <2>1. GoOn(f, todo) = [f EXCEPT !.at = "claim", !.todo = todo, !.job = NoJob, !.tries = 0]
    BY <1>1 DEF GoOn
  <2>2. GoOn(f, todo) \in Frame
    BY <1>0, <2>1 DEF Frame
  <2> QED
    BY <2>1, <2>2 DEF Frame
<1>2. CASE todo = {}
  <2>1. GoOn(f, todo) = [Idle EXCEPT !.at = "finalize"] \/ GoOn(f, todo) = Idle
    BY <1>2 DEF GoOn
  <2>2. Idle \in Frame
    BY <1>0 DEF Frame, Idle
  <2>3. [Idle EXCEPT !.at = "finalize"] \in Frame
    BY <2>2 DEF Frame
  <2>4. /\ Idle.at = "idle" /\ Idle.todo = {}
        /\ [Idle EXCEPT !.at = "finalize"].at = "finalize"
        /\ [Idle EXCEPT !.at = "finalize"].todo = {}
    BY DEF Idle
  <2> QED
    BY <1>2, <2>1, <2>2, <2>3, <2>4
<1> QED
  BY <1>1, <1>2

(* Rows advance, calls move, the product stays the one it is.              *)
LEMMA AllMove ==
    ASSUME IInv, UNCHANGED <<removed, stored>>, Same,
           jobs' \in [Job -> Row], \A j \in Job : Advances(j),
           incidents' \in 0..MaxIncident, edits' \in 0..MaxEdit,
           frame' \in [Handler -> Frame],
           \A h \in Handler : Known(h)', \A h \in Handler : Holds(h)
    PROVE  IInv'
<1>1. Queued' = Queued
  BY DEF Queued, Advances
<1>2. Objects' \subseteq Objects
  BY DEF Objects, Same
<1>3. TypeOK'
  BY DEF IInv, TypeOK, Advances, Claimed, Same
<1>4. \A h \in Handler : Fresh(h)'
  <2> SUFFICES ASSUME NEW h \in Handler, Uploading(h)' PROVE Fresh(h)'
    BY DEF Fresh
  <2>1. Fresh(h) /\ Holds(h) /\ Uploading(h) /\ Upload(h)' = Upload(h)
    BY DEF IInv, Holds, Upload
  <2>2. \A g \in Handler : g # h /\ Uploading(g)' => Upload(g)' # Upload(h)'
    BY <2>1 DEF Fresh, Holds, Upload
  <2>3. frame'[h].job \in {"ABANDONED_UPLOAD"} \X Image /\ Upload(h) \in Image
    BY <2>1 DEF Fresh, Holds, Upload, ObjectOf
  <2>4. ASSUME Upload(h)' \notin typed' PROVE Private(h)'
    <3>1. Private(h) /\ Upload(h) \in Image \ typed'
      BY <2>1, <2>3, <2>4 DEF Fresh, Same
    <3>2. \A g \in Handler : frame'[g].at = "switch" => frame'[g].seen # Upload(h)'
      BY <2>1, <3>1 DEF Private, Holds
    <3>3. Upload(h)' # product'.image /\ \A k \in Queued' : ObjectOf(k) # Upload(h)'
      BY <1>1, <2>1, <3>1 DEF Private, Same
    <3>4. frame'[h].at # "undo" => Upload(h)' \in stored'
      BY <2>1, <3>1 DEF Private, Holds
    <3> QED
      BY <3>2, <3>3, <3>4 DEF Private
  <2> QED
    BY <2>2, <2>3, <2>4 DEF Fresh
<1>5. ImagesKept'
  <2>1. \A i : Kept(i)' <=> Kept(i)
    BY <1>1 DEF Kept
  <2> QED
    BY <2>1 DEF IInv, ImagesKept, Holds, Same
<1>6. NothingLiveQueued'
  BY <1>1, <1>2 DEF IInv, NothingLiveQueued, Same
<1>7. SuccessMeansRemoved'
  BY DEF IInv, SuccessMeansRemoved, Advances
<1>8. FinalizedMeansRemoved'
  <2>1. CASE product.exists /\ ~product'.exists
    BY <1>1, <2>1 DEF IInv, FinalizedMeansRemoved, SuccessMeansRemoved, Same,
       AllSucceeded, Queued
  <2>2. CASE ~product.exists \/ product'.exists
    BY <1>1, <2>2 DEF IInv, FinalizedMeansRemoved, Same
  <2> QED
    BY <2>1, <2>2
<1>9. LiveObjectsStayStored'
  BY <1>2 DEF IInv, LiveObjectsStayStored, Same
<1> QED
  BY <1>3, <1>4, <1>5, <1>6, <1>7, <1>8, <1>9 DEF IInv

(* Rows advance and one call moves.                                        *)
LEMMA OneMoves ==
    ASSUME IInv, NEW h \in Handler, UNCHANGED <<removed, stored>>, Same,
           jobs' \in [Job -> Row], \A j \in Job : Advances(j),
           incidents' \in 0..MaxIncident, edits' \in 0..MaxEdit,
           frame' \in [Handler -> Frame],
           \A g \in Handler : g # h => frame'[g] = frame[g],
           Known(h)', Holds(h)
    PROVE  IInv'
<1>1. Queued' = Queued
  BY DEF Queued, Advances
<1>2. ASSUME NEW g \in Handler PROVE Known(g)'
  <2>1. CASE g = h
    BY <2>1
  <2>2. CASE g # h
    BY <1>1, <2>2 DEF IInv, Known, Advances, Blocked, Same
  <2> QED
    BY <2>1, <2>2
<1>3. ASSUME NEW g \in Handler PROVE Holds(g)
  BY DEF Holds, Uploading
<1> QED
  BY <1>2, <1>3, AllMove

(* One call moves, and nothing else.                                       *)
LEMMA CallMoves ==
    ASSUME IInv, NEW h \in Handler, UNCHANGED <<product, typed, removed, jobs, stored>>,
           incidents' \in 0..MaxIncident, edits' \in 0..MaxEdit,
           frame' \in [Handler -> Frame],
           \A g \in Handler : g # h => frame'[g] = frame[g],
           Known(h)', Holds(h)
    PROVE  IInv'
<1>1. Same
  BY DEF Same, IInv, TypeOK
<1>2. jobs' \in [Job -> Row] /\ \A j \in Job : Advances(j)
  BY DEF IInv, TypeOK, Advances, Claimed
<1> QED
  BY <1>1, <1>2, OneMoves

(* The frame of one handler is replaced.                                   *)
LEMMA FrameShape ==
    ASSUME IInv, NEW h \in Handler, NEW f \in Frame, frame' = [frame EXCEPT ![h] = f]
    PROVE  /\ frame' \in [Handler -> Frame] /\ frame'[h] = f
           /\ \A g \in Handler : g # h => frame'[g] = frame[g]
BY DEF IInv, TypeOK

(* A handler with nothing in its hands knows nothing and holds nothing.    *)
LEMMA Rested ==
    ASSUME NEW h \in Handler, frame'[h].todo = {},
           frame'[h].at \in {"idle", "finalize", "recover", "list", "claim"}
    PROVE  Known(h)' /\ Holds(h)
BY DEF Known, Holds, Uploading

(* A call goes to another place with what it has.                          *)
LEMMA GotoShape ==
    ASSUME IInv, NEW h \in Handler,
           NEW at \in {"idle", "recover", "list", "claim", "read", "check", "delete",
                       "succeed", "audit", "fail", "finalize", "retry",
                       "swap", "switch", "undo"},
           Goto(h, at)
    PROVE  /\ frame' \in [Handler -> Frame]
           /\ frame'[h].at = at /\ frame'[h].todo = frame[h].todo
           /\ frame'[h].job = frame[h].job /\ frame'[h].tries = frame[h].tries
           /\ \A g \in Handler : g # h => frame'[g] = frame[g]
<1>1. frame \in [Handler -> Frame] /\ frame[h] \in Frame
  BY DEF IInv, TypeOK
<1>2. [frame[h] EXCEPT !.at = at] \in Frame
  BY <1>1 DEF Frame
<1>3. frame' = [frame EXCEPT ![h] = [frame[h] EXCEPT !.at = at]]
  BY <1>1 DEF Goto
<1>4. frame'[h] = [frame[h] EXCEPT !.at = at]
  BY <1>1, <1>2, <1>3, FrameShape
<1> QED
  BY <1>1, <1>2, <1>3, <1>4, FrameShape DEF Frame

(* A call that returns leaves nothing in its hands.                        *)
LEMMA ReturnShape ==
    ASSUME IInv, NEW h \in Handler, Return(h)
    PROVE  /\ frame' \in [Handler -> Frame]
           /\ frame'[h].at = "idle" /\ frame'[h].todo = {}
           /\ \A g \in Handler : g # h => frame'[g] = frame[g]
           /\ Known(h)' /\ Holds(h)
<1>1. Idle \in Frame /\ Idle.at = "idle" /\ Idle.todo = {}
  BY CleanupAssumption DEF Idle, Frame
<1>2. /\ frame' \in [Handler -> Frame] /\ frame'[h] = Idle
      /\ \A g \in Handler : g # h => frame'[g] = frame[g]
  BY <1>1, FrameShape DEF Return
<1> QED
  BY <1>1, <1>2, Rested

(* A handler goes on with jobs that exist.                                 *)
LEMMA GoOnMoves ==
    ASSUME IInv, NEW h \in Handler, NEW f \in Frame, NEW todo \in SUBSET Job,
           todo \subseteq Queued', frame' = [frame EXCEPT ![h] = GoOn(f, todo)]
    PROVE  /\ frame' \in [Handler -> Frame]
           /\ \A g \in Handler : g # h => frame'[g] = frame[g]
           /\ Known(h)' /\ Holds(h)
<1>1. /\ GoOn(f, todo) \in Frame
      /\ GoOn(f, todo).at \in {"claim", "finalize", "idle"}
      /\ GoOn(f, todo).todo \in {todo, {}}
  BY GoOnShape
<1>2. /\ frame' \in [Handler -> Frame] /\ frame'[h] = GoOn(f, todo)
      /\ \A g \in Handler : g # h => frame'[g] = frame[g]
  BY <1>1, FrameShape
<1> QED
  BY <1>1, <1>2 DEF Known, Holds, Uploading

LEMMA Edits == ASSUME IInv, Edit PROVE edits' \in 0..MaxEdit
BY CleanupAssumption DEF Edit, IInv, TypeOK

LEMMA IncidentsBounded ==
    ASSUME IInv, NEW kind, Incident(kind) PROVE incidents' \in 0..MaxIncident
BY CleanupAssumption DEF Incident, IInv, TypeOK

LEMMA Counters == IInv => incidents \in 0..MaxIncident /\ edits \in 0..MaxEdit
BY DEF IInv, TypeOK

-----------------------------------------------------------------------------
(* The product, its images, and the start of work.                         *)
LEMMA EditProductStep == IInv /\ EditProduct => IInv'
<1> SUFFICES ASSUME IInv, EditProduct PROVE IInv'
  OBVIOUS
<1>1. Same
  BY DEF EditProduct, Same, IInv, TypeOK, Product, Object
<1>2. UNCHANGED <<removed, jobs, stored, frame, incidents>> /\ edits' \in 0..MaxEdit
  BY Edits DEF EditProduct
<1>3. /\ jobs' \in [Job -> Row] /\ \A j \in Job : Advances(j)
      /\ frame' \in [Handler -> Frame] /\ incidents' \in 0..MaxIncident
  BY <1>2 DEF IInv, TypeOK, Advances, Claimed
<1>4. \A h \in Handler : Known(h)' /\ Holds(h)
  BY <1>1, <1>2 DEF IInv, Known, Holds, Uploading, Queued, Claimed, Blocked, Same
<1> QED
  BY <1>1, <1>2, <1>3, <1>4, AllMove

LEMMA SellStep == IInv /\ Sell => IInv'
<1> SUFFICES ASSUME IInv, Sell PROVE IInv'
  OBVIOUS
<1>1. Same
  BY DEF Sell, Same, IInv, TypeOK, Product
<1>2. UNCHANGED <<typed, removed, jobs, stored, frame, incidents, edits>>
  BY DEF Sell
<1>3. /\ jobs' \in [Job -> Row] /\ \A j \in Job : Advances(j)
      /\ frame' \in [Handler -> Frame] /\ incidents' \in 0..MaxIncident
      /\ edits' \in 0..MaxEdit
  BY <1>2 DEF IInv, TypeOK, Advances, Claimed
<1>4. \A h \in Handler : Known(h)' /\ Holds(h)
  BY <1>1, <1>2 DEF IInv, Known, Holds, Uploading, Queued, Claimed, Blocked, Same
<1> QED
  BY <1>1, <1>2, <1>3, <1>4, AllMove

LEMMA ReadImageStep == ASSUME IInv, NEW h \in Handler, ReadImage(h) PROVE IInv'
<1>1. UNCHANGED <<product, typed, removed, jobs, stored, incidents, edits>> /\ frame[h].at = "swap"
  BY DEF ReadImage, At
<1>2. Known(h) /\ frame \in [Handler -> Frame] /\ frame[h] \in Frame
  BY DEF IInv, TypeOK
<1>3. CASE product.exists
  <2> DEFINE f == [frame[h] EXCEPT !.at = "switch", !.seen = product.image]
  <2>1. f \in Frame /\ f.at = "switch" /\ f.seen = product.image
        /\ f.job = frame[h].job /\ f.todo = frame[h].todo
    BY <1>2 DEF Frame, IInv, TypeOK, Product
  <2>2. frame' = [frame EXCEPT ![h] = f]
    BY <1>2, <1>3 DEF ReadImage
  <2>3. /\ frame' \in [Handler -> Frame] /\ frame'[h] = f
        /\ \A g \in Handler : g # h => frame'[g] = frame[g]
    BY <2>1, <2>2, FrameShape
  <2> HIDE DEF f
  <2>4. Known(h)' /\ Holds(h)
    BY <1>1, <1>2, <2>1, <2>3 DEF Known, Holds, Uploading, Queued
  <2> QED
    BY <1>1, <2>3, <2>4, CallMoves, Counters
<1>4. CASE ~product.exists
  <2>1. Goto(h, "undo")
    BY <1>4 DEF ReadImage
  <2>2. Known(h)' /\ Holds(h)
    BY <1>1, <1>2, <2>1, GotoShape DEF Known, Holds, Uploading, Queued
  <2> QED
    BY <1>1, <2>1, <2>2, GotoShape, CallMoves, Counters
<1> QED
  BY <1>3, <1>4

LEMMA UploadFailsStep == ASSUME IInv, NEW h \in Handler, UploadFails(h) PROVE IInv'
<1>1. /\ UNCHANGED <<product, typed, removed, jobs, stored, edits>>
      /\ frame[h].at \in {"swap", "switch"} /\ Goto(h, "undo")
      /\ incidents' \in 0..MaxIncident
  BY IncidentsBounded DEF UploadFails, At
<1>2. Known(h)' /\ Holds(h)
  BY <1>1, GotoShape DEF IInv, Known, Holds, Uploading, Queued
<1> QED
  BY <1>1, <1>2, GotoShape, CallMoves, Counters

LEMMA CrashStep == ASSUME IInv, NEW h \in Handler, Crash(h) PROVE IInv'
<1>1. /\ UNCHANGED <<product, typed, removed, jobs, stored, edits>> /\ Return(h)
      /\ incidents' \in 0..MaxIncident
  BY IncidentsBounded DEF Crash
<1> QED
  BY <1>1, ReturnShape, CallMoves, Counters

LEMMA StartSweepStep == ASSUME IInv, NEW h \in Handler, StartSweep(h) PROVE IInv'
<1>1. UNCHANGED <<product, typed, removed, jobs, stored, incidents, edits>>
  BY DEF StartSweep
<1>2. frame \in [Handler -> Frame] /\ frame[h] \in Frame /\ Known(h)
  BY DEF IInv, TypeOK
<1> DEFINE f == [frame[h] EXCEPT !.at = "recover", !.final = product.requested /\ AllSucceeded]
<1>3. f \in Frame /\ f.at = "recover" /\ f.todo = frame[h].todo
  BY <1>2 DEF Frame
<1>4. frame' = [frame EXCEPT ![h] = f]
  BY <1>2 DEF StartSweep
<1>5. /\ frame' \in [Handler -> Frame] /\ frame'[h] = f
      /\ \A g \in Handler : g # h => frame'[g] = frame[g]
  BY <1>3, <1>4, FrameShape
<1> HIDE DEF f
<1>6. Known(h)' /\ Holds(h)
  BY <1>1, <1>2, <1>3, <1>5 DEF Known, Holds, Uploading, Queued
<1> QED
  BY <1>1, <1>5, <1>6, CallMoves, Counters

LEMMA ListReadyStep == ASSUME IInv, NEW h \in Handler, listReady(h) PROVE IInv'
<1> DEFINE todo == {j \in Job : Waiting(j) /\ jobs[j].due <= -frame[h].lag}
<1>1. UNCHANGED <<product, typed, removed, jobs, stored, incidents, edits>>
  BY DEF listReady
<1>2. frame \in [Handler -> Frame] /\ frame[h] \in Frame
  BY DEF IInv, TypeOK
<1>3. frame' = [frame EXCEPT ![h] = GoOn(frame[h], todo)]
  BY <1>2 DEF listReady
<1>4. todo \in SUBSET Job /\ todo \subseteq Queued'
  BY <1>1 DEF Waiting, Queued
<1> HIDE DEF todo
<1>5. /\ frame' \in [Handler -> Frame]
      /\ \A g \in Handler : g # h => frame'[g] = frame[g]
      /\ Known(h)' /\ Holds(h)
  BY <1>2, <1>3, <1>4, GoOnMoves
<1> QED
  BY <1>1, <1>5, CallMoves, Counters

LEMMA StartRetryStep == ASSUME IInv, NEW h \in Handler, StartRetry(h) PROVE IInv'
<1>1. UNCHANGED <<product, typed, removed, jobs, stored, incidents>> /\ edits' \in 0..MaxEdit
  BY Edits DEF StartRetry
<1>2. frame \in [Handler -> Frame] /\ frame[h] \in Frame /\ Known(h)
  BY DEF IInv, TypeOK
<1>3. PICK j \in Job : /\ jobs[j].status \in {"FAILED", "RETRYING"}
                       /\ frame' = [frame EXCEPT ![h].at = "retry", ![h].job = j]
  BY DEF StartRetry
<1> DEFINE f == [frame[h] EXCEPT !.at = "retry", !.job = j]
<1>4. f \in Frame /\ f.at = "retry" /\ f.job = j /\ f.todo = frame[h].todo
  BY <1>2 DEF Frame
<1>5. frame' = [frame EXCEPT ![h] = f]
  BY <1>2, <1>3
<1>6. /\ frame' \in [Handler -> Frame] /\ frame'[h] = f
      /\ \A g \in Handler : g # h => frame'[g] = frame[g]
  BY <1>4, <1>5, FrameShape
<1> HIDE DEF f
<1>7. Known(h)' /\ Holds(h)
  BY <1>1, <1>2, <1>3, <1>4, <1>6 DEF Known, Holds, Uploading, Queued, Claimed
<1> QED
  BY <1>1, <1>6, <1>7, CallMoves, Counters

LEMMA StartProcessStep == ASSUME IInv, NEW h \in Handler, StartProcess(h) PROVE IInv'
<1>1. UNCHANGED <<product, typed, removed, jobs, stored, incidents, edits>>
  BY DEF StartProcess
<1>2. frame \in [Handler -> Frame] /\ frame[h] \in Frame
  BY DEF IInv, TypeOK
<1>3. PICK j \in Queued : frame' = [frame EXCEPT ![h] = GoOn(frame[h], {j})]
  BY <1>2 DEF StartProcess
<1>4. {j} \in SUBSET Job /\ {j} \subseteq Queued'
  BY <1>1 DEF Queued
<1>5. /\ frame' \in [Handler -> Frame]
      /\ \A g \in Handler : g # h => frame'[g] = frame[g]
      /\ Known(h)' /\ Holds(h)
  BY <1>2, <1>3, <1>4, GoOnMoves
<1> QED
  BY <1>1, <1>5, CallMoves, Counters

LEMMA StartDeletionStep == ASSUME IInv, NEW h \in Handler, StartDeletion(h) PROVE IInv'
<1> DEFINE todo == {j \in Job : Waiting(j)}
           f == [frame[h] EXCEPT !.final = TRUE]
<1>1. UNCHANGED <<product, typed, removed, jobs, stored, incidents, edits>>
  BY DEF StartDeletion
<1>2. frame \in [Handler -> Frame] /\ frame[h] \in Frame
  BY DEF IInv, TypeOK
<1>3. frame' = [frame EXCEPT ![h] = GoOn(f, todo)]
  BY <1>2 DEF StartDeletion
<1>4. todo \in SUBSET Job /\ todo \subseteq Queued'
  BY <1>1 DEF Waiting, Queued
<1>5. f \in Frame
  BY <1>2 DEF Frame
<1> HIDE DEF todo, f
<1>6. /\ frame' \in [Handler -> Frame]
      /\ \A g \in Handler : g # h => frame'[g] = frame[g]
      /\ Known(h)' /\ Holds(h)
  BY <1>3, <1>4, <1>5, GoOnMoves
<1> QED
  BY <1>1, <1>6, CallMoves, Counters

-----------------------------------------------------------------------------
(* process(): one call a step.                                             *)
LEMMA ReadJobStep == ASSUME IInv, NEW h \in Handler, ReadJob(h) PROVE IInv'
<1>1. /\ UNCHANGED <<product, typed, removed, jobs, stored, incidents, edits>>
      /\ frame[h].at = "read"
  BY DEF ReadJob, At
<1>2. frame \in [Handler -> Frame] /\ frame[h] \in Frame /\ Known(h)
      /\ frame[h].job \in Job /\ Claimed(frame[h].job)
  BY <1>1 DEF IInv, TypeOK, Known
<1> DEFINE f == [frame[h] EXCEPT !.at = "check", !.tries = jobs[frame[h].job].attempts]
<1>3. jobs[frame[h].job].attempts \in 0..MaxAttempts /\ jobs[frame[h].job].attempts > 0
  BY <1>2 DEF IInv, TypeOK, Row, Claimed
<1>4. f \in Frame /\ f.at = "check" /\ f.todo = frame[h].todo /\ f.job = frame[h].job
      /\ f.tries > 0
  BY <1>2, <1>3 DEF Frame
<1>5. frame' = [frame EXCEPT ![h] = f]
  BY <1>2 DEF ReadJob
<1>6. /\ frame' \in [Handler -> Frame] /\ frame'[h] = f
      /\ \A g \in Handler : g # h => frame'[g] = frame[g]
  BY <1>4, <1>5, FrameShape
<1> HIDE DEF f
<1>7. Known(h)' /\ Holds(h)
  BY <1>1, <1>2, <1>4, <1>6 DEF Known, Holds, Uploading, Queued, Claimed
<1> QED
  BY <1>1, <1>6, <1>7, CallMoves, Counters

LEMMA CanDeleteStep == ASSUME IInv, NEW h \in Handler, canDelete(h) PROVE IInv'
<1>1. /\ UNCHANGED <<product, typed, removed, jobs, stored, incidents, edits>>
      /\ frame[h].at = "check"
      /\ Goto(h, "fail") \/ (Goto(h, "delete") /\ ~Blocked(frame[h].job))
  BY DEF canDelete, At
<1>2. Known(h)' /\ Holds(h)
  BY <1>1, GotoShape DEF IInv, Known, Holds, Uploading, Queued, Claimed, Blocked
<1> QED
  BY <1>1, <1>2, GotoShape, CallMoves, Counters

LEMMA AuditedStep == ASSUME IInv, NEW h \in Handler, Audited(h) PROVE IInv'
<1>1. UNCHANGED <<product, typed, removed, jobs, stored, incidents, edits>>
  BY DEF Audited
<1>2. frame \in [Handler -> Frame] /\ frame[h] \in Frame
      /\ frame[h].todo \in SUBSET Job /\ frame[h].todo \subseteq Queued'
  BY <1>1 DEF IInv, TypeOK, Known, Queued, Frame
<1>3. frame' = [frame EXCEPT ![h] = GoOn(frame[h], frame[h].todo)]
  BY <1>2 DEF Audited
<1>4. /\ frame' \in [Handler -> Frame]
      /\ \A g \in Handler : g # h => frame'[g] = frame[g]
      /\ Known(h)' /\ Holds(h)
  BY <1>2, <1>3, GoOnMoves
<1> QED
  BY <1>1, <1>4, CallMoves, Counters

LEMMA AuditFailsStep == ASSUME IInv, NEW h \in Handler, AuditFails(h) PROVE IInv'
<1>1. /\ UNCHANGED <<product, typed, removed, jobs, stored, edits>>
      /\ frame[h].at = "audit" /\ Goto(h, "fail") /\ incidents' \in 0..MaxIncident
  BY IncidentsBounded DEF AuditFails, At
<1>2. Known(h)' /\ Holds(h)
  BY <1>1, GotoShape DEF IInv, Known, Holds, Uploading, Queued, Claimed
<1> QED
  BY <1>1, <1>2, GotoShape, CallMoves, Counters

LEMMA FinalizeStep ==
    ASSUME IInv, NEW h \in Handler, finalizeProductDeletion(h) PROVE IInv'
<1>1. UNCHANGED <<typed, removed, jobs, stored, incidents, edits>> /\ Return(h)
  BY DEF finalizeProductDeletion
<1>2. Same
  BY <1>1 DEF finalizeProductDeletion, Same, IInv, TypeOK, Product
<1>3. jobs' \in [Job -> Row] /\ \A j \in Job : Advances(j)
  BY <1>1 DEF IInv, TypeOK, Advances, Claimed
<1> QED
  BY <1>1, <1>2, <1>3, ReturnShape, OneMoves, Counters

(* A mark by id: the row says another status and when it is due.           *)
LEMMA SetShape ==
    ASSUME IInv, NEW j \in Job, Claimed(j), NEW due \in Int,
           NEW status \in {"RETRYING", "SUCCEEDED", "FAILED"},
           Set(j, status, due),
           status = "SUCCEEDED" => ObjectOf(j) \notin stored
    PROVE  /\ jobs' \in [Job -> Row] /\ \A k \in Job : Advances(k)
           /\ Queued' = Queued /\ \A k \in Job : Claimed(k) => Claimed(k)'
<1> DEFINE row == [jobs[j] EXCEPT !.status = status, !.due = due, !.age = 0]
<1>1. jobs \in [Job -> Row] /\ jobs[j] \in Row /\ 0 \in 0..MaxAge
  BY CleanupAssumption DEF IInv, TypeOK, MaxAge
<1>2. row \in Row /\ row.status = status /\ row.attempts = jobs[j].attempts
  BY <1>1 DEF Row, Status
<1>3. jobs' = [jobs EXCEPT ![j] = row]
  BY <1>1 DEF Set
<1> HIDE DEF row
<1>4. jobs' \in [Job -> Row] /\ jobs'[j] = row
      /\ \A k \in Job : k # j => jobs'[k] = jobs[k]
  BY <1>1, <1>2, <1>3
<1>5. ASSUME NEW k \in Job PROVE Advances(k) /\ (Claimed(k) => Claimed(k)')
  <2>1. CASE k = j
    BY <1>2, <1>4, <2>1 DEF Advances, Claimed, IInv, TypeOK
  <2>2. CASE k # j
    BY <1>4, <2>2 DEF Advances, Claimed, IInv, TypeOK
  <2> QED
    BY <2>1, <2>2
<1>6. Queued' = Queued
  BY <1>5 DEF Queued, Advances
<1> QED
  BY <1>4, <1>5, <1>6

LEMMA RequestRetryStep == ASSUME IInv, NEW h \in Handler, requestRetry(h) PROVE IInv'
<1> DEFINE j == frame[h].job
<1>1. /\ UNCHANGED <<product, typed, removed, stored, incidents, edits>>
      /\ frame[h].at = "retry" /\ Set(j, "RETRYING", 0)
  BY DEF requestRetry, At
<1>2. frame \in [Handler -> Frame] /\ frame[h] \in Frame /\ j \in Job /\ Claimed(j)
  BY <1>1 DEF IInv, TypeOK, Known
<1>3. frame' = [frame EXCEPT ![h] = GoOn(frame[h], {j})]
  BY <1>2 DEF requestRetry
<1> HIDE DEF j
<1>4. /\ jobs' \in [Job -> Row] /\ \A k \in Job : Advances(k)
      /\ Queued' = Queued
  BY <1>1, <1>2, SetShape
<1>5. {j} \in SUBSET Job /\ {j} \subseteq Queued'
  BY <1>2, <1>4 DEF Queued, Claimed
<1>6. /\ frame' \in [Handler -> Frame]
      /\ \A g \in Handler : g # h => frame'[g] = frame[g]
      /\ Known(h)' /\ Holds(h)
  BY <1>2, <1>3, <1>5, GoOnMoves
<1>7. Same
  BY <1>1 DEF Same, IInv, TypeOK
<1> QED
  BY <1>1, <1>4, <1>6, <1>7, OneMoves, Counters

LEMMA MarkSucceededStep == ASSUME IInv, NEW h \in Handler, markSucceeded(h) PROVE IInv'
<1>1. /\ UNCHANGED <<product, typed, removed, stored, incidents, edits>>
      /\ frame[h].at = "succeed" /\ Set(frame[h].job, "SUCCEEDED", 0) /\ Goto(h, "audit")
  BY DEF markSucceeded, At
<1>2. PICK j \in Job : j = frame[h].job
  BY <1>1 DEF IInv, Known
<1>3. Known(h) /\ Claimed(j) /\ ObjectOf(j) \notin stored
  BY <1>1, <1>2 DEF IInv, Known
<1>4. /\ jobs' \in [Job -> Row] /\ \A k \in Job : Advances(k)
      /\ Queued' = Queued /\ Claimed(j)'
  BY <1>1, <1>2, <1>3, SetShape
<1>5. Same
  BY <1>1 DEF Same, IInv, TypeOK
<1>6. Known(h)' /\ Holds(h)
  BY <1>1, <1>2, <1>3, <1>4, GotoShape DEF Known, Holds, Uploading, Claimed
<1> QED
  BY <1>1, <1>4, <1>5, <1>6, GotoShape, OneMoves, Counters

LEMMA MarkFailureStep == ASSUME IInv, NEW h \in Handler, MarkFailure(h) PROVE IInv'
<1> DEFINE f == frame[h]
<1>1. /\ UNCHANGED <<product, typed, removed, stored, incidents, edits>> /\ f.at = "fail"
      /\ frame' = [frame EXCEPT ![h] = GoOn(f, f.todo)]
      /\ IF f.tries >= MaxAttempts THEN Set(f.job, "FAILED", 0)
                                    ELSE Set(f.job, "RETRYING", Backoff[f.tries])
  BY DEF MarkFailure, At
<1>2. /\ f \in Frame /\ f.todo \in SUBSET Job /\ f.todo \subseteq Queued
      /\ f.job \in Job /\ Claimed(f.job) /\ f.tries \in 0..MaxAttempts /\ f.tries > 0
  BY <1>1 DEF IInv, TypeOK, Known, Frame
<1> HIDE DEF f
<1>3. \E due \in Int, status \in {"RETRYING", "FAILED"} : Set(f.job, status, due)
  <2>1. f.tries < MaxAttempts => Backoff[f.tries] \in Int
    BY <1>2, CleanupAssumption
  <2> QED
    BY <1>1, <1>2, <2>1, CleanupAssumption
<1>4. /\ jobs' \in [Job -> Row] /\ \A k \in Job : Advances(k)
      /\ Queued' = Queued
  BY <1>2, <1>3, SetShape
<1>5. /\ frame' \in [Handler -> Frame]
      /\ \A g \in Handler : g # h => frame'[g] = frame[g]
      /\ Known(h)' /\ Holds(h)
  BY <1>1, <1>2, <1>4, GoOnMoves
<1>6. Same
  BY <1>1 DEF Same, IInv, TypeOK
<1> QED
  BY <1>1, <1>4, <1>5, <1>6, OneMoves, Counters

(* The claim counts the attempt; a job that is not ready is passed over.   *)
LEMMA ClaimStep == ASSUME IInv, NEW h \in Handler, claim(h) PROVE IInv'
<1>1. /\ UNCHANGED <<product, typed, removed, stored, incidents, edits>>
      /\ frame[h].at = "claim"
  BY DEF claim, At
<1>2. /\ frame \in [Handler -> Frame] /\ frame[h] \in Frame /\ Known(h)
      /\ frame[h].todo \in SUBSET Job /\ frame[h].todo \subseteq Queued
      /\ jobs \in [Job -> Row]
  BY DEF IInv, TypeOK, Known, Frame
<1>3. Same
  BY <1>1 DEF Same, IInv, TypeOK
<1>4. ASSUME NEW j \in frame[h].todo, NEW rest \in SUBSET Job,
             rest = frame[h].todo \ {j}, ~Claimable(h, j),
             frame' = [frame EXCEPT ![h] = GoOn(@, rest)], UNCHANGED jobs
      PROVE  IInv'
  <2>1. rest \subseteq Queued' /\ frame' = [frame EXCEPT ![h] = GoOn(frame[h], rest)]
    BY <1>2, <1>4 DEF Queued
  <2>2. /\ frame' \in [Handler -> Frame]
        /\ \A g \in Handler : g # h => frame'[g] = frame[g]
        /\ Known(h)' /\ Holds(h)
    BY <1>2, <2>1, GoOnMoves
  <2> QED
    BY <1>1, <1>4, <2>2, CallMoves, Counters
<1>5. ASSUME NEW j \in frame[h].todo, NEW rest \in SUBSET Job,
             rest = frame[h].todo \ {j}, Claimable(h, j),
             jobs' = [jobs EXCEPT ![j] =
                         [status |-> "PROCESSING", due |-> 0, age |-> frame[h].lag,
                          attempts |-> IF @.attempts < MaxAttempts
                                       THEN @.attempts + 1 ELSE MaxAttempts]],
             frame' = [frame EXCEPT ![h].at = "read", ![h].todo = rest, ![h].job = j,
                                    ![h].lag = IF rest = {} THEN 0 ELSE @]
      PROVE  IInv'
  <2> DEFINE row == [status |-> "PROCESSING", due |-> 0, age |-> frame[h].lag,
                     attempts |-> IF jobs[j].attempts < MaxAttempts
                                  THEN jobs[j].attempts + 1 ELSE MaxAttempts]
             f == [frame[h] EXCEPT !.at = "read", !.todo = rest, !.job = j,
                                   !.lag = IF rest = {} THEN 0 ELSE frame[h].lag]
  <2>1. j \in Job /\ j \in Queued /\ rest \subseteq Queued /\ jobs[j] \in Row
    BY <1>2, <1>5
  <2>2. row \in Row /\ row.status = "PROCESSING" /\ row.attempts > 0
    <3>1. jobs[j].attempts \in 0..MaxAttempts /\ frame[h].lag \in 0..MaxLag
      BY <1>2, <2>1 DEF Row, Frame
    <3>2. (IF jobs[j].attempts < MaxAttempts THEN jobs[j].attempts + 1 ELSE MaxAttempts)
             \in 1..MaxAttempts
      BY <3>1, CleanupAssumption
    <3>3. frame[h].lag \in 0..MaxAge /\ 0 \in Int
      BY <3>1, CleanupAssumption DEF MaxAge
    <3> QED
      BY <3>2, <3>3, CleanupAssumption DEF Row, Status
  <2>3. jobs' = [jobs EXCEPT ![j] = row]
    BY <1>2, <1>5, <2>1
  <2>4. f \in Frame /\ f.at = "read" /\ f.todo = rest /\ f.job = j
    <3>1. (IF rest = {} THEN 0 ELSE frame[h].lag) \in 0..MaxLag
      BY <1>2, CleanupAssumption DEF Frame
    <3> QED
      BY <1>2, <2>1, <3>1 DEF Frame
  <2>5. frame' = [frame EXCEPT ![h] = f]
    BY <1>2, <1>5
  <2> HIDE DEF row, f
  <2>6. /\ frame' \in [Handler -> Frame] /\ frame'[h] = f
        /\ \A g \in Handler : g # h => frame'[g] = frame[g]
    BY <2>4, <2>5, FrameShape
  <2>7. jobs' \in [Job -> Row] /\ jobs'[j] = row
        /\ \A k \in Job : k # j => jobs'[k] = jobs[k]
    BY <1>2, <2>1, <2>2, <2>3
  <2>8. ASSUME NEW k \in Job PROVE Advances(k)
    <3>1. CASE k = j
      BY <2>1, <2>2, <2>7, <3>1 DEF Advances, Claimed, Queued
    <3>2. CASE k # j
      BY <2>7, <3>2 DEF Advances, Claimed, IInv, TypeOK
    <3> QED
      BY <3>1, <3>2
  <2>9. Known(h)' /\ Holds(h)
    <3>1. Queued' = Queued
      BY <2>8 DEF Queued, Advances
    <3> QED
      BY <2>1, <2>2, <2>4, <2>6, <2>7, <3>1 DEF Known, Holds, Uploading, Claimed
  <2> QED
    BY <1>1, <1>3, <2>6, <2>7, <2>8, <2>9, OneMoves, Counters
<1>6. PICK j \in frame[h].todo :
         LET rest == frame[h].todo \ {j} IN
         IF Claimable(h, j)
           THEN /\ jobs' = [jobs EXCEPT ![j] =
                         [status |-> "PROCESSING", due |-> 0, age |-> frame[h].lag,
                          attempts |-> IF @.attempts < MaxAttempts
                                       THEN @.attempts + 1 ELSE MaxAttempts]]
                /\ frame' = [frame EXCEPT ![h].at = "read", ![h].todo = rest, ![h].job = j,
                                          ![h].lag = IF rest = {} THEN 0 ELSE @]
           ELSE /\ frame' = [frame EXCEPT ![h] = GoOn(@, rest)]
                /\ UNCHANGED jobs
  BY DEF claim
<1>7. PICK rest \in SUBSET Job : rest = frame[h].todo \ {j}
  BY <1>2
<1>8. CASE Claimable(h, j)
  BY <1>5, <1>6, <1>7, <1>8
<1>9. CASE ~Claimable(h, j)
  BY <1>4, <1>6, <1>7, <1>9
<1> QED
  BY <1>8, <1>9

(* Abandoned rows wait again; none is lost, none reads SUCCEEDED by it.    *)
LEMMA RecoverStep == ASSUME IInv, NEW h \in Handler, recoverAbandoned(h) PROVE IInv'
<1>1. /\ UNCHANGED <<product, typed, removed, stored, incidents, edits>> /\ Goto(h, "list")
      /\ jobs' = [j \in Job |->
            IF /\ jobs[j].status = "PROCESSING"
               /\ jobs[j].age > Timeout + frame[h].lag
            THEN [jobs[j] EXCEPT !.status = "RETRYING", !.age = 0,
                                 !.due = -frame[h].lag]
            ELSE jobs[j]]
  BY DEF recoverAbandoned
<1>2. frame[h].lag \in Int /\ 0 \in 0..MaxAge
  BY CleanupAssumption DEF IInv, TypeOK, Frame, MaxAge
<1>3. ASSUME NEW j \in Job PROVE jobs'[j] \in Row /\ Advances(j)
  <2>1. jobs[j] \in Row /\ (Claimed(j) => jobs[j].attempts > 0)
    BY DEF IInv, TypeOK, Claimed
  <2>2. CASE jobs[j].status = "PROCESSING" /\ jobs[j].age > Timeout + frame[h].lag
    <3>1. jobs'[j] = [jobs[j] EXCEPT !.status = "RETRYING", !.age = 0,
                                     !.due = -frame[h].lag]
      BY <1>1, <2>2
    <3>2. -frame[h].lag \in Int
      BY <1>2
    <3>3. /\ jobs'[j] \in Row /\ jobs'[j].status = "RETRYING"
          /\ jobs'[j].attempts = jobs[j].attempts
      BY <1>2, <2>1, <3>1, <3>2 DEF Row, Status
    <3> QED
      BY <2>1, <2>2, <3>3 DEF Advances, Claimed
  <2>3. CASE ~(jobs[j].status = "PROCESSING" /\ jobs[j].age > Timeout + frame[h].lag)
    <3>1. jobs'[j] = jobs[j]
      BY <1>1, <2>3
    <3> QED
      BY <2>1, <3>1 DEF Advances, Claimed
  <2> QED
    BY <2>2, <2>3
<1>4. jobs' \in [Job -> Row] /\ Queued' = Queued
  <2>1. jobs' \in [Job -> Row]
    BY <1>1, <1>3
  <2>2. Queued' = Queued
    BY <1>3 DEF Queued, Advances
  <2> QED
    BY <2>1, <2>2
<1>5. Same
  BY <1>1 DEF Same, IInv, TypeOK
<1>6. Known(h)' /\ Holds(h)
  BY <1>1, <1>4, GotoShape DEF IInv, Known, Holds, Uploading
<1> QED
  BY <1>1, <1>3, <1>4, <1>5, <1>6, GotoShape, OneMoves, Counters

(* Time passes for rows and for the batches of sweepers.                   *)
LEMMA TickStep == IInv /\ Tick => IInv'
<1> SUFFICES ASSUME IInv, Tick PROVE IInv'
  OBVIOUS
<1>1. UNCHANGED <<product, typed, removed, stored, incidents, edits>>
  BY DEF Tick
<1>2. ASSUME NEW j \in Job PROVE jobs'[j] \in Row /\ Advances(j)
  <2>1. jobs[j] \in Row /\ (Claimed(j) => jobs[j].attempts > 0)
    BY DEF IInv, TypeOK, Claimed
  <2>2. \/ jobs'[j] = jobs[j]
        \/ jobs'[j] = [jobs[j] EXCEPT !.due = jobs[j].due - 1]
        \/ jobs[j].age < MaxAge /\ jobs'[j] = [jobs[j] EXCEPT !.age = jobs[j].age + 1]
    BY DEF Tick
  <2>3. jobs[j].due - 1 \in Int
        /\ (jobs[j].age < MaxAge => jobs[j].age + 1 \in 0..MaxAge)
    BY <2>1, CleanupAssumption DEF Row, MaxAge
  <2>4. jobs'[j] \in Row /\ jobs'[j].status = jobs[j].status
        /\ jobs'[j].attempts = jobs[j].attempts
    BY <2>1, <2>2, <2>3 DEF Row
  <2> QED
    BY <2>1, <2>4 DEF Advances, Claimed
<1>3. ASSUME NEW h \in Handler
      PROVE  /\ frame'[h] \in Frame
             /\ frame'[h].at = frame[h].at /\ frame'[h].todo = frame[h].todo
             /\ frame'[h].job = frame[h].job /\ frame'[h].tries = frame[h].tries
             /\ frame'[h].seen = frame[h].seen
  <2>1. frame[h] \in Frame
    BY DEF IInv, TypeOK
  <2>2. \/ frame'[h] = frame[h]
        \/ frame[h].lag < MaxLag /\ frame'[h] = [frame[h] EXCEPT !.lag = frame[h].lag + 1]
    BY DEF Tick
  <2>3. frame[h].lag < MaxLag => frame[h].lag + 1 \in 0..MaxLag
    BY <2>1, CleanupAssumption DEF Frame
  <2> QED
    BY <2>1, <2>2, <2>3 DEF Frame
<1>4. jobs' \in [Job -> Row] /\ frame' \in [Handler -> Frame]
  <2>1. jobs' = [j \in Job |-> jobs'[j]]
    BY DEF Tick
  <2>2. frame' = [h \in Handler |-> frame'[h]]
    BY DEF Tick
  <2> QED
    BY <1>2, <1>3, <2>1, <2>2
<1>5. Queued' = Queued
  BY <1>2 DEF Queued, Advances
<1>6. ASSUME NEW h \in Handler PROVE Known(h)' /\ Holds(h)
  <2>1. Known(h)
    BY DEF IInv
  <2>2. Holds(h)
    BY <1>3 DEF Holds, Uploading
  <2>3. \A j \in Job : jobs[j].status \notin {"NONE", "PENDING"}
                          => jobs'[j].status \notin {"NONE", "PENDING"}
    BY <1>2 DEF Advances, Claimed
  <2> QED
    BY <1>1, <1>3, <1>5, <2>1, <2>2, <2>3 DEF Known, Claimed, Blocked
<1>7. Same
  BY <1>1 DEF Same, IInv, TypeOK
<1> QED
  BY <1>1, <1>2, <1>4, <1>6, <1>7, AllMove, Counters

-----------------------------------------------------------------------------
(* Steps that queue jobs.                                                  *)

LEMMA QueueShape ==
    ASSUME IInv, NEW new \in SUBSET Job, Queue(new)
    PROVE  /\ jobs' \in [Job -> Row] /\ Queued' = Queued \cup new
           /\ \A j \in Job : j \in Queued => jobs'[j] = jobs[j]
           /\ \A j \in Job : Claimed(j)' => Claimed(j) /\ jobs'[j] = jobs[j]
           /\ \A j \in Job : Claimed(j) => Claimed(j)'
           /\ \A j \in Job : jobs'[j].status = "SUCCEEDED"
                                 => jobs[j].status = "SUCCEEDED"
<1> DEFINE row == [NoRow EXCEPT !.status = "PENDING"]
<1>1. row \in Row /\ row.status = "PENDING"
  BY CleanupAssumption DEF NoRow, Row, Status, MaxAge
<1>2. jobs' = [j \in Job |-> IF j \in new \ Queued THEN row ELSE jobs[j]]
  BY DEF Queue
<1> HIDE DEF row
<1>3. jobs' \in [Job -> Row]
  BY <1>1, <1>2 DEF IInv, TypeOK
<1>4. ASSUME NEW j \in Job
      PROVE  /\ j \in Queued' <=> j \in Queued \cup new
             /\ j \in Queued => jobs'[j] = jobs[j]
             /\ Claimed(j)' => Claimed(j) /\ jobs'[j] = jobs[j]
             /\ Claimed(j) => Claimed(j)'
             /\ jobs'[j].status = "SUCCEEDED" => jobs[j].status = "SUCCEEDED"
  BY <1>1, <1>2 DEF Queued, Claimed
<1>5. Queued' = Queued \cup new
  BY <1>4 DEF Queued
<1> QED
  BY <1>3, <1>4, <1>5

(* What a queue may change: the image and the removals, and who returns.   *)
LEMMA QueueMoves ==
    ASSUME IInv, NEW new \in SUBSET Job, Queue(new), UNCHANGED <<stored, typed>>,
           product' \in Product, removed \subseteq removed', removed' \subseteq Artifact,
           incidents' \in 0..MaxIncident, edits' \in 0..MaxEdit,
           frame' \in [Handler -> Frame],
           product.exists \/ new = {}, product'.exists = product.exists,
           \A h \in Handler : \/ frame'[h] = frame[h]
                              \/ frame'[h].at = "idle" /\ frame'[h].todo = {},
           \A h \in Handler : Uploading(h)' /\ Upload(h) \notin typed =>
              /\ Upload(h) # product'.image
              /\ \A j \in new : ObjectOf(j) # Upload(h),
           product'.image \in Image \ typed =>
              \/ product'.image \in stored
              \/ \E j \in Queued \cup new : ObjectOf(j) = product'.image,
           ~product'.requested =>
              \A j \in Queued \cup new : ObjectOf(j) \in Objects' =>
                 j[1] = "ARTIFACT_REPLACEMENT" /\ ObjectOf(j) \in Artifact,
           product'.exists /\ ~product'.requested => Objects' \subseteq stored
    PROVE  IInv'
<1>1. /\ jobs' \in [Job -> Row] /\ Queued' = Queued \cup new
      /\ \A j \in Job : Claimed(j)' => Claimed(j) /\ jobs'[j] = jobs[j]
      /\ \A j \in Job : Claimed(j) => Claimed(j)'
      /\ \A j \in Job : jobs'[j].status = "SUCCEEDED" => jobs[j].status = "SUCCEEDED"
  BY QueueShape
<1>2. TypeOK'
  BY <1>1 DEF IInv, TypeOK, Claimed
<1>3. ASSUME NEW h \in Handler PROVE Known(h)'
  <2>1. CASE frame'[h] = frame[h]
    <3>1. \A j \in Job : jobs[j].status \notin {"NONE", "PENDING"}
                            => jobs'[j].status \notin {"NONE", "PENDING"}
      BY <1>1 DEF Claimed
    <3> QED
      BY <1>1, <2>1, <3>1 DEF IInv, Known, Claimed, Blocked
  <2>2. CASE frame'[h].at = "idle" /\ frame'[h].todo = {}
    BY <2>2 DEF Known
  <2> QED
    BY <2>1, <2>2
<1>4. ASSUME NEW h \in Handler PROVE Fresh(h)'
  <2> SUFFICES ASSUME Uploading(h)' PROVE Fresh(h)'
    BY DEF Fresh
  <2>1. frame'[h] = frame[h] /\ Uploading(h) /\ Fresh(h) /\ Upload(h)' = Upload(h)
    BY DEF Uploading, IInv, Upload
  <2>2. \A g \in Handler : Uploading(g)' => Uploading(g) /\ Upload(g)' = Upload(g)
    BY DEF Uploading, Upload
  <2>3. ASSUME Upload(h)' \notin typed' PROVE Private(h)'
    <3>1. Private(h) /\ Upload(h) \notin typed
      BY <2>1, <2>3 DEF Fresh
    <3>2. \A g \in Handler : frame'[g].at = "switch" => frame'[g].seen # Upload(h)
      BY <3>1 DEF Private
    <3> QED
      BY <1>1, <2>1, <3>1, <3>2 DEF Private
  <2> QED
    BY <2>1, <2>2, <2>3 DEF Fresh
<1>5. ImagesKept'
  <2>1. product'.image \in Image \ typed' =>
           product'.image \in stored' \/ \E j \in Queued' : ObjectOf(j) = product'.image
    BY <1>1
  <2>2. \A h \in Handler : frame'[h].at = "switch" /\ frame'[h].seen \in Image \ typed'
           => frame'[h].seen \in stored' \/ \E j \in Queued' : ObjectOf(j) = frame'[h].seen
    BY <1>1 DEF IInv, ImagesKept, Kept
  <2> QED
    BY <2>1, <2>2 DEF ImagesKept, Kept
<1>6. NothingLiveQueued'
  BY <1>1 DEF NothingLiveQueued
<1>7. SuccessMeansRemoved'
  BY <1>1 DEF IInv, SuccessMeansRemoved
<1>8. FinalizedMeansRemoved'
  BY <1>1 DEF IInv, FinalizedMeansRemoved
<1>9. LiveObjectsStayStored'
  BY DEF LiveObjectsStayStored
<1> QED
  BY <1>2, <1>3, <1>4, <1>5, <1>6, <1>7, <1>8, <1>9 DEF IInv

(* Objects of the jobs of a type.                                          *)
LEMMA JobObjects ==
    /\ \A type, O : \A j \in {type} \X O : ObjectOf(j) \in O
    /\ \A O \in SUBSET Object : {"PRODUCT_DELETION"} \X O \in SUBSET Job
    /\ \A O \in SUBSET Object : {"ARTIFACT_REPLACEMENT"} \X O \in SUBSET Job
    /\ \A i \in Image : <<"ABANDONED_UPLOAD", i>> \in Job
    /\ \A a \in Artifact : <<"ARTIFACT_REMOVAL", a>> \in Job
BY DEF ObjectOf, Job

LEMMA RequestDeletionStep == IInv /\ RequestDeletion => IInv'
<1> SUFFICES ASSUME IInv, RequestDeletion PROVE IInv'
  OBVIOUS
<1> DEFINE O == (Object \cap {product.image}) \cup Artifact
           new == {"PRODUCT_DELETION"} \X O
<1>1. /\ product.exists /\ Queue(new)
      /\ product' = [product EXCEPT !.requested = TRUE, !.active = FALSE]
      /\ UNCHANGED <<typed, removed, stored, frame, incidents, edits>>
  BY DEF RequestDeletion, Eligible
<1>2. /\ product' \in Product /\ product'.requested
      /\ product'.image = product.image /\ product'.exists = product.exists
  BY <1>1 DEF IInv, TypeOK, Product
<1>3. new \in SUBSET Job /\ \A j \in new : ObjectOf(j) \in O
  BY JobObjects DEF Object
<1>4. ASSUME NEW h \in Handler, Uploading(h)', Upload(h) \notin typed
      PROVE  Upload(h) # product'.image /\ \A j \in new : ObjectOf(j) # Upload(h)
  <2>1. Uploading(h) /\ Upload(h) # product.image /\ Upload(h) \in Image
    <3>1. Uploading(h)
      BY <1>1, <1>4 DEF Uploading
    <3> QED
      BY <1>4, <3>1 DEF IInv, Fresh, Private, Upload, ObjectOf
  <2>2. Upload(h) \notin O
    BY <2>1, CleanupAssumption
  <2> QED
    BY <1>2, <1>3, <2>1, <2>2
<1>5. product'.image \in Image \ typed =>
         product'.image \in stored \/ \E j \in Queued \cup new : ObjectOf(j) = product'.image
  BY <1>2 DEF IInv, ImagesKept, Kept
<1>6. /\ removed \subseteq removed' /\ removed' \subseteq Artifact /\ frame' \in [Handler -> Frame]
      /\ incidents' \in 0..MaxIncident /\ edits' \in 0..MaxEdit
  BY <1>1 DEF IInv, TypeOK
<1> HIDE DEF new, O
<1> QED
  BY <1>1, <1>2, <1>3, <1>4, <1>5, <1>6, QueueMoves

LEMMA RemoveArtifactStep ==
    ASSUME IInv, NEW a \in Artifact, RemoveArtifact(a) PROVE IInv'
<1> DEFINE new == {<<"ARTIFACT_REMOVAL", a>>}
<1>1. /\ product.exists /\ Queue(new) /\ removed' = removed \cup {a}
      /\ UNCHANGED <<product, typed, stored, frame, incidents>> /\ edits' \in 0..MaxEdit
  BY Edits DEF RemoveArtifact
<1>2. new \in SUBSET Job /\ \A j \in new : ObjectOf(j) = a
  BY JobObjects DEF ObjectOf
<1>3. Objects' = Objects \ {a} /\ a \notin Image
  BY <1>1, CleanupAssumption DEF Objects
<1>4. ASSUME NEW h \in Handler, Uploading(h)', Upload(h) \notin typed
      PROVE  Upload(h) # product'.image /\ \A j \in new : ObjectOf(j) # Upload(h)
  <2>1. Uploading(h)
    BY <1>1, <1>4 DEF Uploading
  <2>2. Upload(h) # product.image /\ Upload(h) \in Image
    BY <1>4, <2>1 DEF IInv, Fresh, Private, Upload, ObjectOf
  <2> QED
    BY <1>1, <1>2, <1>3, <2>2
<1>5. product'.image \in Image \ typed =>
         product'.image \in stored \/ \E j \in Queued \cup new : ObjectOf(j) = product'.image
  BY <1>1 DEF IInv, ImagesKept, Kept
<1>6. ~product'.requested =>
         \A j \in Queued \cup new : ObjectOf(j) \in Objects' =>
            j[1] = "ARTIFACT_REPLACEMENT" /\ ObjectOf(j) \in Artifact
  BY <1>1, <1>2, <1>3 DEF IInv, NothingLiveQueued
<1>7. product'.exists /\ ~product'.requested => Objects' \subseteq stored
  BY <1>1, <1>3 DEF IInv, LiveObjectsStayStored
<1>8. /\ product' \in Product /\ removed \subseteq removed'
      /\ removed' \subseteq Artifact /\ frame' \in [Handler -> Frame]
      /\ incidents' \in 0..MaxIncident
  BY <1>1 DEF IInv, TypeOK
<1> HIDE DEF new
<1> QED
  BY <1>1, <1>2, <1>4, <1>5, <1>6, <1>7, <1>8, QueueMoves

LEMMA SwitchImageStep ==
    ASSUME IInv, NEW h \in Handler, SwitchImage(h) PROVE IInv'
<1>1. frame[h].at = "switch" /\ UNCHANGED <<typed, removed, stored, incidents, edits>>
  BY DEF SwitchImage, At
<1>2. CASE ~product.exists
  <2>1. Goto(h, "undo") /\ UNCHANGED <<product, typed, removed, jobs, stored, incidents, edits>>
    BY <1>2 DEF SwitchImage
  <2>2. Known(h)' /\ Holds(h)
    BY <1>1, <2>1, GotoShape DEF IInv, Known, Holds, Uploading, Queued
  <2> QED
    BY <2>1, <2>2, GotoShape, CallMoves, Counters
<1>3. CASE product.exists
  <2> DEFINE O == Object \cap {frame[h].seen}
             new == {"ARTIFACT_REPLACEMENT"} \X O
             i == Upload(h)
  <2>1. /\ product' = [product EXCEPT !.image = i] /\ Queue(new) /\ Return(h)
    BY <1>3 DEF SwitchImage, Upload
  <2>2. /\ Fresh(h) /\ Uploading(h) /\ i \in Image
        /\ i \notin typed => /\ i \in stored /\ frame[h].seen # i
                             /\ \A j \in Queued : ObjectOf(j) # i
    BY <1>1 DEF IInv, Uploading, Fresh, Private, Upload, ObjectOf
  <2>3. /\ product' \in Product /\ product'.image = i
        /\ product'.exists = product.exists /\ product'.requested = product.requested
    BY <2>1, <2>2 DEF IInv, TypeOK, Product, Object
  <2>4. /\ new \in SUBSET Job
        /\ \A j \in new : /\ ObjectOf(j) = frame[h].seen /\ ObjectOf(j) \in Object
                           /\ j[1] = "ARTIFACT_REPLACEMENT"
    BY JobObjects
  <2> HIDE DEF new, O, i
  <2>5. /\ frame' \in [Handler -> Frame]
        /\ frame'[h].at = "idle" /\ frame'[h].todo = {}
        /\ \A g \in Handler : g # h => frame'[g] = frame[g]
    BY <2>1, ReturnShape
  <2>6. ASSUME NEW g \in Handler, Uploading(g)', Upload(g) \notin typed
        PROVE  Upload(g) # product'.image /\ \A j \in new : ObjectOf(j) # Upload(g)
    <3>1. g # h /\ Uploading(g) /\ Fresh(g)
      BY <2>5, <2>6 DEF IInv, Uploading
    <3>2. Upload(g) # i /\ frame[h].seen # Upload(g)
      BY <1>1, <2>2, <2>6, <3>1 DEF Fresh, Private, i
    <3> QED
      BY <2>3, <2>4, <3>2
  <2>7. Objects' = ({i} \ typed) \cup (Artifact \ removed)
    BY <1>1, <2>2, <2>3 DEF Objects
  <2>8. ~product'.requested =>
           \A j \in Queued \cup new : ObjectOf(j) \in Objects' =>
              j[1] = "ARTIFACT_REPLACEMENT" /\ ObjectOf(j) \in Artifact
    <3>1. ASSUME ~product.requested, NEW j \in Queued, ObjectOf(j) \in Objects'
          PROVE  j[1] = "ARTIFACT_REPLACEMENT" /\ ObjectOf(j) \in Artifact
      <4>1. ObjectOf(j) \in Artifact \ removed
        BY <2>2, <2>7, <3>1
      <4> QED
        BY <3>1, <4>1 DEF IInv, NothingLiveQueued, Objects
    <3>2. ASSUME NEW j \in new, ObjectOf(j) \in Objects'
          PROVE  j[1] = "ARTIFACT_REPLACEMENT" /\ ObjectOf(j) \in Artifact
      BY <2>2, <2>4, <2>7, <3>2
    <3> QED
      BY <2>3, <3>1, <3>2
  <2>9. product'.exists /\ ~product'.requested => Objects' \subseteq stored
    BY <2>2, <2>3, <2>7 DEF IInv, LiveObjectsStayStored, Objects
  <2>10. removed \subseteq removed' /\ removed' \subseteq Artifact
    BY <1>1 DEF IInv, TypeOK
  <2> QED
    BY <1>1, <1>3, <2>1, <2>2, <2>3, <2>4, <2>5, <2>6, <2>8, <2>9, <2>10,
       QueueMoves, Counters
<1> QED
  BY <1>2, <1>3

LEMMA QueueAbandonedStep ==
    ASSUME IInv, NEW h \in Handler, QueueAbandoned(h) PROVE IInv'
<1> DEFINE new == IF product.exists THEN {frame[h].job} ELSE {}
           i == Upload(h)
<1>1. /\ frame[h].at = "undo" /\ Queue(new) /\ Return(h)
      /\ UNCHANGED <<product, typed, removed, stored, edits>> /\ incidents' \in 0..MaxIncident
  BY IncidentsBounded DEF QueueAbandoned, At
<1>2. /\ Fresh(h) /\ Uploading(h) /\ frame[h].job \in {"ABANDONED_UPLOAD"} \X Image
      /\ i \in Image /\ (i \notin typed => i # product.image)
  BY <1>1 DEF IInv, Uploading, Fresh, Private, Upload, ObjectOf
<1>3. new \in SUBSET Job /\ \A j \in new : ObjectOf(j) = i
  BY <1>2 DEF Job, Upload
<1>4. product.exists \/ new = {}
  OBVIOUS
<1> HIDE DEF new, i
<1>5. /\ frame' \in [Handler -> Frame]
      /\ frame'[h].at = "idle" /\ frame'[h].todo = {}
      /\ \A g \in Handler : g # h => frame'[g] = frame[g]
  BY <1>1, ReturnShape
<1>6. ASSUME NEW g \in Handler, Uploading(g)', Upload(g) \notin typed
      PROVE  Upload(g) # product'.image /\ \A j \in new : ObjectOf(j) # Upload(g)
  <2>1. g # h /\ Uploading(g) /\ Fresh(g)
    BY <1>5, <1>6 DEF IInv, Uploading
  <2>2. Upload(g) # i /\ Upload(g) # product.image
    BY <1>2, <1>6, <2>1 DEF Fresh, Private, i
  <2> QED
    BY <1>1, <1>3, <2>2
<1>7. Objects' = Objects /\ i \notin Objects
  BY <1>1, <1>2, CleanupAssumption DEF Objects
<1>8. ~product'.requested =>
         \A j \in Queued \cup new : ObjectOf(j) \in Objects' =>
            j[1] = "ARTIFACT_REPLACEMENT" /\ ObjectOf(j) \in Artifact
  BY <1>1, <1>3, <1>7 DEF IInv, NothingLiveQueued
<1>9. product'.exists /\ ~product'.requested => Objects' \subseteq stored
  BY <1>1, <1>7 DEF IInv, LiveObjectsStayStored
<1>10. product'.image \in Image \ typed =>
         product'.image \in stored \/ \E j \in Queued \cup new : ObjectOf(j) = product'.image
  BY <1>1 DEF IInv, ImagesKept, Kept
<1>11. product' \in Product /\ removed \subseteq removed' /\ removed' \subseteq Artifact
  BY <1>1 DEF IInv, TypeOK
<1> QED
  BY <1>1, <1>3, <1>4, <1>5, <1>6, <1>8, <1>9, <1>10, <1>11, QueueMoves, Counters

-----------------------------------------------------------------------------
(* Steps on the bucket.                                                    *)

(* canDelete spares the installer that was taken for an image.             *)
LEMMA Spared ==
    ASSUME IInv, NEW h \in Handler, frame[h].at = "delete", ~product.requested,
           product.exists
    PROVE  ObjectOf(frame[h].job) \notin Objects
<1>1. PICK j \in Job : j = frame[h].job /\ j \in Queued /\ ~Blocked(j)
  BY DEF IInv, Known, Claimed, Queued
<1>2. ASSUME ObjectOf(j) \in Objects PROVE FALSE
  <2>1. j[1] = "ARTIFACT_REPLACEMENT" /\ ObjectOf(j) \in Artifact
    BY <1>1, <1>2 DEF IInv, NothingLiveQueued
  <2>2. ObjectOf(j) \in Artifact \ removed
    BY <1>2, <2>1, CleanupAssumption DEF Objects
  <2> QED
    BY <1>1, <2>1, <2>2 DEF Blocked
<1> QED
  BY <1>1, <1>2

(* What leaves is an object of a job, or an upload its handler gives up.   *)
LEMMA StoredShrinks ==
    ASSUME IInv, NEW h \in Handler, UNCHANGED <<product, typed, removed, jobs, edits>>,
           incidents' \in 0..MaxIncident, stored' \subseteq stored,
           product.exists /\ ~product.requested =>
              Objects \cap (stored \ stored') = {},
           \A x \in stored \ stored' :
              \/ \E j \in Queued : ObjectOf(j) = x
              \/ Uploading(h) /\ x = Upload(h),
           frame' \in [Handler -> Frame], ~Uploading(h)',
           \A g \in Handler : g # h => frame'[g] = frame[g],
           Known(h)'
    PROVE  IInv'
<1>1. Queued' = Queued /\ Objects' = Objects
  BY DEF Queued, Objects
<1>2. TypeOK'
  BY DEF IInv, TypeOK
<1>3. ASSUME NEW g \in Handler PROVE Known(g)'
  <2>1. CASE g = h
    BY <2>1
  <2>2. CASE g # h
    BY <1>1, <2>2 DEF IInv, Known, Claimed, Blocked
  <2> QED
    BY <2>1, <2>2
<1>4. ASSUME NEW g \in Handler PROVE Fresh(g)'
  <2> SUFFICES ASSUME Uploading(g)' PROVE Fresh(g)'
    BY DEF Fresh
  <2>1. g # h /\ frame'[g] = frame[g] /\ Uploading(g) /\ Fresh(g) /\ Upload(g)' = Upload(g)
    BY DEF Uploading, IInv, Upload
  <2>2. \A k \in Handler : Uploading(k)' => Uploading(k) /\ Upload(k)' = Upload(k)
                                              /\ frame'[k] = frame[k]
    BY DEF Uploading, Upload
  <2>3. ASSUME Upload(g)' \notin typed' PROVE Private(g)'
    <3>1. Private(g)
      BY <2>1, <2>3 DEF Fresh
    <3>2. \A k \in Handler : frame'[k].at = "switch" => frame'[k].seen # Upload(g)
      BY <2>2, <3>1 DEF Private, Uploading
    <3>3. Upload(g) \in stored => Upload(g) \in stored'
      BY <2>1, <3>1 DEF Fresh, Private
    <3> QED
      BY <1>1, <2>1, <3>1, <3>2, <3>3 DEF Private
  <2> QED
    BY <2>1, <2>2, <2>3 DEF Fresh
<1>5. ImagesKept'
  <2>1. ASSUME NEW i, Kept(i), Uploading(h) => i # Upload(h) PROVE Kept(i)'
    BY <1>1, <2>1 DEF Kept
  <2>2. product.image \in Image \ typed => Kept(product.image)'
    BY <2>1 DEF IInv, ImagesKept, Fresh, Private
  <2>3. ASSUME NEW g \in Handler, frame'[g].at = "switch", frame'[g].seen \in Image \ typed
        PROVE  frame'[g].seen \in stored' \/ \E j \in Queued' : ObjectOf(j) = frame'[g].seen
    <3>1. frame'[g] = frame[g]
      BY <2>3 DEF Uploading
    <3>2. PICK i : i = frame[g].seen
      OBVIOUS
    <3>3. Kept(i) /\ (Uploading(h) => i # Upload(h))
      BY <2>3, <3>1, <3>2 DEF IInv, ImagesKept, Fresh, Private
    <3> QED
      BY <2>1, <3>1, <3>2, <3>3 DEF Kept
  <2> QED
    BY <2>2, <2>3 DEF ImagesKept, Kept
<1>6. NothingLiveQueued'
  BY <1>1 DEF IInv, NothingLiveQueued
<1>7. SuccessMeansRemoved' /\ FinalizedMeansRemoved'
  BY <1>1 DEF IInv, SuccessMeansRemoved, FinalizedMeansRemoved
<1>8. LiveObjectsStayStored'
  <2> SUFFICES ASSUME product.exists, ~product.requested, NEW x \in Objects
               PROVE  x \in stored'
    BY <1>1 DEF LiveObjectsStayStored
  <2>1. x \in stored
    BY DEF IInv, LiveObjectsStayStored
  <2> QED
    BY <2>1
<1> QED
  BY <1>2, <1>3, <1>4, <1>5, <1>6, <1>7, <1>8 DEF IInv

LEMMA DeleteObjectStep ==
    ASSUME IInv, NEW h \in Handler, deleteObject(h) PROVE IInv'
<1>1. /\ frame[h].at = "delete" /\ stored' = stored \ {ObjectOf(frame[h].job)}
      /\ Goto(h, "succeed") /\ UNCHANGED <<product, typed, removed, jobs, incidents, edits>>
  BY DEF deleteObject, At
<1>2. Known(h) /\ frame[h].job \in Queued
  BY <1>1 DEF IInv, Known, Claimed, Queued
<1>3. Known(h)' /\ ~Uploading(h)'
  BY <1>1, <1>2, GotoShape DEF Known, Uploading, Queued, Claimed
<1> QED
  BY <1>1, <1>2, <1>3, GotoShape, StoredShrinks, Spared, Counters

LEMMA DeleteFailsStep ==
    ASSUME IInv, NEW h \in Handler, DeleteFails(h) PROVE IInv'
<1>1. /\ frame[h].at = "delete" /\ stored' \in {stored, stored \ {ObjectOf(frame[h].job)}}
      /\ Goto(h, "fail") /\ UNCHANGED <<product, typed, removed, jobs, edits>>
      /\ incidents' \in 0..MaxIncident
  BY IncidentsBounded DEF DeleteFails, At
<1>2. Known(h) /\ frame[h].job \in Queued
  BY <1>1 DEF IInv, Known, Claimed, Queued
<1>3. Known(h)' /\ ~Uploading(h)'
  BY <1>1, <1>2, GotoShape DEF Known, Uploading, Queued, Claimed
<1> QED
  BY <1>1, <1>2, <1>3, GotoShape, StoredShrinks, Spared

LEMMA UndoUploadStep ==
    ASSUME IInv, NEW h \in Handler, UndoUpload(h) PROVE IInv'
<1>1. /\ Uploading(h) /\ stored' = stored \ {Upload(h)}
      /\ Return(h) /\ UNCHANGED <<product, typed, removed, jobs, incidents, edits>>
  BY DEF UndoUpload, At, Uploading, Upload
<1>2. ~Uploading(h)'
  BY <1>1, ReturnShape DEF Uploading
<1>3. Upload(h) \notin Objects
  BY <1>1, CleanupAssumption DEF IInv, Fresh, Private, Upload, ObjectOf, Objects
<1> QED
  BY <1>1, <1>2, <1>3, ReturnShape, StoredShrinks, Counters

(* A new image gets a key that no job, call or product knows.              *)
LEMMA UploadImageStep ==
    ASSUME IInv, NEW h \in Handler, UploadImage(h) PROVE IInv'
<1>1. PICK i \in Image :
        /\ Unused(i) /\ stored' = stored \cup {i}
        /\ frame' = [frame EXCEPT ![h].at = "swap", ![h].job = <<"ABANDONED_UPLOAD", i>>]
  BY DEF UploadImage
<1>2. /\ frame[h].at = "idle" /\ UNCHANGED <<product, typed, removed, jobs, incidents>>
      /\ edits' \in 0..MaxEdit
  BY Edits DEF UploadImage, At
<1>3. /\ frame \in [Handler -> Frame] /\ frame[h] \in Frame
  BY DEF IInv, TypeOK
<1> DEFINE f == [frame[h] EXCEPT !.at = "swap", !.job = <<"ABANDONED_UPLOAD", i>>]
<1>4. /\ f \in Frame /\ f.at = "swap" /\ f.job = <<"ABANDONED_UPLOAD", i>>
      /\ f.todo = frame[h].todo
  BY <1>3, JobObjects DEF Frame
<1>5. frame' = [frame EXCEPT ![h] = f]
  BY <1>1, <1>3
<1>6. /\ frame' \in [Handler -> Frame] /\ frame'[h] = f
      /\ \A g \in Handler : g # h => frame'[g] = frame[g]
  BY <1>4, <1>5, FrameShape
<1> HIDE DEF f
<1>7. Queued' = Queued /\ Objects' = Objects
  BY <1>2 DEF Queued, Objects
<1>8. /\ i \notin stored \cup typed /\ i # product.image /\ \A j \in Queued : ObjectOf(j) # i
      /\ \A g \in Handler : Uploading(g) => Upload(g) # i
      /\ \A g \in Handler : frame[g].at = "switch" => frame[g].seen # i
  <2>1. /\ i \notin stored \cup typed /\ i # product.image /\ \A j \in Queued : ObjectOf(j) # i
    BY <1>1 DEF Unused
  <2>2. ASSUME NEW g \in Handler, Uploading(g) PROVE Upload(g) # i
    BY <1>1, <2>2 DEF Unused, IInv, Fresh, Upload, ObjectOf
  <2>3. ASSUME NEW g \in Handler, frame[g].at = "switch" PROVE frame[g].seen # i
    BY <2>1, <2>3 DEF IInv, ImagesKept, Kept
  <2> QED
    BY <2>1, <2>2, <2>3
<1>9. TypeOK'
  BY <1>1, <1>2, <1>6 DEF IInv, TypeOK, Object
<1>10. ASSUME NEW g \in Handler PROVE Known(g)'
  <2>1. CASE g = h
    BY <1>4, <1>6, <1>7, <2>1 DEF IInv, Known
  <2>2. CASE g # h
    BY <1>1, <1>2, <1>6, <1>7, <1>8, <2>2 DEF IInv, Known, Claimed, Queued, Blocked
  <2> QED
    BY <2>1, <2>2
<1>11. Uploading(h)' /\ Upload(h)' = i /\ frame'[h].at # "switch"
  BY <1>4, <1>6 DEF Uploading, Upload, ObjectOf
<1>12. \A g \in Handler : g # h => /\ Uploading(g)' <=> Uploading(g)
                                   /\ Upload(g)' = Upload(g)
  BY <1>6 DEF Uploading, Upload
<1>13. ASSUME NEW g \in Handler PROVE Fresh(g)'
  <2> SUFFICES ASSUME Uploading(g)' PROVE Fresh(g)'
    BY DEF Fresh
  <2>1. CASE g = h
    <3>1. frame'[g].job \in {"ABANDONED_UPLOAD"} \X Image /\ Upload(g)' \in stored'
      BY <1>1, <1>4, <1>6, <1>11, <2>1
    <3>2. Upload(g)' # product'.image /\ \A j \in Queued' : ObjectOf(j) # Upload(g)'
      BY <1>2, <1>7, <1>8, <1>11, <2>1
    <3>3. \A k \in Handler : k # g /\ Uploading(k)' => Upload(k)' # Upload(g)'
      BY <1>8, <1>11, <1>12, <2>1
    <3>4. \A k \in Handler : frame'[k].at = "switch" => frame'[k].seen # Upload(g)'
      BY <1>6, <1>8, <1>11, <2>1
    <3> QED
      BY <3>1, <3>2, <3>3, <3>4 DEF Fresh, Private
  <2>2. CASE g # h
    <3>1. Uploading(g) /\ Fresh(g) /\ frame'[g] = frame[g] /\ Upload(g)' = Upload(g)
          /\ Upload(g) # i
      BY <1>6, <1>8, <1>12, <2>2 DEF IInv
    <3>2. \A k \in Handler : k # g /\ Uploading(k)' => Upload(k)' # Upload(g)'
      BY <1>11, <1>12, <3>1 DEF Fresh
    <3>3. ASSUME Upload(g)' \notin typed' PROVE Private(g)'
      <4>1. Private(g)
        BY <1>2, <3>1, <3>3 DEF Fresh
      <4>2. \A k \in Handler : frame'[k].at = "switch" => frame'[k].seen # Upload(g)'
        BY <1>6, <1>11, <3>1, <4>1 DEF Private
      <4> QED
        BY <1>1, <1>2, <1>7, <3>1, <4>1, <4>2 DEF Private
    <3> QED
      BY <3>1, <3>2, <3>3 DEF Fresh
  <2> QED
    BY <2>1, <2>2
<1>14. ImagesKept'
  <2>1. product'.image \in Image \ typed' =>
           product'.image \in stored' \/ \E j \in Queued' : ObjectOf(j) = product'.image
    BY <1>1, <1>2, <1>7 DEF IInv, ImagesKept, Kept
  <2>2. \A g \in Handler : frame'[g].at = "switch" /\ frame'[g].seen \in Image \ typed'
           => frame'[g].seen \in stored' \/ \E j \in Queued' : ObjectOf(j) = frame'[g].seen
    BY <1>1, <1>2, <1>6, <1>7, <1>11 DEF IInv, ImagesKept, Kept
  <2> QED
    BY <2>1, <2>2 DEF ImagesKept, Kept
<1>15. NothingLiveQueued' /\ LiveObjectsStayStored'
  BY <1>1, <1>2, <1>7 DEF IInv, NothingLiveQueued, LiveObjectsStayStored
<1>16. SuccessMeansRemoved' /\ FinalizedMeansRemoved'
  BY <1>1, <1>2, <1>7, <1>8 DEF IInv, SuccessMeansRemoved, FinalizedMeansRemoved, Queued
<1> QED
  BY <1>9, <1>10, <1>13, <1>14, <1>15, <1>16 DEF IInv

-----------------------------------------------------------------------------
(* The initial state, the steps together, and the theorems.                *)
LEMMA InitIInv == Init => IInv
<1> SUFFICES ASSUME Init PROVE IInv
  OBVIOUS
<1>1. jobs = [j \in Job |-> NoRow] /\ NoRow \in Row /\ NoRow.status = "NONE"
  BY CleanupAssumption DEF Init, NoRow, Row, Status, MaxAge
<1>2. Idle \in Frame /\ frame = [h \in Handler |-> Idle]
      /\ Idle.at = "idle" /\ Idle.todo = {}
  BY CleanupAssumption DEF Init, Idle, Frame
<1>3. Queued = {}
  BY <1>1 DEF Queued
<1>4. product \in Product
  BY CleanupAssumption DEF Init, Product, Object
<1>5. TypeOK
  BY <1>1, <1>2, <1>4, CleanupAssumption DEF Init, TypeOK, Objects, Object
<1>6. \A h \in Handler : Known(h) /\ Fresh(h)
  BY <1>2 DEF Known, Fresh, Uploading
<1>7. ImagesKept
  BY <1>2 DEF Init, ImagesKept
<1>8. NothingLiveQueued /\ FinalizedMeansRemoved
  BY <1>3 DEF NothingLiveQueued, FinalizedMeansRemoved
<1>9. SuccessMeansRemoved
  BY <1>1 DEF SuccessMeansRemoved
<1>10. LiveObjectsStayStored
  BY DEF Init, LiveObjectsStayStored
<1> QED
  BY <1>5, <1>6, <1>7, <1>8, <1>9, <1>10 DEF IInv

(* One step per action.                                                    *)
LEMMA Steps == IInv /\ [Next]_vars => IInv'
<1> SUFFICES ASSUME IInv, [Next]_vars PROVE IInv'
  OBVIOUS
<1>0. Sweeper \subseteq Handler /\ Admin \subseteq Handler
  BY DEF Handler
<1>1. CASE EditProduct \/ Sell \/ RequestDeletion
  BY <1>1, EditProductStep, SellStep, RequestDeletionStep
<1>2. ASSUME NEW a \in Artifact, RemoveArtifact(a) PROVE IInv'
  BY <1>2, RemoveArtifactStep
<1>3. ASSUME NEW h \in Sweeper, StartSweep(h) PROVE IInv'
  BY <1>0, <1>3, StartSweepStep
<1>4. ASSUME NEW h \in Admin,
             UploadImage(h) \/ StartRetry(h) \/ StartProcess(h) \/ StartDeletion(h)
      PROVE  IInv'
  BY <1>0, <1>4, UploadImageStep, StartRetryStep, StartProcessStep, StartDeletionStep
<1>5. ASSUME NEW h \in Handler, Work(h) PROVE IInv'
  BY <1>5, ReadImageStep, SwitchImageStep, UndoUploadStep, RecoverStep, ListReadyStep,
     RequestRetryStep, ClaimStep, ReadJobStep, CanDeleteStep, DeleteObjectStep,
     MarkSucceededStep, AuditedStep, MarkFailureStep, FinalizeStep DEF Work
<1>6. ASSUME NEW h \in Handler, Crash(h) \/ UploadFails(h) \/ QueueAbandoned(h)
                                \/ DeleteFails(h) \/ AuditFails(h)
      PROVE  IInv'
  BY <1>6, CrashStep, UploadFailsStep, QueueAbandonedStep, DeleteFailsStep, AuditFailsStep
<1>7. CASE Tick
  BY <1>7, TickStep
<1>8. CASE UNCHANGED vars
  <2>1. /\ UNCHANGED <<product, typed, removed, jobs, stored, frame>>
        /\ incidents' \in 0..MaxIncident /\ edits' \in 0..MaxEdit
    BY <1>8, Counters DEF vars
  <2>2. Same /\ (\A j \in Job : Advances(j))
    BY <2>1 DEF Same, Advances, Claimed, IInv, TypeOK
  <2>3. \A h \in Handler : Known(h)' /\ Holds(h)
    BY <2>1 DEF IInv, Known, Holds, Uploading, Queued, Claimed, Blocked
  <2>4. jobs' \in [Job -> Row] /\ frame' \in [Handler -> Frame]
    BY <2>1 DEF IInv, TypeOK
  <2> QED
    BY <2>1, <2>2, <2>3, <2>4, AllMove
<1> QED
  BY <1>1, <1>2, <1>3, <1>4, <1>5, <1>6, <1>7, <1>8 DEF Next

(* Every reachable state satisfies the inductive invariant.                *)
THEOREM Invariant == Spec => []IInv
BY InitIInv, Steps, PTL DEF Spec

(* Rows, bucket and calls stay within their types, and whatever was        *)
(* claimed has counted its attempt: a failure always finds its backoff.    *)
THEOREM TypesHold == Spec => []TypeOK
<1>1. IInv => TypeOK
  BY DEF IInv
<1> QED
  BY <1>1, Invariant, PTL

(* A job that reads SUCCEEDED has its object out of the bucket, although   *)
(* marks are written by id and several workers may hold the same job.      *)
THEOREM SuccessIsRemoval == Spec => []SuccessMeansRemoved
<1>1. IInv => SuccessMeansRemoved
  BY DEF IInv
<1> QED
  BY <1>1, Invariant, PTL

(* No sweep, retry, replacement or undone upload takes from the bucket     *)
(* what a product nobody asked to delete needs: its installers, and its    *)
(* image unless the key was typed in by hand.                              *)
THEOREM LiveObjectsAreKept == Spec => []LiveObjectsStayStored
<1>1. IInv => LiveObjectsStayStored
  BY DEF IInv
<1> QED
  BY <1>1, Invariant, PTL

(* A finalized product leaves no object behind that a job was queued for.  *)
THEOREM FinalizationIsRemoval == Spec => []FinalizedMeansRemoved
<1>1. IInv => FinalizedMeansRemoved
  BY DEF IInv
<1> QED
  BY <1>1, Invariant, PTL

-----------------------------------------------------------------------------
(* Only a purchase and a finalization decide whether a product is sold and *)
(* whether it is there.                                                    *)
Untouched == product'.sold = product.sold /\ product'.exists = product.exists

LEMMA SoldStep == IInv /\ SoldProductsSurvive /\ [Next]_vars => SoldProductsSurvive'
<1> SUFFICES ASSUME IInv, SoldProductsSurvive, [Next]_vars PROVE SoldProductsSurvive'
  OBVIOUS
<1>0. product \in Product
  BY DEF IInv, TypeOK
<1>1. CASE Untouched
  BY <1>1 DEF SoldProductsSurvive, Untouched
<1>2. CASE EditProduct \/ RequestDeletion
  BY <1>0, <1>1, <1>2 DEF EditProduct, RequestDeletion, Untouched, Product
<1>3. CASE Sell
  BY <1>0, <1>3 DEF Sell, SoldProductsSurvive, Product
<1>4. ASSUME NEW a \in Artifact, RemoveArtifact(a) PROVE Untouched
  BY <1>4 DEF RemoveArtifact, Untouched
<1>5. ASSUME NEW h \in Handler, StartSweep(h) \/ UploadImage(h) \/ StartRetry(h)
                                \/ StartProcess(h) \/ StartDeletion(h)
      PROVE  Untouched
  BY <1>5 DEF StartSweep, UploadImage, StartRetry, StartProcess, StartDeletion, Untouched
<1>6. ASSUME NEW h \in Handler, SwitchImage(h) PROVE Untouched
  BY <1>0, <1>6 DEF SwitchImage, Untouched, Product
<1>7. ASSUME NEW h \in Handler, finalizeProductDeletion(h) PROVE SoldProductsSurvive'
  BY <1>0, <1>7 DEF finalizeProductDeletion, Eligible, SoldProductsSurvive, Product
<1>8. ASSUME NEW h \in Handler, ReadImage(h) \/ UndoUpload(h) \/ recoverAbandoned(h)
                                \/ listReady(h) \/ requestRetry(h) \/ claim(h)
      PROVE  Untouched
  BY <1>8 DEF ReadImage, UndoUpload, recoverAbandoned, listReady, requestRetry, claim,
     Untouched
<1>9. ASSUME NEW h \in Handler, ReadJob(h) \/ canDelete(h) \/ deleteObject(h)
                                \/ markSucceeded(h) \/ Audited(h) \/ MarkFailure(h)
      PROVE  Untouched
  BY <1>9 DEF ReadJob, canDelete, deleteObject, markSucceeded, Audited, MarkFailure,
     Untouched
<1>10. ASSUME NEW h \in Handler, Crash(h) \/ UploadFails(h) \/ QueueAbandoned(h)
                                 \/ DeleteFails(h) \/ AuditFails(h)
      PROVE  Untouched
  BY <1>10 DEF Crash, UploadFails, QueueAbandoned, DeleteFails, AuditFails, Untouched
<1>11. CASE Tick \/ UNCHANGED vars
  BY <1>1, <1>11 DEF Tick, vars, Untouched
<1> QED
  BY <1>1, <1>2, <1>3, <1>4, <1>5, <1>6, <1>7, <1>8, <1>9, <1>10, <1>11
  DEF Next, Work, Handler

(* A product that was sold is kept, however its deletion, its restoration  *)
(* and its sale were interleaved.                                          *)
THEOREM SoldProductsAreKept == Spec => []SoldProductsSurvive
<1>1. Init => SoldProductsSurvive
  BY DEF Init, SoldProductsSurvive
<1> QED
  BY <1>1, SoldStep, Invariant, PTL DEF Spec

-----------------------------------------------------------------------------
(* StorageCleanup implements RetainedObjects.                              *)

(* Nothing an outsider can see changes.                                    *)
Still == UNCHANGED <<Phase, product.sold, Objects, stored, Condemned>>

(* No row comes or goes.                                                   *)
SameRows == \A j \in Job : jobs'[j].status = "NONE" <=> jobs[j].status = "NONE"

LEMMA StillShape ==
    ASSUME UNCHANGED <<product, typed, removed, stored>>, SameRows PROVE Still
<1>1. Queued' = Queued
  BY DEF Queued, SameRows
<1>2. Condemned' = Condemned
  BY <1>1 DEF Condemned
<1>3. Phase' = Phase /\ Objects' = Objects /\ product'.sold = product.sold
  BY DEF Phase, Objects
<1> QED
  BY <1>2, <1>3 DEF Still

(* What a queue adds is condemned.                                         *)
LEMMA QueueCondemns ==
    ASSUME IInv, NEW new \in SUBSET Job, Queue(new)
    PROVE  Condemned' = Condemned \cup {ObjectOf(j) : j \in new}
<1>1. Queued' = Queued \cup new
  BY QueueShape
<1> QED
  BY <1>1 DEF Condemned

LEMMA CondemnedIsQueued == \A x : x \in Condemned <=> \E j \in Queued : ObjectOf(j) = x
BY DEF Condemned

(* Every object of a job is an object.                                     *)
LEMMA ObjectsOfJobs == \A j \in Job : ObjectOf(j) \in Object
BY DEF Job, ObjectOf, Object

(* Marks, claims and recoveries of rows leave them there.                  *)
LEMMA MarksAreStill ==
    ASSUME IInv, NEW h \in Handler,
           requestRetry(h) \/ markSucceeded(h) \/ MarkFailure(h)
    PROVE  Still
<1>1. /\ UNCHANGED <<product, typed, removed, stored>>
      /\ frame[h].at \in {"retry", "succeed", "fail"}
  BY DEF requestRetry, markSucceeded, MarkFailure, At
<1>2. PICK j \in Job : j = frame[h].job /\ Claimed(j)
  BY <1>1 DEF IInv, Known
<1>3. \E due, status : status # "NONE" /\ Set(j, status, due)
  BY <1>2 DEF requestRetry, markSucceeded, MarkFailure
<1>4. PICK due, status : status # "NONE" /\ Set(j, status, due)
  BY <1>3
<1>5. jobs \in [Job -> Row] /\ jobs[j] \in Row
  BY DEF IInv, TypeOK
<1>6. jobs' = [jobs EXCEPT ![j] = [jobs[j] EXCEPT !.status = status, !.due = due, !.age = 0]]
  BY <1>4, <1>5 DEF Set
<1>7. jobs'[j].status = status /\ \A k \in Job : k # j => jobs'[k] = jobs[k]
  BY <1>5, <1>6 DEF Row
<1>8. SameRows
  BY <1>2, <1>4, <1>7 DEF SameRows, Claimed
<1> QED
  BY <1>1, <1>8, StillShape

LEMMA ClaimIsStill == ASSUME IInv, NEW h \in Handler, claim(h) PROVE Still
<1>1. UNCHANGED <<product, typed, removed, stored>> /\ jobs \in [Job -> Row]
      /\ frame[h].todo \in SUBSET Job
  BY DEF claim, IInv, TypeOK, Frame
<1>2. PICK j \in frame[h].todo :
         \/ UNCHANGED jobs
         \/ /\ Claimable(h, j)
            /\ jobs' = [jobs EXCEPT ![j] =
                  [status |-> "PROCESSING", due |-> 0, age |-> frame[h].lag,
                   attempts |-> IF @.attempts < MaxAttempts
                                  THEN @.attempts + 1 ELSE MaxAttempts]]
  BY DEF claim
<1>3. CASE UNCHANGED jobs
  BY <1>1, <1>3, StillShape DEF SameRows
<1>4. CASE ~UNCHANGED jobs
  <2>1. Waiting(j)
    BY <1>2, <1>4 DEF Claimable
  <2>2. jobs'[j].status = "PROCESSING" /\ \A k \in Job : k # j => jobs'[k] = jobs[k]
    BY <1>1, <1>2, <1>4
  <2>3. SameRows
    BY <1>1, <2>1, <2>2 DEF SameRows, Waiting
  <2> QED
    BY <1>1, <2>3, StillShape
<1> QED
  BY <1>3, <1>4

LEMMA RecoveryIsStill ==
    ASSUME IInv, NEW h \in Handler, recoverAbandoned(h) PROVE Still
<1>1. UNCHANGED <<product, typed, removed, stored>> /\ jobs \in [Job -> Row]
  BY DEF recoverAbandoned, IInv, TypeOK
<1>2. ASSUME NEW j \in Job
      PROVE  jobs'[j].status = "NONE" <=> jobs[j].status = "NONE"
  <2>1. \/ jobs'[j] = jobs[j]
        \/ /\ jobs[j].status = "PROCESSING"
           /\ jobs'[j] = [jobs[j] EXCEPT !.status = "RETRYING", !.age = 0,
                                         !.due = -frame[h].lag]
    BY DEF recoverAbandoned
  <2> QED
    BY <1>1, <2>1 DEF Row
<1> QED
  BY <1>1, <1>2, StillShape DEF SameRows

LEMMA TickIsStill == ASSUME IInv, Tick PROVE Still
<1>1. UNCHANGED <<product, typed, removed, stored>> /\ jobs \in [Job -> Row]
  BY DEF Tick, IInv, TypeOK
<1>2. ASSUME NEW j \in Job
      PROVE  jobs'[j].status = "NONE" <=> jobs[j].status = "NONE"
  <2>1. \/ jobs'[j] = jobs[j]
        \/ jobs'[j] = [jobs[j] EXCEPT !.due = jobs[j].due - 1]
        \/ jobs'[j] = [jobs[j] EXCEPT !.age = jobs[j].age + 1]
    BY DEF Tick
  <2> QED
    BY <1>1, <2>1 DEF Row
<1> QED
  BY <1>1, <1>2, StillShape DEF SameRows

(* Steps of a handler alone.                                               *)
LEMMA CallsAreStill == ASSUME UNCHANGED <<product, typed, removed, stored, jobs>> PROVE Still
BY StillShape DEF SameRows

(* Where the product is, as an outsider sees it.                           *)
LEMMA PhaseShape ==
    /\ Phase = "gone" <=> ~product.exists
    /\ Phase = "kept" <=> product.exists /\ ~product.requested
    /\ Phase = "leaving" <=> product.exists /\ product.requested
BY DEF Phase

(* Another image typed in: the one that was is forgotten.                  *)
LEMMA EditRefines ==
    ASSUME IInv, EditProduct PROVE \E O \in SUBSET Object : Retention!Forget(O)
<1>1. UNCHANGED <<removed, jobs, stored>> /\ product \in Product /\ product.exists
  BY DEF EditProduct, IInv, TypeOK
<1>2. /\ product'.exists = product.exists /\ product'.requested = product.requested
      /\ product'.sold = product.sold
      /\ typed \subseteq typed'
      /\ product'.image \in Image \ typed' => product'.image = product.image
  BY <1>1 DEF EditProduct, Product, Object
<1>3. Phase' = Phase /\ Condemned' = Condemned /\ Phase # "gone"
  BY <1>1, <1>2 DEF Phase, Condemned, Queued
<1>4. Objects' \subseteq Objects /\ Objects \subseteq Object
  BY <1>1, <1>2 DEF Objects, Object
<1>5. Objects' = Objects \ (Objects \ Objects')
  BY <1>4
<1>6. Retention!Forget(Objects \ Objects')
  BY <1>1, <1>2, <1>3, <1>5 DEF Retention!Forget
<1> QED
  BY <1>4, <1>6

LEMMA SellRefines == ASSUME IInv, Sell PROVE Retention!Sell
<1>1. UNCHANGED <<typed, removed, jobs, stored>> /\ product \in Product /\ product.exists
      /\ product' = [product EXCEPT !.sold = TRUE]
  BY DEF Sell, IInv, TypeOK
<1>2. /\ product'.exists = product.exists /\ product'.requested = product.requested
      /\ product'.sold = TRUE /\ product'.image = product.image
  BY <1>1 DEF Product
<1>3. Phase' = Phase /\ Objects' = Objects /\ Condemned' = Condemned /\ Phase # "gone"
  BY <1>1, <1>2 DEF Phase, Objects, Condemned, Queued
<1> QED
  BY <1>1, <1>2, <1>3 DEF Retention!Sell

LEMMA RequestRefines ==
    ASSUME IInv, RequestDeletion
    PROVE  \E O \in SUBSET Object : Retention!RequestDeletion(O)
<1> DEFINE O == (Object \cap {product.image}) \cup Artifact
           new == {"PRODUCT_DELETION"} \X O
<1>1. /\ product.exists /\ ~product.sold /\ Queue(new)
      /\ product' = [product EXCEPT !.requested = TRUE, !.active = FALSE]
      /\ UNCHANGED <<typed, removed, stored>> /\ product \in Product
  BY DEF RequestDeletion, Eligible, IInv, TypeOK
<1>2. /\ product'.exists /\ product'.requested
      /\ product'.sold = product.sold /\ product'.image = product.image
  BY <1>1 DEF Product
<1>3. new \in SUBSET Job /\ O \in SUBSET Object
  BY JobObjects DEF Object
<1>4. {ObjectOf(j) : j \in new} = O
  <2>1. \A x \in O : ObjectOf(<<"PRODUCT_DELETION", x>>) = x
                     /\ <<"PRODUCT_DELETION", x>> \in new
    BY DEF ObjectOf
  <2>2. \A j \in new : ObjectOf(j) \in O
    BY JobObjects
  <2> QED
    BY <2>1, <2>2
<1>5. Objects \subseteq O /\ Objects' = Objects
  BY <1>1, <1>2 DEF Objects, Object
<1> HIDE DEF new, O
<1>6. Condemned' = Condemned \cup O
  BY <1>1, <1>3, <1>4, QueueCondemns
<1>7. Phase # "gone" /\ Phase' = "leaving"
  BY <1>1, <1>2 DEF Phase
<1>8. Retention!RequestDeletion(O)
  BY <1>1, <1>2, <1>5, <1>6, <1>7 DEF Retention!RequestDeletion
<1> QED
  BY <1>3, <1>8

LEMMA RemoveRefines ==
    ASSUME IInv, NEW a \in Artifact, RemoveArtifact(a) PROVE Retention!Drop(a)
<1> DEFINE new == {<<"ARTIFACT_REMOVAL", a>>}
<1>1. /\ product.exists /\ Queue(new) /\ removed' = removed \cup {a}
      /\ UNCHANGED <<product, typed, stored>>
  BY DEF RemoveArtifact
<1>2. new \in SUBSET Job /\ {ObjectOf(j) : j \in new} = {a}
  BY JobObjects DEF ObjectOf
<1>3. Objects' = Objects \ {a}
  BY <1>1, CleanupAssumption DEF Objects
<1>4. Phase' = Phase /\ Phase # "gone"
  BY <1>1 DEF Phase
<1> HIDE DEF new
<1>5. Condemned' = Condemned \cup {a}
  BY <1>1, <1>2, QueueCondemns
<1> QED
  BY <1>1, <1>3, <1>4, <1>5 DEF Retention!Drop

LEMMA UploadRefines ==
    ASSUME IInv, NEW h \in Handler, UploadImage(h)
    PROVE  \E o \in Object : Retention!Put(o)
<1>1. PICK i \in Image : Unused(i) /\ stored' = stored \cup {i}
  BY DEF UploadImage
<1>2. UNCHANGED <<product, typed, removed, jobs>>
  BY DEF UploadImage
<1>3. Phase' = Phase /\ Objects' = Objects /\ Condemned' = Condemned
  BY <1>2 DEF Phase, Objects, Condemned, Queued
<1>4. i \notin stored \cup Objects \cup Condemned
  BY <1>1, CleanupAssumption DEF Unused, Objects, Condemned
<1>5. Retention!Put(i)
  BY <1>1, <1>2, <1>3, <1>4 DEF Retention!Put
<1> QED
  BY <1>5 DEF Object

LEMMA SwitchRefines ==
    ASSUME IInv, NEW h \in Handler, SwitchImage(h)
    PROVE  \/ Still
           \/ \E New, Old, Seen \in SUBSET Object : Retention!Replace(New, Old, Seen)
<1>1. frame[h].at = "switch" /\ UNCHANGED <<typed, removed, stored>> /\ product \in Product
  BY DEF SwitchImage, At, IInv, TypeOK
<1>2. CASE ~product.exists
  BY <1>1, <1>2, CallsAreStill DEF SwitchImage
<1>3. CASE product.exists
  <2> DEFINE Seen == Object \cap {frame[h].seen}
             Old == Image \cap {product.image}
             new == {"ARTIFACT_REPLACEMENT"} \X Seen
             i == Upload(h)
             New == {i} \ typed
  <2>1. product' = [product EXCEPT !.image = i] /\ Queue(new)
    BY <1>3 DEF SwitchImage, Upload
  <2>2. /\ i \in Image
        /\ i \notin typed => /\ i \in stored /\ frame[h].seen # i /\ i # product.image
                             /\ \A j \in Queued : ObjectOf(j) # i
    BY <1>1 DEF IInv, Uploading, Fresh, Private, Upload, ObjectOf
  <2>3. /\ product'.image = i /\ product'.exists = product.exists
        /\ product'.requested = product.requested /\ product'.sold = product.sold
    BY <1>1, <2>1, <2>2 DEF Product
  <2>4. new \in SUBSET Job /\ {ObjectOf(j) : j \in new} = Seen
    <3>1. new \in SUBSET Job /\ \A j \in new : ObjectOf(j) \in Seen
      BY JobObjects
    <3>2. \A x \in Seen : ObjectOf(<<"ARTIFACT_REPLACEMENT", x>>) = x
                          /\ <<"ARTIFACT_REPLACEMENT", x>> \in new
      BY DEF ObjectOf
    <3> QED
      BY <3>1, <3>2
  <2>5. Objects' = (Objects \ Old) \cup New
    BY <1>1, <2>2, <2>3, CleanupAssumption DEF Objects
  <2>6. New \subseteq stored \ (Objects \cup Condemned \cup Seen)
    BY <2>2, CleanupAssumption DEF Objects, Condemned
  <2>7. Phase' = Phase /\ Phase # "gone"
    BY <1>3, <2>3 DEF Phase
  <2>8. New \in SUBSET Object /\ Old \in SUBSET Object /\ Seen \in SUBSET Object
    BY <2>2 DEF Object
  <2> HIDE DEF new, Seen, Old, New, i
  <2>9. Condemned' = Condemned \cup Seen
    BY <2>1, <2>4, QueueCondemns
  <2>10. Retention!Replace(New, Old, Seen)
    BY <1>1, <2>3, <2>5, <2>6, <2>7, <2>9 DEF Retention!Replace
  <2> QED
    BY <2>8, <2>10
<1> QED
  BY <1>2, <1>3

LEMMA AbandonRefines ==
    ASSUME IInv, NEW h \in Handler, QueueAbandoned(h)
    PROVE  Still \/ \E o \in Object : Retention!Drop(o)
<1> DEFINE i == Upload(h)
<1>1. /\ frame[h].at = "undo" /\ UNCHANGED <<product, typed, removed, stored>>
      /\ Queue(IF product.exists THEN {frame[h].job} ELSE {})
  BY DEF QueueAbandoned, At
<1>2. /\ frame[h].job \in Job /\ i \in Image /\ (i \notin typed => i # product.image)
  BY <1>1 DEF IInv, Uploading, Fresh, Private, Upload, ObjectOf, Job
<1>3. Phase' = Phase /\ Objects' = Objects
  BY <1>1 DEF Phase, Objects
<1>4. CASE ~product.exists
  <2>1. Queue({}) /\ {} \in SUBSET Job
    BY <1>1, <1>4
  <2>2. Condemned' = Condemned
    BY <2>1, QueueCondemns
  <2> QED
    BY <1>1, <1>3, <2>2 DEF Still
<1>5. CASE product.exists
  <2>1. Queue({frame[h].job}) /\ {frame[h].job} \in SUBSET Job
    BY <1>1, <1>2, <1>5
  <2>2. Condemned' = Condemned \cup {i}
    BY <2>1, QueueCondemns DEF Upload
  <2>3. i \notin Objects /\ i \in Object
    BY <1>2, CleanupAssumption DEF Objects, Object
  <2>4. Phase # "gone"
    BY <1>5 DEF Phase
  <2> HIDE DEF i
  <2>5. Retention!Drop(i)
    BY <1>1, <1>3, <2>2, <2>3, <2>4 DEF Retention!Drop
  <2> QED
    BY <2>3, <2>5
<1> QED
  BY <1>4, <1>5

(* What leaves the bucket is not in use, or was condemned and its product  *)
(* is on its way out.                                                      *)
LEMMA EraseRefines ==
    ASSUME IInv, UNCHANGED <<product, typed, removed, jobs>>, NEW x \in Object,
           stored' \in {stored, stored \ {x}},
           x \in Objects => Phase # "kept" /\ x \in Condemned
    PROVE  Still \/ Retention!Erase(x)
<1>1. CASE stored' = stored
  BY <1>1, CallsAreStill
<1>2. CASE stored' # stored
  <2>1. x \in stored /\ stored' = stored \ {x}
    BY <1>2
  <2>2. Phase' = Phase /\ Objects' = Objects /\ Condemned' = Condemned
    BY DEF Phase, Objects, Condemned, Queued
  <2> QED
    BY <2>1, <2>2 DEF Retention!Erase
<1> QED
  BY <1>1, <1>2

LEMMA DeletionRefines ==
    ASSUME IInv, NEW h \in Handler, deleteObject(h) \/ DeleteFails(h) \/ UndoUpload(h)
    PROVE  Still \/ \E o \in Object : Retention!Erase(o)
<1> DEFINE x == ObjectOf(frame[h].job)
<1>1. UNCHANGED <<product, typed, removed, jobs>> /\ stored' \in {stored, stored \ {x}}
  BY DEF deleteObject, DeleteFails, UndoUpload
<1>2. x \in Object /\ (x \in Objects => Phase # "kept" /\ x \in Condemned)
  <2>1. CASE deleteObject(h) \/ DeleteFails(h)
    <3>1. frame[h].at = "delete"
      BY <2>1 DEF deleteObject, DeleteFails, At
    <3>2. frame[h].job \in Job /\ frame[h].job \in Queued
      BY <3>1 DEF IInv, Known, Claimed, Queued
    <3> QED
      BY <3>1, <3>2, ObjectsOfJobs, CondemnedIsQueued, Spared, PhaseShape
  <2>2. CASE UndoUpload(h)
    <3>1. x \in Image /\ (x \notin typed => x # product.image)
      BY <2>2 DEF UndoUpload, At, IInv, Fresh, Private, Uploading, Upload, ObjectOf
    <3> QED
      BY <3>1, CleanupAssumption DEF Object, Objects
  <2> QED
    BY <2>1, <2>2
<1> QED
  BY <1>1, <1>2, EraseRefines

LEMMA FinalizationRefines ==
    ASSUME IInv, NEW h \in Handler, finalizeProductDeletion(h)
    PROVE  Still \/ Retention!Finish
<1>1. UNCHANGED <<typed, removed, jobs, stored>> /\ product \in Product
  BY DEF finalizeProductDeletion, IInv, TypeOK
<1>2. CASE UNCHANGED product
  BY <1>1, <1>2, CallsAreStill
<1>3. CASE ~UNCHANGED product
  <2>1. /\ product.exists /\ ~product.sold /\ product.requested /\ AllSucceeded
        /\ product' = [product EXCEPT !.exists = FALSE]
    BY <1>3 DEF finalizeProductDeletion, Eligible
  <2>2. /\ ~product'.exists /\ product'.sold = product.sold
        /\ product'.image = product.image
    BY <1>1, <2>1 DEF Product
  <2>3. Phase = "leaving" /\ Phase' = "gone"
    BY <2>1, <2>2 DEF Phase
  <2>4. Objects' = Objects /\ Condemned' = Condemned
    BY <1>1, <2>2 DEF Objects, Condemned, Queued
  <2>5. Condemned \cap stored = {}
    BY <2>1, CondemnedIsQueued DEF AllSucceeded, IInv, SuccessMeansRemoved, Queued
  <2> QED
    BY <1>1, <2>1, <2>2, <2>3, <2>4, <2>5 DEF Retention!Finish
<1> QED
  BY <1>2, <1>3

(* Every step is a step of RetainedObjects, or one it does not see.        *)
LEMMA StepRefines == ASSUME IInv, [Next]_vars PROVE Retention!Next \/ Still
<1>0. Sweeper \subseteq Handler /\ Admin \subseteq Handler /\ Artifact \subseteq Object
  BY DEF Handler, Object
<1>1. CASE EditProduct \/ Sell \/ RequestDeletion
  BY <1>1, EditRefines, SellRefines, RequestRefines DEF Retention!Next
<1>2. ASSUME NEW a \in Artifact, RemoveArtifact(a) PROVE Retention!Next
  BY <1>0, <1>2, RemoveRefines DEF Retention!Next
<1>3. ASSUME NEW h \in Sweeper, StartSweep(h) PROVE Still
  BY <1>3, CallsAreStill DEF StartSweep
<1>4. ASSUME NEW h \in Admin, UploadImage(h) PROVE Retention!Next
  BY <1>0, <1>4, UploadRefines DEF Retention!Next
<1>5. ASSUME NEW h \in Admin, StartRetry(h) \/ StartProcess(h) \/ StartDeletion(h)
      PROVE  Still
  BY <1>5, CallsAreStill DEF StartRetry, StartProcess, StartDeletion
<1>6. ASSUME NEW h \in Handler,
             requestRetry(h) \/ markSucceeded(h) \/ MarkFailure(h) \/ claim(h)
                \/ recoverAbandoned(h)
      PROVE  Still
  BY <1>6, MarksAreStill, ClaimIsStill, RecoveryIsStill
<1>7. ASSUME NEW h \in Handler,
             ReadImage(h) \/ listReady(h) \/ ReadJob(h) \/ canDelete(h) \/ Audited(h)
                \/ Crash(h) \/ UploadFails(h) \/ AuditFails(h)
      PROVE  Still
  BY <1>7, CallsAreStill
  DEF ReadImage, listReady, ReadJob, canDelete, Audited, Crash, UploadFails, AuditFails
<1>8. ASSUME NEW h \in Handler, SwitchImage(h) PROVE Retention!Next \/ Still
  BY <1>8, SwitchRefines DEF Retention!Next
<1>9. ASSUME NEW h \in Handler, QueueAbandoned(h) PROVE Retention!Next \/ Still
  BY <1>9, AbandonRefines DEF Retention!Next
<1>10. ASSUME NEW h \in Handler, deleteObject(h) \/ DeleteFails(h) \/ UndoUpload(h)
       PROVE  Retention!Next \/ Still
  BY <1>10, DeletionRefines DEF Retention!Next
<1>11. ASSUME NEW h \in Handler, finalizeProductDeletion(h) PROVE Retention!Next \/ Still
  BY <1>11, FinalizationRefines DEF Retention!Next
<1>12. CASE Tick
  BY <1>12, TickIsStill
<1>13. CASE UNCHANGED vars
  BY <1>13, CallsAreStill DEF vars
<1>14. ASSUME NEW h \in Handler, Work(h) PROVE Retention!Next \/ Still
  BY <1>6, <1>7, <1>8, <1>10, <1>11, <1>14 DEF Work
<1> QED
  BY <1>1, <1>2, <1>3, <1>4, <1>5, <1>7, <1>9, <1>10, <1>12, <1>13, <1>14 DEF Next

(* However workers, sweeps, retries and crashes interleave, what becomes   *)
(* of the objects and of the product is what RetainedObjects promises.     *)
THEOREM RetentionImplemented == Spec => ImplementsRetention
<1>1. Init => Retention!Init
  <2> SUFFICES ASSUME Init PROVE Retention!Init
    OBVIOUS
  <2>1. jobs = [j \in Job |-> NoRow] /\ NoRow.status = "NONE"
    BY DEF Init, NoRow
  <2>2. Condemned = {}
    BY <2>1 DEF Condemned, Queued
  <2>3. product.exists /\ ~product.requested /\ product.sold = FALSE /\ stored = Objects
    BY DEF Init
  <2>4. Phase = "kept" /\ Objects \subseteq Object
    BY <2>3 DEF Phase, Objects, Object
  <2> QED
    BY <2>2, <2>3, <2>4 DEF Retention!Init
<1>2. IInv /\ [Next]_vars => [Retention!Next]_(Retention!vars)
  BY StepRefines DEF Still, Retention!vars
<1> QED
  BY <1>1, <1>2, Invariant, PTL DEF Spec, ImplementsRetention, Retention!Spec
=============================================================================
