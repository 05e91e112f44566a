--------------------------- MODULE StorageCleanup ---------------------------
(***************************************************************************)
(* Deletion of private objects and of products:                            *)
(* platform/storage-cleanup with its store of apps/web/storage/cleanup.ts, *)
(* the product deletion of apps/web/catalog/product-deletion.ts, the       *)
(* storage.lifecycle job and the admin routes that queue, retry and        *)
(* process cleanup jobs or change the product under them.                  *)
(*                                                                         *)
(* A sweeper runs storage.lifecycle, an admin runs one route at a time.    *)
(* Every database or storage call of process() is a step of its own, and   *)
(* only the claim is conditional: the marks are written by id alone.       *)
(*                                                                         *)
(* Time is relative.  due is how far a row's nextAttemptAt lies ahead,     *)
(* age how long ago its startedAt was, lag how long ago a sweep read the   *)
(* clock: processReady passes the `now' it read to every job of the batch. *)
(***************************************************************************)
EXTENDS Integers

CONSTANTS
    Sweeper,      \* executions of the storage.lifecycle job
    Admin,        \* requests of administrators
    Image,        \* object keys of product images
    Artifact,     \* object keys of installers
    FirstImage,   \* the imageKey typed in when the product was created, or None
    Timeout,      \* STORAGE_CLEANUP_PROCESSING_TIMEOUT_MS
    MaxAttempts,  \* STORAGE_CLEANUP_MAX_ATTEMPTS
    Backoff,      \* delay after each failed attempt but the last
    MaxLag,       \* bound: where due, age and lag stop counting
    Incidents,    \* which incidents happen in this instance
    MaxIncident,  \* bound: how many of them happen
    MaxEdit       \* bound: what administrators edit, upload, remove, retry

None == "none"

(* A call to storage, to the database or to the audit log that throws, a   *)
(* process that dies.                                                      *)
IncidentKind == {"storage", "database", "audit", "crash"}

ASSUME CleanupAssumption ==
    /\ Sweeper \cap Admin = {}
    /\ Image \cap Artifact = {}
    /\ FirstImage \in Image \cup Artifact \cup {None}
    /\ Timeout \in Nat
    /\ MaxAttempts \in Nat \ {0}
    /\ Backoff \in [1..(MaxAttempts - 1) -> Nat]
    /\ MaxLag \in Nat /\ MaxLag > Timeout
    /\ Incidents \subseteq IncidentKind
    /\ MaxIncident \in Nat
    /\ MaxEdit \in Nat

VARIABLES
    product,   \* the Product row
    typed,     \* history: the Image keys an administrator has typed in
    removed,   \* artifacts with removedAt set
    jobs,      \* StorageCleanupJob rows, by their idempotency key
    stored,    \* objects in the bucket
    frame,     \* where each handler is
    incidents, \* history: incidents so far
    edits      \* history: edits, uploads, removals, retries so far

vars == <<product, typed, removed, jobs, stored, frame, incidents, edits>>

Handler == Sweeper \cup Admin
Object == Image \cup Artifact

(* The idempotency key of a job hashes its type, its target and the key of *)
(* its object.                                                             *)
Job == ({"PRODUCT_DELETION", "ARTIFACT_REPLACEMENT"} \X Object)
  \cup ({"ABANDONED_UPLOAD"} \X Image)
  \cup ({"ARTIFACT_REMOVAL"} \X Artifact)
ObjectOf(j) == j[2]
NoJob == <<"NONE", None>>

Product == [exists : BOOLEAN, active : BOOLEAN, archived : BOOLEAN,
            requested : BOOLEAN, sold : BOOLEAN, image : Object \cup {None}]

Status == {"NONE", "PENDING", "PROCESSING", "RETRYING", "SUCCEEDED", "FAILED"}
MaxAge == Timeout + MaxLag + 1

(* due is kept for rows that wait, age for rows in process, 0 otherwise;   *)
(* attempts stops at MaxAttempts, the only value it is compared with.      *)
Row == [status : Status, attempts : 0..MaxAttempts, due : Int, age : 0..MaxAge]
NoRow == [status |-> "NONE", attempts |-> 0, due |-> 0, age |-> 0]

Idle == [at |-> "idle", todo |-> {}, job |-> NoJob, tries |-> 0, lag |-> 0,
         final |-> FALSE, seen |-> None]
Frame == [at : {"idle", "recover", "list", "claim", "read", "check", "delete",
                "succeed", "audit", "fail", "finalize", "retry",
                "swap", "switch", "undo"},
          todo : SUBSET Job, job : Job \cup {NoJob}, tries : 0..MaxAttempts,
          lag : 0..MaxLag, final : BOOLEAN, seen : Object \cup {None}]

-----------------------------------------------------------------------------
(* The objects in use: the image, unless its key was typed in by hand and  *)
(* nothing vouches for it, and the installers that are not removed.        *)
Objects == ((Image \cap {product.image}) \ typed) \cup (Artifact \ removed)

Init ==
    /\ product = [exists |-> TRUE, active |-> FALSE, archived |-> TRUE,
                  requested |-> FALSE, sold |-> FALSE, image |-> FirstImage]
    /\ typed = Image \cap {FirstImage}
    /\ removed = {}
    /\ jobs = [j \in Job |-> NoRow]
    /\ stored = Objects
    /\ frame = [h \in Handler |-> Idle]
    /\ incidents = 0
    /\ edits = 0

At(h, at) == frame[h].at = at
Goto(h, at) == frame' = [frame EXCEPT ![h].at = at]
Return(h) == frame' = [frame EXCEPT ![h] = Idle]

Incident(kind) ==
    /\ kind \in Incidents
    /\ incidents < MaxIncident
    /\ incidents' = incidents + 1

Edit == edits < MaxEdit /\ edits' = edits + 1

Waiting(j) == jobs[j].status \in {"PENDING", "RETRYING"}
Queued == {j \in Job : jobs[j].status # "NONE"}

Set(j, status, due) ==
    jobs' = [jobs EXCEPT ![j].status = status, ![j].due = due, ![j].age = 0]

(* Queue inserts the rows that are not there yet: ON CONFLICT DO NOTHING.  *)
Queue(new) ==
    jobs' = [j \in Job |-> IF j \in new \ Queued
                             THEN [NoRow EXCEPT !.status = "PENDING"]
                             ELSE jobs[j]]

(* Eligible is @bke/catalog's policy on a product: archived and without    *)
(* any commercial history.                                                 *)
Eligible == product.exists /\ product.archived /\ ~product.sold
(* Mutant: only waiting jobs count as unfinished.                          *)
NoneWaiting == \A j \in Queued : ~Waiting(j)
AllSucceeded == \A j \in Queued : jobs[j].status = "SUCCEEDED"

-----------------------------------------------------------------------------
(* The product and its objects.                                            *)

(* The catalogue's PATCH looks at neither deletionRequestedAt nor the jobs.*)
(* It writes any imageKey it is given: the key of an object that is there, *)
(* that was never there or that a job is about to delete, an installer's,  *)
(* or null; and it queues nothing for the image it leaves.                 *)
EditProduct ==
    /\ product.exists
    /\ Edit
    /\ \E i \in Object \cup {None},
          p \in {product,
                [product EXCEPT !.active = TRUE, !.archived = FALSE],
                [product EXCEPT !.active = FALSE],
                [product EXCEPT !.active = FALSE, !.archived = TRUE],
                [product EXCEPT !.archived = FALSE]} :
          /\ product' = [p EXCEPT !.image = i]
          /\ typed' = IF i = product.image THEN typed ELSE typed \cup (Image \cap {i})
    /\ UNCHANGED <<removed, jobs, stored, frame, incidents>>

(* A customer buys the product: what the checkout needs of it.             *)
Sell ==
    /\ product.exists /\ product.active /\ ~product.archived
    /\ product' = [product EXCEPT !.sold = TRUE]
    /\ UNCHANGED <<typed, removed, jobs, stored, frame, incidents, edits>>

RequestDeletion ==
    /\ Eligible
    /\ product' = [product EXCEPT !.requested = TRUE, !.active = FALSE]
    /\ Queue({"PRODUCT_DELETION"} \X ((Object \cap {product.image}) \cup Artifact))
    /\ UNCHANGED <<typed, removed, stored, frame, incidents, edits>>

RemoveArtifact(a) ==
    /\ product.exists
    /\ Edit
    /\ removed' = removed \cup {a}
    /\ Queue({<<"ARTIFACT_REMOVAL", a>>})
    /\ UNCHANGED <<product, typed, stored, frame, incidents>>

(* A new image gets a random key, then the transaction that reads the      *)
(* current key and switches to the new one; when it fails the upload is    *)
(* undone at once or, if storage fails, by a job.                          *)
Unused(i) ==
    /\ i \notin stored \cup typed \cup {product.image}
    /\ \A j \in Queued : ObjectOf(j) # i
    /\ \A h \in Handler : frame[h].job # <<"ABANDONED_UPLOAD", i>>

UploadImage(h) ==
    /\ At(h, "idle")
    /\ Edit
    /\ \E i \in Image :
          /\ Unused(i)
          /\ stored' = stored \cup {i}
          /\ frame' = [frame EXCEPT ![h].at = "swap",
                                    ![h].job = <<"ABANDONED_UPLOAD", i>>]
    /\ UNCHANGED <<product, typed, removed, jobs, incidents>>

ReadImage(h) ==
    /\ At(h, "swap")
    /\ IF product.exists
         THEN frame' = [frame EXCEPT ![h].at = "switch",
                                     ![h].seen = product.image]
         ELSE Goto(h, "undo")
    /\ UNCHANGED <<product, typed, removed, jobs, stored, incidents, edits>>

(* Mutant: the new object is queued instead of the replaced one.           *)
SwitchImageQueuesNew(h) ==
    /\ At(h, "switch")
    /\ product.exists
    /\ product' = [product EXCEPT !.image = ObjectOf(frame[h].job)]
    /\ Queue({<<"ARTIFACT_REPLACEMENT", ObjectOf(frame[h].job)>>})
    /\ Return(h)
    /\ UNCHANGED <<typed, removed, stored, incidents, edits>>

SwitchImage(h) ==
    /\ At(h, "switch")
    /\ IF product.exists
         THEN /\ product' = [product EXCEPT !.image = ObjectOf(frame[h].job)]
              /\ Queue({"ARTIFACT_REPLACEMENT"} \X (Object \cap {frame[h].seen}))
              /\ Return(h)
         ELSE /\ Goto(h, "undo")
              /\ UNCHANGED <<product, jobs>>
    /\ UNCHANGED <<typed, removed, stored, incidents, edits>>

(* Either call of the transaction throws.                                  *)
UploadFails(h) ==
    /\ At(h, "swap") \/ At(h, "switch")
    /\ Incident("database")
    /\ Goto(h, "undo")
    /\ UNCHANGED <<product, typed, removed, jobs, stored, edits>>

UndoUpload(h) ==
    /\ At(h, "undo")
    /\ stored' = stored \ {ObjectOf(frame[h].job)}
    /\ Return(h)
    /\ UNCHANGED <<product, typed, removed, jobs, incidents, edits>>

(* A row of a product that is gone breaks a foreign key: nothing is queued.*)
QueueAbandoned(h) ==
    /\ At(h, "undo")
    /\ Incident("storage")
    /\ Queue(IF product.exists THEN {frame[h].job} ELSE {})
    /\ Return(h)
    /\ UNCHANGED <<product, typed, removed, stored, edits>>

-----------------------------------------------------------------------------
(* storageLifecycle and the admin routes: what starts the work.            *)

(* Mutant: the sweep only processes jobs.                                  *)
StartSweepOnly(h) ==
    /\ At(h, "idle")
    /\ Goto(h, "recover")
    /\ UNCHANGED <<product, typed, removed, jobs, stored, incidents, edits>>

StartSweep(h) ==
    /\ At(h, "idle")
    /\ frame' = [frame EXCEPT ![h].at = "recover",
                              ![h].final = product.requested /\ AllSucceeded]
    /\ UNCHANGED <<product, typed, removed, jobs, stored, incidents, edits>>

recoverAbandoned(h) ==
    /\ At(h, "recover")
    /\ jobs' = [j \in Job |->
          IF /\ jobs[j].status = "PROCESSING"
             /\ jobs[j].age > Timeout + frame[h].lag
            THEN [jobs[j] EXCEPT !.status = "RETRYING", !.age = 0,
                                 !.due = -frame[h].lag]
            ELSE jobs[j]]
    /\ Goto(h, "list")
    /\ UNCHANGED <<product, typed, removed, stored, incidents, edits>>

(* A handler goes on with the jobs of its list, then with finalization.    *)
GoOn(f, todo) ==
    IF todo # {} THEN [f EXCEPT !.at = "claim", !.todo = todo, !.job = NoJob,
                                !.tries = 0]
    ELSE IF f.final THEN [Idle EXCEPT !.at = "finalize"]
    ELSE Idle

listReady(h) ==
    /\ At(h, "list")
    /\ frame' = [frame EXCEPT ![h] =
          GoOn(@, {j \in Job : Waiting(j) /\ jobs[j].due <= -@.lag})]
    /\ UNCHANGED <<product, typed, removed, jobs, stored, incidents, edits>>

(* PATCH of a cleanup job: RETRY reads the status first, requests the      *)
(* retry whatever the row has become, then processes the job.              *)
StartRetry(h) ==
    /\ At(h, "idle")
    /\ Edit
    /\ \E j \in Job :
          /\ jobs[j].status \in {"FAILED", "RETRYING"}
          /\ frame' = [frame EXCEPT ![h].at = "retry", ![h].job = j]
    /\ UNCHANGED <<product, typed, removed, jobs, stored, incidents>>

requestRetry(h) ==
    /\ At(h, "retry")
    /\ Set(frame[h].job, "RETRYING", 0)
    /\ frame' = [frame EXCEPT ![h] = GoOn(@, {@.job})]
    /\ UNCHANGED <<product, typed, removed, stored, incidents, edits>>

StartProcess(h) ==
    /\ At(h, "idle")
    /\ \E j \in Queued : frame' = [frame EXCEPT ![h] = GoOn(@, {j})]
    /\ UNCHANGED <<product, typed, removed, jobs, stored, incidents, edits>>

(* PATCH of a product's deletion: its waiting jobs, then finalization.     *)
StartDeletion(h) ==
    /\ At(h, "idle")
    /\ product.exists
    /\ frame' = [frame EXCEPT ![h] =
          GoOn([@ EXCEPT !.final = TRUE], {j \in Job : Waiting(j)})]
    /\ UNCHANGED <<product, typed, removed, jobs, stored, incidents, edits>>

-----------------------------------------------------------------------------
(* process(): one call a step.                                             *)

Claimable(h, j) == Waiting(j) /\ jobs[j].due <= -frame[h].lag

(* Mutant: the attempt is not counted.                                     *)
claimUncounted(h) ==
    /\ At(h, "claim")
    /\ \E j \in frame[h].todo :
          /\ Claimable(h, j)
          /\ jobs' = [jobs EXCEPT ![j].status = "PROCESSING", ![j].due = 0]
          /\ frame' = [frame EXCEPT ![h].at = "read", ![h].job = j]
    /\ UNCHANGED <<product, typed, removed, stored, incidents, edits>>

claim(h) ==
    /\ At(h, "claim")
    /\ \E j \in frame[h].todo :
          LET rest == frame[h].todo \ {j} IN
          IF Claimable(h, j)
            THEN /\ jobs' = [jobs EXCEPT ![j] =
                       [status |-> "PROCESSING", due |-> 0,
                        age |-> frame[h].lag,
                        attempts |-> IF @.attempts < MaxAttempts
                                       THEN @.attempts + 1 ELSE MaxAttempts]]
                 /\ frame' = [frame EXCEPT
                       ![h].at = "read", ![h].todo = rest, ![h].job = j,
                       ![h].lag = IF rest = {} THEN 0 ELSE @]
            ELSE /\ frame' = [frame EXCEPT ![h] = GoOn(@, rest)]
                 /\ UNCHANGED jobs
    /\ UNCHANGED <<product, typed, removed, stored, incidents, edits>>

ReadJob(h) ==
    /\ At(h, "read")
    /\ frame' = [frame EXCEPT ![h].at = "check",
                              ![h].tries = jobs[frame[h].job].attempts]
    /\ UNCHANGED <<product, typed, removed, jobs, stored, incidents, edits>>

Blocked(j) ==
    /\ j[1] \in {"ARTIFACT_REPLACEMENT", "ARTIFACT_REMOVAL"}
    /\ product.exists
    /\ ObjectOf(j) \in Artifact \ removed

canDelete(h) ==
    /\ At(h, "check")
    /\ Goto(h, IF Blocked(frame[h].job) THEN "fail" ELSE "delete")
    /\ UNCHANGED <<product, typed, removed, jobs, stored, incidents, edits>>

deleteObject(h) ==
    /\ At(h, "delete")
    /\ stored' = stored \ {ObjectOf(frame[h].job)}
    /\ Goto(h, "succeed")
    /\ UNCHANGED <<product, typed, removed, jobs, incidents, edits>>

(* Mutant: a storage error is swallowed.                                   *)
DeleteErrorIgnored(h) ==
    /\ At(h, "delete")
    /\ Incident("storage")
    /\ Goto(h, "succeed")
    /\ UNCHANGED <<product, typed, removed, jobs, stored, edits>>

(* A storage call that throws may have deleted the object or not.          *)
DeleteFails(h) ==
    /\ At(h, "delete")
    /\ Incident("storage")
    /\ stored' \in {stored, stored \ {ObjectOf(frame[h].job)}}
    /\ Goto(h, "fail")
    /\ UNCHANGED <<product, typed, removed, jobs, edits>>

markSucceeded(h) ==
    /\ At(h, "succeed")
    /\ Set(frame[h].job, "SUCCEEDED", 0)
    /\ Goto(h, "audit")
    /\ UNCHANGED <<product, typed, removed, stored, incidents, edits>>

Audited(h) ==
    /\ At(h, "audit")
    /\ frame' = [frame EXCEPT ![h] = GoOn(@, @.todo)]
    /\ UNCHANGED <<product, typed, removed, jobs, stored, incidents, edits>>

(* The event of a success is emitted inside the same try.                  *)
AuditFails(h) ==
    /\ At(h, "audit")
    /\ Incident("audit")
    /\ Goto(h, "fail")
    /\ UNCHANGED <<product, typed, removed, jobs, stored, edits>>

MarkFailure(h) ==
    /\ At(h, "fail")
    /\ LET f == frame[h] IN
       /\ IF f.tries >= MaxAttempts
            THEN Set(f.job, "FAILED", 0)
            ELSE Set(f.job, "RETRYING", Backoff[f.tries])
       /\ frame' = [frame EXCEPT ![h] = GoOn(f, f.todo)]
    /\ UNCHANGED <<product, typed, removed, stored, incidents, edits>>

(* Mutant: eligibility is not checked again.                               *)
FinalizeUnchecked(h) ==
    /\ At(h, "finalize")
    /\ IF product.requested /\ AllSucceeded
         THEN product' = [product EXCEPT !.exists = FALSE]
         ELSE UNCHANGED product
    /\ Return(h)
    /\ UNCHANGED <<typed, removed, jobs, stored, incidents, edits>>

finalizeProductDeletion(h) ==
    /\ At(h, "finalize")
    /\ IF Eligible /\ product.requested /\ AllSucceeded
         THEN product' = [product EXCEPT !.exists = FALSE]
         ELSE UNCHANGED product
    /\ Return(h)
    /\ UNCHANGED <<typed, removed, jobs, stored, incidents, edits>>

(* The process dies, or a call outside the try throws and ends its batch.  *)
Crash(h) ==
    /\ ~At(h, "idle")
    /\ Incident("crash")
    /\ Return(h)
    /\ UNCHANGED <<product, typed, removed, jobs, stored, edits>>

-----------------------------------------------------------------------------
(* A batch's `now' matters until its last claim.                           *)
Counts(h) == h \in Sweeper /\ (frame[h].at \in {"recover", "list", "claim"}
                                 \/ frame[h].todo # {})

Tick ==
    /\ jobs' = [j \in Job |->
          IF Waiting(j) /\ jobs[j].due > -MaxLag
            THEN [jobs[j] EXCEPT !.due = @ - 1]
          ELSE IF jobs[j].status = "PROCESSING" /\ jobs[j].age < MaxAge
            THEN [jobs[j] EXCEPT !.age = @ + 1]
          ELSE jobs[j]]
    /\ frame' = [h \in Handler |->
          IF Counts(h) /\ frame[h].lag < MaxLag
            THEN [frame[h] EXCEPT !.lag = @ + 1] ELSE frame[h]]
    /\ UNCHANGED <<product, typed, removed, stored, incidents, edits>>

(* The steps of a handler that is at work, failures apart.                 *)
Work(h) ==
    \/ ReadImage(h) \/ SwitchImage(h) \/ UndoUpload(h)
    \/ recoverAbandoned(h) \/ listReady(h) \/ requestRetry(h)
    \/ claim(h) \/ ReadJob(h) \/ canDelete(h) \/ deleteObject(h)
    \/ markSucceeded(h) \/ Audited(h) \/ MarkFailure(h)
    \/ finalizeProductDeletion(h)

Next ==
    \/ EditProduct \/ Sell \/ RequestDeletion
    \/ \E a \in Artifact : RemoveArtifact(a)
    \/ \E h \in Sweeper : StartSweep(h)
    \/ \E h \in Admin :
          \/ UploadImage(h) \/ StartRetry(h) \/ StartProcess(h)
          \/ StartDeletion(h)
    \/ \E h \in Handler :
          \/ Work(h) \/ Crash(h)
          \/ UploadFails(h) \/ QueueAbandoned(h) \/ DeleteFails(h) \/ AuditFails(h)
    \/ Tick

Spec == Init /\ [][Next]_vars

(* The scheduler starts storage.lifecycle again and again, calls return,   *)
(* time passes.                                                            *)
Fairness ==
    /\ \A h \in Sweeper : WF_vars(StartSweep(h))
    /\ \A h \in Handler : WF_vars(Work(h))
    /\ WF_vars(Tick)

FairSpec == Spec /\ Fairness

-----------------------------------------------------------------------------
(* The rows, the bucket and every handler stay within their types; a row   *)
(* that was ever claimed counts the attempt, so that a failure can choose  *)
(* its backoff (storageCleanupBackoffAt).                                  *)
TypeOK ==
    /\ product \in Product
    /\ typed \subseteq Image
    /\ removed \subseteq Artifact
    /\ jobs \in [Job -> Row]
    /\ \A j \in Job : jobs[j].status \notin {"NONE", "PENDING"}
                         => jobs[j].attempts > 0
    /\ stored \subseteq Object
    /\ frame \in [Handler -> Frame]
    /\ incidents \in 0..MaxIncident
    /\ edits \in 0..MaxEdit

(* A job that reads SUCCEEDED has its object out of the bucket, whatever   *)
(* late marks, retries and second workers wrote before.                    *)
SuccessMeansRemoved ==
    \A j \in Job : jobs[j].status = "SUCCEEDED" => ObjectOf(j) \notin stored

(* The current image and the installers of a product nobody asked to       *)
(* delete stay in the bucket, an installer also when its key was typed in  *)
(* as the image and is condemned with it.  Of an image whose key was typed *)
(* in by hand nothing is said: PATCH takes it unseen.                      *)
LiveObjectsStayStored ==
    product.exists /\ ~product.requested =>
        Objects \subseteq stored

(* finalizeProductDeletion leaves no object behind that a job was queued   *)
(* for, although it reads the jobs long after the sweep chose the product. *)
FinalizedMeansRemoved ==
    ~product.exists => \A j \in Queued : ObjectOf(j) \notin stored

(* A product with commercial history is kept, also when it was restored,   *)
(* published, sold and archived again while its deletion was under way.    *)
SoldProductsSurvive == product.sold => product.exists

(* The deletion as a customer or an auditor sees it: where the product is,  *)
(* what it refers to, what was queued, what is in the bucket.              *)
Phase == IF ~product.exists THEN "gone"
         ELSE IF product.requested THEN "leaving" ELSE "kept"

Condemned == {ObjectOf(j) : j \in Queued}

Retention == INSTANCE RetainedObjects WITH
    phase <- Phase, sold <- product.sold, used <- Objects, condemned <- Condemned

(* However many workers hold the same job, write its mark late, crash or   *)
(* start over, all that comes of it is what RetainedObjects allows: no     *)
(* object in use is erased before the deletion was asked for, no name that *)
(* was condemned comes back, and the product is deleted only unsold and    *)
(* when everything condemned has left the bucket.                          *)
ImplementsRetention == Retention!Spec

(* A requested deletion completes, unless a job fails for good or the      *)
(* product stops being eligible.                                           *)
DeletionCompletes ==
    product.requested ~>
        \/ ~product.exists
        \/ ~Eligible
        \/ \E j \in Job : jobs[j].status = "FAILED"
=============================================================================
