------------------------------- MODULE Backups -------------------------------
(***************************************************************************)
(* One backup archive and the durable operations on it: lib/backups/engine *)
(* and the claims, retries and recovery of backups/service, as run by the  *)
(* loops of scripts/backup-worker.ts, with the retention job.              *)
(*                                                                         *)
(* Operation 1 creates the archive, the others verify or delete it         *)
(* (SIMULATE_RESTORE is a VERIFY here: it differs in what it decrypts;     *)
(* RESTORE_ISOLATED changes nothing of the archive).  Every execution of   *)
(* CREATE encrypts anew under the archive's one prefix, so an object is    *)
(* known by the execution that wrote it: the number of the claim.          *)
(***************************************************************************)
EXTENDS Integers, FiniteSets

CONSTANTS
    Worker,       \* backup workers
    NumOps,       \* bound: operations requested on the archive
    MaxAttempts,  \* BackupOperation.maxAttempts
    MaxRuns,      \* bound: claims of one operation
    MaxFault      \* bound: processes that die, failures that are not recorded

ASSUME BackupsAssumption ==
    /\ NumOps \in Nat \ {0}
    /\ MaxAttempts \in Nat \ {0}
    /\ MaxRuns \in Nat \ {0}
    /\ MaxFault \in Nat

Operation == 1..NumOps

Execution == 1..MaxRuns

VARIABLES
    archive,   \* the BackupArchive row
    store,     \* the execution that wrote each object, 0 for none
    gaps,      \* executions whose manifest lists missing source objects
    op,        \* the BackupOperation rows
    worker,    \* where each worker is
    retention, \* where the retention job is
    clash,     \* history: a CREATE ran beside another execution
    faults     \* history: faults so far

vars == <<archive, store, gaps, op, worker, retention, clash, faults>>

Object == {"database", "manifest"}

(* due: expiresAt has passed.  checksum: the manifest that is on record.   *)
Archive == [status : {"PENDING", "CREATING", "AVAILABLE", "INCOMPLETE", "VERIFIED",
                      "FAILED", "CORRUPT", "EXPIRED", "DELETED"},
            due : BOOLEAN, checksum : {0} \cup Execution]

Waiting == {"PENDING", "RETRYING"}
Final == {"SUCCEEDED", "FAILED"}

(* old: startedAt is more than an hour ago.  disputed: history, a worker   *)
(* once was that long at it, or a recovery revived it on an outdated list. *)
Row == [status : {"absent", "PROCESSING"} \cup Waiting \cup Final,
        type : {"CREATE", "VERIFY", "DELETE"}, attempts : {0} \cup Execution,
        old : BOOLEAN, disputed : BOOLEAN]

NoRow == [status |-> "absent", type |-> "VERIFY", attempts |-> 0, old |-> FALSE,
          disputed |-> FALSE]

(* The code of the error that an execution ends with.                      *)
Code == {"none", "RETRYABLE", "SOURCE_OBJECTS_MISSING", "CORRUPT", "NOT_EXPIRED"}

(* run: attempts of the claimed row; seen: the manifest that was loaded;   *)
(* todo: objects listed for deletion; found: abandoned rows, as listed.    *)
Frame == [at : {"recover", "revive", "idle", "begin", "upload", "manifest", "record",
                "load", "check", "verified", "delete", "remove", "deleted", "succeed",
                "fail", "failArchive"},
          op : {0} \cup Operation, run : {0} \cup Execution, code : Code,
          seen : {0} \cup Execution, todo : SUBSET Object,
          found : SUBSET (Operation \X Execution)]

Idle == [at |-> "idle", op |-> 0, run |-> 0, code |-> "none", seen |-> 0,
         todo |-> {}, found |-> {}]

(* A process recovers what was abandoned once, when it starts.             *)
Started == [Idle EXCEPT !.at = "recover"]

Init ==
    /\ archive = [status |-> "PENDING", due |-> FALSE, checksum |-> 0]
    /\ store = [k \in Object |-> 0]
    /\ gaps = {}
    /\ op = [o \in Operation |->
         IF o = 1 THEN [NoRow EXCEPT !.status = "PENDING", !.type = "CREATE"]
         ELSE NoRow]
    /\ worker = [w \in Worker |-> Started]
    /\ retention = "idle"
    /\ clash = FALSE
    /\ faults = 0

Busy(w) == worker[w].op # 0

Type(w) == op[worker[w].op].type

Goto(w, at) == worker' = [worker EXCEPT ![w].at = at]

Rest == <<gaps, retention, clash, faults>>

-----------------------------------------------------------------------------
Requested(o) ==
    /\ op[o].status = "absent"
    /\ \A x \in Operation : x < o => op[x].status # "absent"

Queue(type) ==
    \E o \in Operation :
       /\ Requested(o)
       /\ op' = [op EXCEPT ![o] = [NoRow EXCEPT !.status = "PENDING", !.type = type]]

(* requestBackupOperation by an administrator: the archive has only to     *)
(* exist, whatever its status.                                             *)
requestBackupOperation ==
    /\ Queue("VERIFY") \/ Queue("DELETE")
    /\ UNCHANGED <<archive, store, worker, Rest>>

(* The rows due in order of createdAt; a retry may not be due yet.         *)
Due(o) ==
    /\ op[o].status \in Waiting /\ op[o].attempts < MaxRuns
    /\ \A x \in Operation :
          x < o /\ op[x].status \in Waiting => op[x].status = "RETRYING"

First(o) == [CREATE |-> "begin", VERIFY |-> "load", DELETE |-> "delete"][op[o].type]

(* Mutant: a retry is never claimed.                                       *)
claimPendingOnly(w) ==
    /\ worker[w].at = "idle"
    /\ \E o \in Operation :
         /\ Due(o) /\ op[o].status = "PENDING"
         /\ op' = [op EXCEPT ![o].status = "PROCESSING",
                             ![o].attempts = @ + 1, ![o].old = FALSE]
         /\ worker' = [worker EXCEPT ![w] = [Idle EXCEPT !.at = First(o),
                             !.op = o, !.run = op[o].attempts + 1]]
         /\ clash' = (clash \/ \E v \in Worker : Busy(v)
                        /\ "CREATE" \in {op[o].type, Type(v)})
    /\ UNCHANGED <<archive, store, gaps, retention, faults>>

(* Mutant: a claim is not counted.                                         *)
claimUncounted(w) ==
    /\ worker[w].at = "idle"
    /\ \E o \in Operation :
         /\ Due(o)
         /\ op' = [op EXCEPT ![o].status = "PROCESSING", ![o].old = FALSE]
         /\ worker' = [worker EXCEPT ![w] = [Idle EXCEPT !.at = First(o),
                             !.op = o, !.run = op[o].attempts + 1]]
         /\ clash' = (clash \/ \E v \in Worker : Busy(v)
                        /\ "CREATE" \in {op[o].type, Type(v)})
    /\ UNCHANGED <<archive, store, gaps, retention, faults>>

claimBackupOperation(w) ==
    /\ worker[w].at = "idle"
    /\ \E o \in Operation :
         /\ Due(o)
         /\ op' = [op EXCEPT ![o].status = "PROCESSING",
                             ![o].attempts = @ + 1, ![o].old = FALSE]
         /\ worker' = [worker EXCEPT ![w] = [Idle EXCEPT !.at = First(o),
                             !.op = o, !.run = op[o].attempts + 1]]
         /\ clash' = (clash \/ \E v \in Worker : Busy(v)
                        /\ "CREATE" \in {op[o].type, Type(v)})
    /\ UNCHANGED <<archive, store, gaps, retention, faults>>

-----------------------------------------------------------------------------
(* createArchive: CREATING, the objects, the manifest, the record.         *)
Begin(w) ==
    /\ worker[w].at = "begin"
    /\ archive' = [archive EXCEPT !.status = "CREATING"]
    /\ Goto(w, "upload")
    /\ UNCHANGED <<store, op, Rest>>

Put(w, k) == store' = [store EXCEPT ![k] = worker[w].run]

Upload(w) ==
    /\ worker[w].at = "upload"
    /\ Put(w, "database")
    /\ Goto(w, "manifest")
    /\ UNCHANGED <<archive, op, Rest>>

(* The source objects that the database names may not all be there: the    *)
(* manifest lists those that are not.                                      *)
PutManifest(w) ==
    /\ worker[w].at = "manifest"
    /\ Put(w, "manifest")
    /\ gaps' = gaps \/ gaps' = gaps \cup {worker[w].run}
    /\ Goto(w, "record")
    /\ UNCHANGED <<archive, op, retention, clash, faults>>

Throw(w, code) ==
    worker' = [worker EXCEPT ![w] = [Idle EXCEPT !.at = "fail", !.op = worker[w].op,
                                         !.run = worker[w].run, !.code = code]]

Record(w) ==
    /\ worker[w].at = "record"
    /\ archive' = [archive EXCEPT !.checksum = worker[w].run,
         !.status = IF worker[w].run \in gaps THEN "INCOMPLETE" ELSE "AVAILABLE"]
    /\ IF worker[w].run \in gaps THEN Throw(w, "SOURCE_OBJECTS_MISSING")
       ELSE Goto(w, "succeed")
    /\ UNCHANGED <<store, op, Rest>>

(* loadManifest: without a record or an object it may be retried; another  *)
(* object than the one on record is corrupt.                               *)
Load(w) ==
    /\ worker[w].at = "load"
    /\ LET there == archive.checksum # 0 /\ store["manifest"] # 0
           seen == archive.checksum
       IN  IF ~there THEN Throw(w, "RETRYABLE")
           ELSE IF store["manifest"] # seen THEN Throw(w, "CORRUPT")
           ELSE IF seen \in gaps THEN Throw(w, "SOURCE_OBJECTS_MISSING")
           ELSE worker' = [worker EXCEPT ![w] = [@ EXCEPT !.at = "check", !.seen = seen]]
    /\ UNCHANGED <<archive, store, op, Rest>>

(* Every object against the manifest.                                      *)
Check(w) ==
    /\ worker[w].at = "check"
    /\ IF store["database"] = 0 THEN Throw(w, "RETRYABLE")
       ELSE IF store["database"] # worker[w].seen THEN Throw(w, "CORRUPT")
       ELSE worker' = [worker EXCEPT ![w] = [@ EXCEPT !.at = "verified", !.seen = 0]]
    /\ UNCHANGED <<archive, store, op, Rest>>

(* The status is written whatever it became meanwhile.                     *)
Verified(w) ==
    /\ worker[w].at = "verified"
    /\ archive' = [archive EXCEPT !.status = "VERIFIED"]
    /\ Goto(w, "succeed")
    /\ UNCHANGED <<store, op, Rest>>

Listed == {k \in Object : store[k] # 0}

RemoveNext(w, todo) ==
    worker' = [worker EXCEPT ![w] = [@ EXCEPT !.todo = todo,
                 !.at = IF todo = {} THEN "deleted" ELSE "remove"]]

(* Mutant: the date is not looked at.                                      *)
DeleteAnyTime(w) ==
    /\ worker[w].at = "delete"
    /\ RemoveNext(w, Listed)
    /\ UNCHANGED <<archive, store, op, Rest>>

(* deleteExpired: the date, the list of the objects under the prefix.      *)
Delete(w) ==
    /\ worker[w].at = "delete"
    /\ IF archive.due THEN RemoveNext(w, Listed) ELSE Throw(w, "NOT_EXPIRED")
    /\ UNCHANGED <<archive, store, op, Rest>>

(* In the order of the list, which is that of the keys.                    *)
Remove(w) ==
    /\ worker[w].at = "remove"
    /\ LET todo == worker[w].todo
           k == IF "database" \in todo THEN "database" ELSE "manifest"
       IN  store' = [store EXCEPT ![k] = 0] /\ RemoveNext(w, todo \ {k})
    /\ UNCHANGED <<archive, op, Rest>>

Deleted(w) ==
    /\ worker[w].at = "deleted"
    /\ archive' = [archive EXCEPT !.status = "DELETED"]
    /\ Goto(w, "succeed")
    /\ UNCHANGED <<store, op, Rest>>

(* Only of a row that is PROCESSING it matters how old the claim is.       *)
Settled(o, status) == [op EXCEPT ![o] = [@ EXCEPT !.status = status, !.old = FALSE]]

(* The operation, by its id; then the audit row, which may throw.          *)
Succeed(w) ==
    /\ worker[w].at = "succeed"
    /\ op' = Settled(worker[w].op, "SUCCEEDED")
    /\ worker' = [worker EXCEPT ![w] = Idle] \/ Throw(w, "RETRYABLE")
    /\ UNCHANGED <<archive, store, Rest>>

(* The catch of executeBackupOperation: the operation, with the attempts   *)
(* of its own claim.                                                       *)
Fail(w) ==
    /\ worker[w].at = "fail"
    /\ op' = Settled(worker[w].op,
         IF worker[w].run < MaxAttempts /\ worker[w].code = "RETRYABLE"
         THEN "RETRYING" ELSE "FAILED")
    /\ IF Type(w) = "CREATE" \/ worker[w].code = "CORRUPT"
       THEN Goto(w, "failArchive")
       ELSE worker' = [worker EXCEPT ![w] = Idle]
    /\ UNCHANGED <<archive, store, Rest>>

(* Then the archive, for a creation, or for a verification that found it   *)
(* corrupt.                                                                *)
FailArchive(w) ==
    /\ worker[w].at = "failArchive"
    /\ archive' = [archive EXCEPT !.status =
         IF Type(w) = "VERIFY" THEN "CORRUPT"
         ELSE IF worker[w].code = "SOURCE_OBJECTS_MISSING" THEN "INCOMPLETE"
         ELSE "FAILED"]
    /\ worker' = [worker EXCEPT ![w] = Idle]
    /\ UNCHANGED <<store, op, Rest>>

Fault == faults < MaxFault /\ faults' = faults + 1

(* A call to the database, the store or pg_dump throws.                    *)
CallThrows(w) ==
    /\ worker[w].at \in {"begin", "upload", "manifest", "record", "load", "check",
                         "verified", "delete", "remove", "deleted", "succeed"}
    /\ Fault
    /\ Throw(w, "RETRYABLE")
    /\ UNCHANGED <<archive, store, gaps, op, retention, clash>>

(* The catch throws in its turn: the loop goes on, the rest is not done.   *)
CatchThrows(w) ==
    /\ worker[w].at \in {"fail", "failArchive"}
    /\ Fault
    /\ worker' = [worker EXCEPT ![w] = Idle]
    /\ UNCHANGED <<archive, store, gaps, op, retention, clash>>

(* A worker dies at any point; another process takes its place.            *)
Crash(w) ==
    /\ Fault
    /\ worker' = [worker EXCEPT ![w] = Started]
    /\ UNCHANGED <<archive, store, gaps, op, retention, clash>>

-----------------------------------------------------------------------------
(* Mutant: every running operation is taken for abandoned.                 *)
AbandonedAny(o) == op[o].status = "PROCESSING"

Abandoned(o) == op[o].status = "PROCESSING" /\ op[o].old

ReviveNext(w, found) ==
    worker' = [worker EXCEPT ![w] = [@ EXCEPT !.found = found,
                 !.at = IF found = {} THEN "idle" ELSE "revive"]]

(* recoverAbandonedBackupOperations: the list, then each row by its id.    *)
Recover(w) ==
    /\ worker[w].at = "recover"
    /\ ReviveNext(w, {<<o, op[o].attempts>> : o \in {x \in Operation : Abandoned(x)}})
    /\ UNCHANGED <<archive, store, op, Rest>>

Revive(w) ==
    /\ worker[w].at = "revive"
    /\ \E f \in worker[w].found :
         /\ op' = [op EXCEPT ![f[1]] = [@ EXCEPT
              !.status = IF f[2] >= MaxAttempts THEN "FAILED" ELSE "RETRYING",
              !.old = FALSE,
              !.disputed = \/ op[f[1]].disputed \/ ~Abandoned(f[1])
                           \/ f[2] # op[f[1]].attempts]]
         /\ ReviveNext(w, worker[w].found \ {f})
    /\ UNCHANGED <<archive, store, Rest>>

(* An hour after the claim.                                                *)
HourPasses(o) ==
    /\ op[o].status = "PROCESSING" /\ ~op[o].old
    /\ op' = [op EXCEPT ![o] = [@ EXCEPT !.old = TRUE,
         !.disputed = op[o].disputed \/ \E w \in Worker : worker[w].op = o]]
    /\ UNCHANGED <<archive, store, worker, Rest>>

Expire ==
    /\ ~archive.due
    /\ archive' = [archive EXCEPT !.due = TRUE]
    /\ UNCHANGED <<store, op, worker, Rest>>

(* The retention job: the list of expired archives, the status of each,    *)
(* and its deletion, three calls.                                          *)
backupRetention ==
    /\ \/ /\ retention = "idle"
          /\ archive.due
          /\ archive.status \in {"AVAILABLE", "VERIFIED", "INCOMPLETE", "FAILED"}
          /\ retention' = "listed"
          /\ UNCHANGED <<archive, op, faults>>
       \/ /\ retention = "listed"
          /\ archive' = [archive EXCEPT !.status = "EXPIRED"]
          /\ retention' = "marked"
          /\ UNCHANGED <<op, faults>>
       \/ /\ retention = "marked"
          /\ Queue("DELETE")
          /\ retention' = "idle"
          /\ UNCHANGED <<archive, faults>>
       \/ /\ retention # "idle"
          /\ Fault
          /\ retention' = "idle"
          /\ UNCHANGED <<archive, op>>
    /\ UNCHANGED <<store, gaps, worker, clash>>

-----------------------------------------------------------------------------
Execute(w) ==
    \/ Begin(w) \/ Upload(w) \/ PutManifest(w) \/ Record(w)
    \/ Load(w) \/ Check(w) \/ Verified(w)
    \/ Delete(w) \/ Remove(w) \/ Deleted(w)
    \/ Succeed(w) \/ Fail(w) \/ FailArchive(w)

Work(w) == claimBackupOperation(w) \/ Execute(w) \/ Recover(w) \/ Revive(w)

Next ==
    \/ \E w \in Worker : Work(w) \/ CallThrows(w) \/ CatchThrows(w) \/ Crash(w)
    \/ \E o \in Operation : HourPasses(o)
    \/ requestBackupOperation \/ Expire \/ backupRetention

Spec == Init /\ [][Next]_vars

(* The loop of a worker goes on, its calls return or throw.                *)
FairSpec == Spec /\ \A w \in Worker : WF_vars(Work(w))

-----------------------------------------------------------------------------
(* The types of the variables; a worker that executes an operation knows   *)
(* at most the number of its claims.                                       *)
TypeOK ==
    /\ archive \in Archive
    /\ store \in [Object -> {0} \cup Execution]
    /\ gaps \subseteq Execution
    /\ op \in [Operation -> Row]
    /\ worker \in [Worker -> Frame]
    /\ \A w \in Worker : Busy(w) => worker[w].run \in 1..op[worker[w].op].attempts
    /\ retention \in {"idle", "listed", "marked"}
    /\ clash \in BOOLEAN
    /\ faults \in 0..MaxFault

Restorable ==
    /\ archive.checksum # 0
    /\ \A k \in Object : store[k] = archive.checksum
    /\ archive.checksum \notin gaps

(* What the status says of the archive is so of its objects, through       *)
(* crashes, retries, failed calls and second creations: an archive that is *)
(* AVAILABLE or VERIFIED and has not expired can be restored, a DELETED    *)
(* one has left nothing.  It takes a creation that runs beside another     *)
(* execution to make it false.                                             *)
StatusTellsTheStore ==
    ~clash =>
       /\ archive.status \in {"AVAILABLE", "VERIFIED"} /\ ~archive.due => Restorable
       /\ archive.status = "DELETED" => \A k \in Object : store[k] = 0

Executing(w, o) == worker[w].op = o /\ worker[w].at # "failArchive"

(* An operation is in the hands of one worker at a time, and until that    *)
(* worker reports how it ended the row is PROCESSING under its claim,      *)
(* unless a worker was over an hour at it or one recovery came between the *)
(* list and the update of another.                                         *)
UndisputedOperationsAreExclusive ==
    \A o \in Operation : ~op[o].disputed =>
       /\ \A v, w \in Worker : Executing(v, o) /\ Executing(w, o) => v = w
       /\ \A w \in Worker : Executing(w, o) /\ worker[w].at # "fail" =>
             op[o].status = "PROCESSING" /\ op[o].attempts = worker[w].run

(* The rows as ClaimedOperations sees them.                                *)
StateOf(row) ==
    IF row.disputed THEN "disputed"
    ELSE CASE row.status = "absent"      -> "none"
           [] row.status \in Waiting     -> "waiting"
           [] row.status = "PROCESSING"  -> "running"
           [] row.status = "SUCCEEDED"   -> "done"
           [] row.status = "FAILED"      -> "failed"

state == [o \in Operation |-> StateOf(op[o])]

tries == [o \in Operation |-> IF op[o].disputed THEN 0 ELSE op[o].attempts]

hands == [o \in Operation |->
            {w \in Worker : ~op[o].disputed /\ Executing(w, o)}]

Claims == INSTANCE ClaimedOperations

(* However claims, reports, crashes and recoveries interleave, an          *)
(* operation that nobody disputes is executed by one worker at a time and  *)
(* MaxAttempts times at most, although no claim looks at the limit, and    *)
(* is never executed again once it has failed.                             *)
ImplementsClaims == Claims!Spec

(* An operation that nobody disputes is claimed MaxAttempts times at most, *)
(* although no claim looks at the limit.                                   *)
AttemptsWithinLimit ==
    \A o \in Operation : ~op[o].disputed => op[o].attempts <= MaxAttempts

(* Every operation that waits succeeds or fails for good, or its worker    *)
(* dies and leaves it to a recovery, or it is disputed.                    *)
EveryOperationSettles ==
    \A o \in Operation :
       op[o].status \in Waiting ~>
          \/ op[o].status \in Final
          \/ op[o].status = "PROCESSING" /\ \A w \in Worker : worker[w].op # o
          \/ op[o].disputed
=============================================================================
