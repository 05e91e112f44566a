----------------------------- MODULE Scheduler -----------------------------
(***************************************************************************)
(* The scheduler engine of platform/scheduler/scheduler.ts over its store  *)
(* (platform/host/scheduler/store.ts) and its lock provider                *)
(* (platform/scheduler/locks.ts), for ONE registered job: runs, locks and  *)
(* definitions of different job keys share no state.                       *)
(*                                                                         *)
(* A process is an application process that executes one engine call at a  *)
(* time (the cron tick, an administrator's request, the CLI) and that also *)
(* hosts the handlers its earlier, timed-out calls left behind:            *)
(* withJobTimeout() rejects the race but cannot cancel the handler.        *)
(* Every await on the database or on Redis is a step of its own, so other  *)
(* processes interleave between a read and the write it leads to.          *)
(***************************************************************************)
EXTENDS Naturals, FiniteSets

CONSTANTS
    Process,      \* application processes that call the engine
    Timeout,      \* job.timeoutSeconds, in clock ticks
    LockSeconds,  \* job.lockSeconds, the TTL of the Redis lock
    Cadence,      \* job.cadenceSeconds
    MaxAttempts,  \* job.maxAttempts
    BaseDelay,    \* retryDelayMs: the delay after the first attempt
    DelayCap,     \* retryDelayMs: six hours
    AuditAll,     \* job.auditPolicy = "ALL"
    MaxRun,       \* bound: rows created in ScheduledJobRun
    MaxClock,     \* bound: ticks of the clock
    Incidents,    \* which incidents happen in this instance
    MaxIncident   \* bound: how many of them happen

(* Requests of administrators and of the CLI; crashes of a process and     *)
(* failed calls to the database or to Redis.                               *)
IncidentKind == {"request", "fault"}

ASSUME SchedulerAssumption ==
    /\ Timeout \in Nat \ {0}
    /\ LockSeconds \in Nat /\ LockSeconds > Timeout
    /\ Cadence \in Nat \ {0}
    /\ MaxAttempts \in Nat \ {0}
    /\ BaseDelay \in Nat \ {0}
    /\ DelayCap \in Nat
    /\ AuditAll \in BOOLEAN
    /\ MaxRun \in Nat
    /\ MaxClock \in Nat
    /\ Incidents \subseteq IncidentKind
    /\ MaxIncident \in Nat

VARIABLES
    clock,      \* wall clock shared by the processes
    runs,       \* ScheduledJobRun rows, by id
    created,    \* how many rows exist: ids 1..created
    lock,       \* the Redis key of the job
    nextRunAt,  \* ScheduledJobDefinition.nextRunAt
    enabled,    \* ScheduledJobDefinition.enabled
    pc,         \* where each process is
    frame,      \* the local variables of its engine call
    handlers,   \* runs whose job.handler() promise is still pending, by process
    lease,      \* history: when the lock taken for a run expires
    requests,   \* history: requests made so far
    faults      \* history: faults injected so far

vars == <<clock, runs, created, lock, nextRunAt, enabled,
          pc, frame, handlers, lease, requests, faults>>

RunId == 1..MaxRun

(* ScheduledRunStatus; "NONE" is a row that does not exist. *)
Status == {"NONE", "QUEUED", "RUNNING", "SUCCEEDED", "FAILED",
           "RETRYING", "ABANDONED", "SKIPPED"}

(* The idempotency key.  "<job>:<window>:live" and                         *)
(* "retry:<parent>:<attempt>" can collide (the attempt is a function of    *)
(* the parent); the keys of the other kinds end in a random id.            *)
UniqueKind == {"window", "retry"}
RandomKind == {"manual", "cli", "manual-retry"}
KeyKind == UniqueKind \cup RandomKind

(* RunJobInput.  For a window "of" is the window, for a retry the parent   *)
(* run; "at" is scheduledFor.                                              *)
Call == [kind : KeyKind, of : Nat, at : Nat, dry : BOOLEAN]

Run == [status : Status, kind : KeyKind, of : Nat, attempt : Nat,
        dry : BOOLEAN, startedAt : Nat, retryAt : Nat]

NoCall == [kind |-> "cli", of |-> 0, at |-> 0, dry |-> FALSE]

RetryOf(r, now) == [kind |-> "retry", of |-> r, at |-> now, dry |-> FALSE]

NoRun == [status |-> "NONE", kind |-> "cli", of |-> 0, attempt |-> 0,
          dry |-> FALSE, startedAt |-> 0, retryAt |-> 0]

(* owner 0: the key does not exist. *)
NoLock == [owner |-> 0, until |-> 0]

(* Local variables of runDueJobs/recoverAbandonedRuns (phase, trigger,     *)
(* now, todo) and of runJob (the rest).                                    *)
Phase == {"single", "recover", "retries"}
Trigger == {"window", "cli"}
Fault == {"none", "transient", "terminal", "timeout"}
Frame == [phase : Phase, trigger : Trigger, now : Nat, todo : SUBSET RunId, call : Call,
          run : Nat, from : Nat, deadline : Nat, fault : Fault]

NoFrame == [phase |-> "single", trigger |-> "window", now |-> 0, todo |-> {}, call |-> NoCall,
            run |-> 0, from |-> 0, deadline |-> 0, fault |-> "none"]

PC == {"idle", "recover", "retries", "create", "acquire", "conflict", "mark",
       "handler", "succeed", "audit", "fail", "release"}

TypeOK ==
    /\ clock \in Nat
    /\ runs \in [RunId -> Run]
    /\ created \in 0..MaxRun
    /\ lock \in [owner : Nat, until : Nat]
    /\ nextRunAt \in Nat
    /\ enabled \in BOOLEAN
    /\ pc \in [Process -> PC]
    /\ frame \in [Process -> Frame]
    /\ handlers \in [Process -> SUBSET RunId]
    /\ lease \in [RunId -> Nat]
    /\ requests \in Nat
    /\ faults \in Nat

(***************************************************************************)
(* Policy (platform/scheduler/policy.ts)                                   *)
(***************************************************************************)

scheduledWindow(now) == now - (now % Cadence)

(* The jitter, at most a fifth of the delay, is below one tick. *)
retryDelay(attempt) ==
    LET doublings == IF attempt > 0 THEN attempt - 1 ELSE 0
        delay == BaseDelay * 2^doublings
    IN  IF delay < DelayCap THEN delay ELSE DelayCap

(* The provers have no exponentiation: what they may use of it. *)
ASSUME RetryDelayAssumption ==
    \A attempt \in 0..MaxAttempts : retryDelay(attempt) \in Nat

(* Mutant: the cadence is subtracted. *)
nextScheduledAtBackwards(scheduledFor, now) ==
    IF scheduledFor > now THEN scheduledFor - Cadence ELSE now - Cadence

nextScheduledAt(scheduledFor, now) ==
    IF scheduledFor > now THEN scheduledFor + Cadence ELSE now + Cadence

(***************************************************************************)
(* The store                                                               *)
(***************************************************************************)

Existing == 1..created

(* Mutant: only windows are unique, a retry's key is not. *)
DuplicateOfWindows(call) ==
    /\ call.kind = "window"
    /\ \E r \in Existing : runs[r].kind = call.kind /\ runs[r].of = call.of

(* The unique index on ScheduledJobRun.idempotencyKey. *)
Duplicate(call) ==
    /\ call.kind \in UniqueKind
    /\ \E r \in Existing : runs[r].kind = call.kind /\ runs[r].of = call.of

parentOf(call) == IF call.kind \in {"retry", "manual-retry"} THEN call.of ELSE 0

NewRun(call) ==
    LET parent == parentOf(call)
    IN  [NoRun EXCEPT !.status = "QUEUED",
                      !.kind = call.kind,
                      !.of = call.of,
                      !.dry = call.dry,
                      !.attempt = IF parent \in Existing
                                  THEN runs[parent].attempt + 1 ELSE 1]

SetStatus(r, status) == runs' = [runs EXCEPT ![r].status = status]

(* Mutant: off by one. *)
attemptsRemainInclusive(r) == runs[r].attempt <= MaxAttempts

(* Both paths of automatic retry test it. *)
attemptsRemain(r) == runs[r].attempt < MaxAttempts

(* Mutants: recovery ignores the timeout, or compares the wrong way. *)
listRunningAny(now) == {r \in Existing : runs[r].status = "RUNNING"}
listRunningYoung(now) ==
    {r \in Existing : runs[r].status = "RUNNING" /\ runs[r].startedAt + Timeout > now}

(* listRunning, without the rows the loop passes over: their timeout,      *)
(* counted from the startedAt that was read, had not ended at now.         *)
listRunning(now) ==
    {r \in Existing : runs[r].status = "RUNNING" /\ runs[r].startedAt + Timeout < now}

listDueRetries(now) ==
    {r \in Existing : runs[r].status = "RETRYING" /\ runs[r].retryAt <= now}

(***************************************************************************)
(* Control flow of one engine call                                         *)
(***************************************************************************)

Init ==
    /\ clock = 0
    /\ runs = [r \in RunId |-> NoRun]
    /\ created = 0
    /\ lock = NoLock
    /\ nextRunAt = 0
    /\ enabled = TRUE
    /\ pc = [p \in Process |-> "idle"]
    /\ frame = [p \in Process |-> NoFrame]
    /\ handlers = [p \in Process |-> {}]
    /\ lease = [r \in RunId |-> 0]
    /\ requests = 0
    /\ faults = 0

(* Resuming a paused job is not counted. *)
Admits(kind) == kind \in Incidents /\ requests + faults < MaxIncident

Goto(p, label) == pc' = [pc EXCEPT ![p] = label]

(* The engine call of p ends, normally or by throwing. *)
Finish(p) ==
    /\ Goto(p, "idle")
    /\ frame' = [frame EXCEPT ![p] = NoFrame]

(* runJob returns to the loop that called it. *)
Return(p) ==
    IF frame[p].phase = "single"
    THEN Finish(p)
    ELSE /\ Goto(p, frame[p].phase)
         /\ frame' = [frame EXCEPT ![p] =
                [NoFrame EXCEPT !.phase = frame[p].phase, !.trigger = frame[p].trigger,
                                !.now = frame[p].now, !.todo = frame[p].todo]]

(* An awaited call outside runJob's try block throws: the engine call ends *)
(* and nothing it did is undone.                                           *)
Throw(p) ==
    /\ Admits("fault")
    /\ faults' = faults + 1
    /\ Finish(p)

CallRunJob(p, phase, call) ==
    /\ Goto(p, "create")
    /\ frame' = [frame EXCEPT ![p].phase = phase, ![p].call = call]

-----------------------------------------------------------------------------
(* runDueJobs *)

(* now = clock(), synchronizeJobs, then recoverAbandonedRuns reads the     *)
(* RUNNING rows.  Synchronising writes nothing that is modelled.           *)
StartRunDueJobs(p, trigger) ==
    /\ pc[p] = "idle"
    /\ Goto(p, "recover")
    /\ frame' = [frame EXCEPT ![p] =
           [NoFrame EXCEPT !.phase = "recover", !.trigger = trigger, !.now = clock,
                           !.todo = listRunning(clock)]]
    /\ UNCHANGED <<clock, runs, created, lock, nextRunAt, enabled, handlers, lease, faults>>

StartTick(p) == StartRunDueJobs(p, "window") /\ UNCHANGED requests

(* One overdue run of the list: marked ABANDONED by id, whatever its       *)
(* status has become since the list was read, and retried through runJob   *)
(* when attempts remain.                                                   *)
RecoverRun(p) ==
    /\ pc[p] = "recover"
    /\ \E r \in frame[p].todo :
         LET rest == [frame EXCEPT ![p].todo = @ \ {r}] IN
         /\ SetStatus(r, "ABANDONED")
         /\ IF attemptsRemain(r)
            THEN /\ Goto(p, "create")
                 /\ frame' = [rest EXCEPT ![p].call = RetryOf(r, frame[p].now)]
            ELSE UNCHANGED pc /\ frame' = rest
    /\ UNCHANGED <<clock, created, lock, nextRunAt, enabled, handlers, lease, requests, faults>>

(* Every run was examined; runDueJobs lists the RETRYING rows due at now.  *)
ListRetries(p) ==
    /\ pc[p] = "recover"
    /\ frame[p].todo = {}
    /\ Goto(p, "retries")
    /\ frame' = [frame EXCEPT ![p].phase = "retries",
                              ![p].todo = listDueRetries(frame[p].now)]
    /\ UNCHANGED <<clock, runs, created, lock, nextRunAt, enabled, handlers, lease, requests, faults>>

(* consumeRetrySource is conditional on RETRYING; the winner retries it.   *)
ConsumeRetry(p) ==
    /\ pc[p] = "retries"
    /\ \E r \in frame[p].todo :
         LET rest == [frame EXCEPT ![p].todo = @ \ {r}] IN
         IF runs[r].status = "RETRYING"
         THEN /\ SetStatus(r, "FAILED")
              /\ Goto(p, "create")
              /\ frame' = [rest EXCEPT ![p].call = RetryOf(r, frame[p].now)]
         ELSE UNCHANGED <<pc, runs>> /\ frame' = rest
    /\ UNCHANGED <<clock, created, lock, nextRunAt, enabled, handlers, lease, requests, faults>>

(* listDueDefinitions: the job runs for the window of now, or the tick     *)
(* ends.  The key of a CLI tick does not name the window.                  *)
ListDue(p) ==
    /\ pc[p] = "retries"
    /\ frame[p].todo = {}
    /\ LET window == scheduledWindow(frame[p].now) IN
       IF enabled /\ nextRunAt <= frame[p].now
       THEN CallRunJob(p, "single",
                [kind |-> frame[p].trigger, of |-> window, at |-> window, dry |-> FALSE])
       ELSE Finish(p)
    /\ UNCHANGED <<clock, runs, created, lock, nextRunAt, enabled, handlers, lease, requests, faults>>

-----------------------------------------------------------------------------
(* The administrator's and the CLI's calls *)

Request ==
    /\ Admits("request")
    /\ requests' = requests + 1

StartCliTick(p) == Request /\ StartRunDueJobs(p, "cli")

(* runJob with trigger MANUAL or CLI, for real or as a dry run. *)
RunNow(p) ==
    /\ Request
    /\ pc[p] = "idle"
    /\ \E kind \in {"manual", "cli"}, dry \in BOOLEAN :
         CallRunJob(p, "single", [kind |-> kind, of |-> 0, at |-> clock, dry |-> dry])
    /\ UNCHANGED <<clock, runs, created, lock, nextRunAt, enabled, handlers, lease, faults>>

(* retryFailure leaves the run it retries as it is. *)
RetryFailure(p) ==
    /\ Request
    /\ pc[p] = "idle"
    /\ \E r \in Existing :
         /\ runs[r].status \in {"FAILED", "ABANDONED", "RETRYING"}
         /\ CallRunJob(p, "single",
                [kind |-> "manual-retry", of |-> r, at |-> clock, dry |-> FALSE])
    /\ UNCHANGED <<clock, runs, created, lock, nextRunAt, enabled, handlers, lease, faults>>

(* setJobEnabled *)
Pause ==
    /\ Request
    /\ enabled
    /\ enabled' = FALSE
    /\ UNCHANGED <<clock, runs, created, lock, nextRunAt, pc, frame, handlers, lease, faults>>

Resume ==
    /\ ~enabled
    /\ enabled' = TRUE
    /\ nextRunAt' = clock
    /\ UNCHANGED <<clock, runs, created, lock, pc, frame, handlers, lease, requests, faults>>

-----------------------------------------------------------------------------
(* runJob *)

(* getDefinition and createRun (INSERT ... skipDuplicates).  A paused job  *)
(* and a duplicate key return.  A pause that lands between the two awaits  *)
(* has the effect of one that lands after them.  Bound: with MaxRun rows   *)
(* the call returns too.                                                   *)
CreateRun(p) ==
    /\ pc[p] = "create"
    /\ LET call == frame[p].call
           r == created + 1
       IN  IF ~enabled \/ Duplicate(call) \/ r > MaxRun
           THEN Return(p) /\ UNCHANGED <<runs, created>>
           ELSE /\ created' = r
                /\ runs' = [runs EXCEPT ![r] = NewRun(call)]
                /\ frame' = [frame EXCEPT ![p].run = r]
                /\ Goto(p, "acquire")
    /\ UNCHANGED <<clock, lock, nextRunAt, enabled, handlers, lease, requests, faults>>

LockIsFree == lock.owner = 0 \/ lock.until <= clock

TakeLock(r) ==
    /\ LockIsFree
    /\ lock' = [owner |-> r, until |-> clock + LockSeconds]
    /\ lease' = [lease EXCEPT ![r] = clock + LockSeconds]

(* SET key owner NX PX ttl.  The random owner is this call's, so it is     *)
(* named by the run.                                                       *)
Acquire(p) ==
    /\ pc[p] = "acquire"
    /\ IF LockIsFree
       THEN /\ TakeLock(frame[p].run)
            /\ frame' = [frame EXCEPT ![p].from = clock]
            /\ Goto(p, "mark")
       ELSE Goto(p, "conflict") /\ UNCHANGED <<lock, lease, frame>>
    /\ UNCHANGED <<clock, runs, created, nextRunAt, enabled, handlers, requests, faults>>

(* Redis set the key but the reply was lost: nobody knows the owner token. *)
AcquireReplyLost(p) ==
    /\ pc[p] = "acquire"
    /\ TakeLock(frame[p].run)
    /\ Throw(p)
    /\ UNCHANGED <<clock, runs, created, nextRunAt, enabled, handlers, requests>>

(* markLockConflict; nextRunAt stays as it is. *)
MarkLockConflict(p) ==
    /\ pc[p] = "conflict"
    /\ SetStatus(frame[p].run, "SKIPPED")
    /\ Return(p)
    /\ UNCHANGED <<clock, created, lock, nextRunAt, enabled, handlers, lease, requests, faults>>

(* startedAt was read between the lock's reply and this write; the timer   *)
(* of withJobTimeout starts after it, with the handler.                    *)
MarkRunning(p) ==
    /\ pc[p] = "mark"
    /\ \E startedAt \in frame[p].from .. clock :
         runs' = [runs EXCEPT ![frame[p].run].status = "RUNNING",
                              ![frame[p].run].startedAt = startedAt]
    /\ frame' = [frame EXCEPT ![p].deadline = clock + Timeout]
    /\ handlers' = [handlers EXCEPT ![p] = @ \cup {frame[p].run}]
    /\ Goto(p, "handler")
    /\ UNCHANGED <<clock, created, lock, nextRunAt, enabled, lease, requests, faults>>

HandlerReturns(p) ==
    /\ pc[p] = "handler"
    /\ handlers' = [handlers EXCEPT ![p] = @ \ {frame[p].run}]
    /\ Goto(p, "succeed")
    /\ UNCHANGED <<clock, runs, created, lock, nextRunAt, enabled, frame, lease, requests, faults>>

(* classifyJobFailure: VALIDATION and CONFIGURATION are terminal. *)
HandlerThrows(p) ==
    /\ pc[p] = "handler"
    /\ handlers' = [handlers EXCEPT ![p] = @ \ {frame[p].run}]
    /\ \E fault \in {"transient", "terminal"} :
         frame' = [frame EXCEPT ![p].fault = fault]
    /\ Goto(p, "fail")
    /\ UNCHANGED <<clock, runs, created, lock, nextRunAt, enabled, lease, requests, faults>>

(* SCHEDULED_JOB_TIMEOUT: the handler keeps running, and from here on the  *)
(* lock will not be released.                                              *)
HandlerTimesOut(p) ==
    /\ pc[p] = "handler"
    /\ clock >= frame[p].deadline
    /\ frame' = [frame EXCEPT ![p].fault = "timeout"]
    /\ Goto(p, "fail")
    /\ UNCHANGED <<clock, runs, created, lock, nextRunAt, enabled, handlers, lease, requests, faults>>

(* A handler whose call stopped waiting for it settles. *)
HandlerSettles(p) ==
    /\ \E r \in handlers[p] :
         /\ pc[p] = "handler" => r # frame[p].run
         /\ handlers' = [handlers EXCEPT ![p] = @ \ {r}]
    /\ UNCHANGED <<clock, runs, created, lock, nextRunAt, enabled, pc, frame, lease, requests, faults>>

(* The SUCCEEDED audit event. *)
Audited(r) == AuditAll \/ runs[r].kind = "manual"

(* markSucceeded: the run and the definition, in one transaction. *)
MarkSucceeded(p) ==
    /\ pc[p] = "succeed"
    /\ SetStatus(frame[p].run, "SUCCEEDED")
    /\ nextRunAt' = nextScheduledAt(frame[p].call.at, clock)
    /\ Goto(p, IF Audited(frame[p].run) THEN "audit" ELSE "release")
    /\ UNCHANGED <<clock, created, lock, enabled, frame, handlers, lease, requests, faults>>

EmitSucceeded(p) ==
    /\ pc[p] = "audit"
    /\ Goto(p, "release")
    /\ UNCHANGED <<clock, runs, created, lock, nextRunAt, enabled, frame, handlers, lease, requests, faults>>

(* markSucceeded or its audit event throws inside the try block: the catch *)
(* block treats the finished run as a transient failure.                   *)
SucceedThrows(p) ==
    /\ pc[p] \in {"succeed", "audit"}
    /\ Admits("fault")
    /\ faults' = faults + 1
    /\ frame' = [frame EXCEPT ![p].fault = "transient"]
    /\ Goto(p, "fail")
    /\ UNCHANGED <<clock, runs, created, lock, nextRunAt, enabled, handlers, lease, requests>>

(* The catch block: markFailed, by id.  The status is RETRYING with a      *)
(* retryAt, which nextRunAt follows, or FAILED.                            *)
MarkFailed(p) ==
    /\ pc[p] = "fail"
    /\ LET r == frame[p].run
           retryable == frame[p].fault # "terminal" /\ attemptsRemain(r)
           retryAt == clock + retryDelay(runs[r].attempt)
       IN  IF retryable
           THEN /\ runs' = [runs EXCEPT ![r].status = "RETRYING", ![r].retryAt = retryAt]
                /\ nextRunAt' = retryAt
           ELSE /\ runs' = [runs EXCEPT ![r].status = "FAILED", ![r].retryAt = 0]
                /\ nextRunAt' = nextScheduledAt(frame[p].call.at, clock)
    /\ Goto(p, "release")
    /\ UNCHANGED <<clock, created, lock, enabled, frame, handlers, lease, requests, faults>>

(* markFailed throws in the catch block: the run keeps its status, finally *)
(* still releases the lock, and the engine call ends after it.             *)
MarkFailedThrows(p) ==
    /\ pc[p] = "fail"
    /\ Admits("fault")
    /\ faults' = faults + 1
    /\ frame' = [frame EXCEPT ![p].phase = "single", ![p].todo = {}]
    /\ Goto(p, "release")
    /\ UNCHANGED <<clock, runs, created, lock, nextRunAt, enabled, handlers, lease, requests>>

(* So does the audit event that follows markFailed. *)
EmitFailedThrows(p) ==
    /\ pc[p] = "release"
    /\ frame[p].fault # "none"
    /\ frame[p].phase # "single"
    /\ Admits("fault")
    /\ faults' = faults + 1
    /\ frame' = [frame EXCEPT ![p].phase = "single", ![p].todo = {}]
    /\ UNCHANGED <<clock, runs, created, lock, nextRunAt, enabled, pc, handlers, lease, requests>>

(* Mutant: DEL key, whoever holds it. *)
DeleteAnyOwner(r) == lock' = NoLock

(* DEL key if it still holds this owner's token. *)
DeleteIfOwner(r) == lock' = IF lock.owner = r THEN NoLock ELSE lock

(* finally: a run that timed out keeps its lock until the TTL ends. *)
ReleaseLock(p) ==
    /\ pc[p] = "release"
    /\ IF frame[p].fault = "timeout" THEN UNCHANGED lock ELSE DeleteIfOwner(frame[p].run)
    /\ Return(p)
    /\ UNCHANGED <<clock, runs, created, nextRunAt, enabled, handlers, lease, requests, faults>>

(* locks.release(lock).catch(() => undefined) *)
ReleaseFails(p) ==
    /\ pc[p] = "release"
    /\ frame[p].fault # "timeout"
    /\ Admits("fault")
    /\ faults' = faults + 1
    /\ Return(p)
    /\ UNCHANGED <<clock, runs, created, lock, nextRunAt, enabled, handlers, lease, requests>>

-----------------------------------------------------------------------------
(* The environment *)

(* An await outside the try block throws.  With the lock taken (mark) the  *)
(* key stays until its TTL ends and the run stays QUEUED.                  *)
DependencyThrows(p) ==
    /\ pc[p] \in {"recover", "retries", "create", "acquire", "conflict", "mark"}
    /\ Throw(p)
    /\ UNCHANGED <<clock, runs, created, lock, nextRunAt, enabled, handlers, lease, requests>>

(* The application process dies with its engine call and its handlers. *)
Crash(p) ==
    /\ pc[p] # "idle" \/ handlers[p] # {}
    /\ Throw(p)
    /\ handlers' = [handlers EXCEPT ![p] = {}]
    /\ UNCHANGED <<clock, runs, created, lock, nextRunAt, enabled, lease, requests>>

Tick ==
    /\ clock < MaxClock
    /\ clock' = clock + 1
    /\ UNCHANGED <<runs, created, lock, nextRunAt, enabled, pc, frame, handlers, lease, requests, faults>>

-----------------------------------------------------------------------------

(* The steps an engine call takes by itself when its dependencies answer. *)
Step(p) ==
    \/ RecoverRun(p) \/ ListRetries(p) \/ ConsumeRetry(p) \/ ListDue(p)
    \/ CreateRun(p) \/ Acquire(p) \/ MarkLockConflict(p) \/ MarkRunning(p)
    \/ MarkSucceeded(p) \/ EmitSucceeded(p) \/ MarkFailed(p) \/ ReleaseLock(p)

HandlerStep(p) ==
    HandlerReturns(p) \/ HandlerThrows(p) \/ HandlerTimesOut(p) \/ HandlerSettles(p)

Environment(p) ==
    \/ AcquireReplyLost(p) \/ SucceedThrows(p) \/ MarkFailedThrows(p)
    \/ EmitFailedThrows(p) \/ ReleaseFails(p) \/ DependencyThrows(p) \/ Crash(p)

Next ==
    \/ \E p \in Process :
         StartTick(p) \/ StartCliTick(p) \/ RunNow(p) \/ RetryFailure(p)
           \/ Step(p) \/ HandlerStep(p) \/ Environment(p)
    \/ Pause \/ Resume \/ Tick

Spec == Init /\ [][Next]_vars

-----------------------------------------------------------------------------
(* Properties *)

(* Runs whose handler is executing somewhere, awaited or left behind. *)
Executing == UNION {handlers[p] : p \in Process}

(* Two handlers of the job execute at the same time only when the lock of  *)
(* one of them has outlived its TTL: timeouts, crashes, failed dependencies *)
(* and other processes' releases never let a second handler in earlier     *)
(* (acquire, release and releaseLock in runJob).                           *)
OverlapOnlyAfterExpiry ==
    \A r, s \in Executing : r # s => lease[r] <= clock \/ lease[s] <= clock

(* A run is retried automatically at most once, although recovery, the     *)
(* retry loop of every tick and a late markFailed may each ask for it      *)
(* (the idempotency keys of recoverAbandonedRuns and runDueJobs).          *)
OneAutomaticRetry ==
    \A r, s \in Existing :
        /\ runs[r].kind = "retry"
        /\ runs[s].kind = "retry"
        /\ runs[r].of = runs[s].of
        => r = s

(* Neither path of automatic retry exceeds job.maxAttempts, however        *)
(* recovery and failure interleave and whatever was retried by hand before. *)
AttemptsWithinBudget ==
    \A r \in Existing : runs[r].kind = "retry" => runs[r].attempt <= MaxAttempts

(* Recovery never abandons a run before its timeout is over, although it   *)
(* acts on a list read earlier, by id, while the run's own call goes on    *)
(* (recoverAbandonedRuns against markSucceeded and markFailed).            *)
HealthyRunsNotAbandoned ==
    \A r \in Existing :
        runs[r].status = "ABANDONED" => runs[r].startedAt + Timeout < clock

(* A run the lock admitted has executed, or still does somewhere.          *)
HasStarted(r) == runs[r].status \notin {"NONE", "QUEUED", "SKIPPED"}

executionPhase == [r \in RunId |->
    IF ~HasStarted(r) THEN "new"
    ELSE IF r \notin Executing THEN "over"
    ELSE IF clock < lease[r] THEN "leased" ELSE "unleased"]

automaticRetries == {<<runs[s].of, s>> : s \in {t \in Existing : runs[t].kind = "retry"}}

Executions == INSTANCE JobExecutions
    WITH Runs <- RunId, phase <- executionPhase, retries <- automaticRetries

(* Whatever processes, crashes, timeouts and ticks lie underneath, runs    *)
(* execute at most once, exclude each other while their lease lasts and    *)
(* are retried automatically once, and only after they had started         *)
(* (runJob, recoverAbandonedRuns, runDueJobs and the idempotency keys).    *)
ImplementsExecutions == Executions!Spec

(***************************************************************************)
(* Fairness: a pending await eventually settles (Step, HandlerStep of an   *)
(* awaited handler), time passes, and the cron container posts a tick to   *)
(* an idle process again and again.  Nothing is assumed of administrators  *)
(* or faults.                                                              *)
(***************************************************************************)
Awaited(p) == HandlerReturns(p) \/ HandlerThrows(p) \/ HandlerTimesOut(p)

Fairness ==
    /\ WF_vars(Tick)
    /\ \A p \in Process :
         WF_vars(Step(p)) /\ WF_vars(Awaited(p)) /\ WF_vars(StartTick(p))

FairSpec == Spec /\ Fairness

(* A run does not stay RUNNING: whatever crashed or threw, its call ends   *)
(* it or a later tick's recovery does.  StartedEarly keeps to the runs     *)
(* that the bounded clock lets time out.                                   *)
StartedEarly(r) == runs[r].startedAt + Timeout + 1 < MaxClock
RunningEnds ==
    \A r \in RunId :
        (runs[r].status = "RUNNING" /\ StartedEarly(r)) ~> (runs[r].status # "RUNNING")
=============================================================================
