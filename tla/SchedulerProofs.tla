--------------------------- MODULE SchedulerProofs ---------------------------
(***************************************************************************)
(* Theorems about the scheduler engine for any set of processes, any       *)
(* timeout, lock TTL, cadence and attempt limit, and any bounds.           *)
(***************************************************************************)
EXTENDS Scheduler, TLAPS

-----------------------------------------------------------------------------
(* The inductive invariant.  TypeOK alone is not inductive: a run that is  *)
(* marked by id must be a row that exists.                                 *)

(* Where runJob works on the row it created. *)
InRun == {"acquire", "conflict", "mark", "handler", "succeed", "audit", "fail", "release"}

CallsOwnRows ==
    /\ \A p \in Process : pc[p] \in InRun => frame[p].run \in Existing
    /\ \A p \in Process : frame[p].todo \subseteq Existing
    /\ \A p \in Process : handlers[p] \subseteq Existing

(* No two engine calls work on the same row. *)
RowsNotShared ==
    \A p, q \in Process :
        pc[p] \in InRun /\ pc[q] \in InRun /\ frame[p].run = frame[q].run => p = q

(* While the call of a pending handler goes on, it is the handler's own    *)
(* process that makes it, and it awaits the handler or has timed out: so   *)
(* a call that will release the lock has no handler left.                  *)
HandlersAccounted ==
    \A p, q \in Process :
        pc[q] \in InRun /\ frame[q].run \in handlers[p]
            => /\ p = q
               /\ \/ pc[q] = "handler"
                  \/ pc[q] \in {"fail", "release"} /\ frame[q].fault = "timeout"

(* A run that executes, or is about to, holds the lock until its lease ends. *)
Leased == {r \in RunId : \/ \E p \in Process : r \in handlers[p]
                         \/ \E p \in Process : pc[p] = "mark" /\ r = frame[p].run}

LeaseHoldsLock ==
    \A r \in Leased : clock < lease[r] => lock = [owner |-> r, until |-> lease[r]]

IInv == TypeOK /\ CallsOwnRows /\ RowsNotShared /\ HandlersAccounted /\ LeaseHoldsLock

-----------------------------------------------------------------------------
(* Type correctness *)

(* The empty local state of an engine call is well typed. *)
LEMMA NoFrameType == NoFrame \in Frame
BY DEF NoFrame, Frame, NoCall, Call, KeyKind, RandomKind, Phase, Trigger, Fault

(* The retry of a row is a well-typed call. *)
LEMMA RetryOfType ==
    ASSUME NEW r \in Nat, NEW now \in Nat
    PROVE  RetryOf(r, now) \in Call
BY DEF RetryOf, Call, KeyKind, UniqueKind

(* Changing the status of a row by id keeps the rows well typed. *)
LEMMA SetStatusType ==
    ASSUME runs \in [RunId -> Run], NEW r \in RunId, NEW s \in Status,
           SetStatus(r, s)
    PROVE  runs' \in [RunId -> Run]
BY DEF SetStatus, Run

(* Marking a row RUNNING, RETRYING or FAILED keeps it well typed. *)
LEMMA MarkedRunType ==
    ASSUME NEW run \in Run, NEW status \in Status, NEW time \in Nat
    PROVE  /\ [run EXCEPT !.status = status, !.startedAt = time] \in Run
           /\ [run EXCEPT !.status = status, !.retryAt = time] \in Run
BY DEF Run

(* The windows and the next run are natural numbers. *)
LEMMA WindowType ==
    ASSUME NEW now \in Nat
    PROVE  scheduledWindow(now) \in Nat
<1>1. now % Cadence \in 0..(Cadence - 1) BY SchedulerAssumption
<1>2. now % Cadence <= now BY SchedulerAssumption
<1> QED BY <1>1, <1>2, SchedulerAssumption DEF scheduledWindow

(* The bodies that several actions share keep pc and frame well typed. *)
LEMMA FinishType ==
    ASSUME TypeOK, NEW p \in Process, Finish(p)
    PROVE  pc' \in [Process -> PC] /\ frame' \in [Process -> Frame]
BY NoFrameType DEF TypeOK, Finish, Goto, PC

LEMMA ReturnType ==
    ASSUME TypeOK, NEW p \in Process, Return(p)
    PROVE  pc' \in [Process -> PC] /\ frame' \in [Process -> Frame]
<1>1. CASE frame[p].phase = "single"
  BY <1>1, FinishType DEF Return
<1>2. CASE frame[p].phase # "single"
  <2>1. frame[p] \in Frame BY DEF TypeOK
  <2>2. [NoFrame EXCEPT !.phase = frame[p].phase, !.trigger = frame[p].trigger,
                        !.now = frame[p].now, !.todo = frame[p].todo] \in Frame
    BY <2>1, NoFrameType DEF Frame
  <2>3. frame[p].phase \in PC BY <1>2, <2>1 DEF Frame, Phase, PC
  <2> QED BY <1>2, <2>2, <2>3 DEF Return, Goto, TypeOK
<1> QED BY <1>1, <1>2

LEMMA CallRunJobType ==
    ASSUME TypeOK, NEW p \in Process, NEW phase \in Phase, NEW call \in Call,
           CallRunJob(p, phase, call)
    PROVE  pc' \in [Process -> PC] /\ frame' \in [Process -> Frame]
<1>1. [frame[p] EXCEPT !.phase = phase, !.call = call] \in Frame
  BY DEF TypeOK, Frame
<1> QED BY <1>1 DEF CallRunJob, Goto, TypeOK, PC

LEMMA StartRunDueJobsType ==
    ASSUME TypeOK, NEW p \in Process, NEW trigger \in Trigger,
           StartRunDueJobs(p, trigger)
    PROVE  pc' \in [Process -> PC] /\ frame' \in [Process -> Frame]
<1>1. listRunning(clock) \in SUBSET RunId
  BY SchedulerAssumption DEF TypeOK, listRunning, Existing, RunId
<1>2. [NoFrame EXCEPT !.phase = "recover", !.trigger = trigger, !.now = clock,
                      !.todo = listRunning(clock)] \in Frame
  BY <1>1, NoFrameType DEF TypeOK, Frame, Phase
<1> QED BY <1>2 DEF StartRunDueJobs, Goto, TypeOK, PC

LEMMA SetFaultType ==
    ASSUME TypeOK, NEW p \in Process, NEW f \in Fault,
           frame' = [frame EXCEPT ![p].fault = f]
    PROVE  frame' \in [Process -> Frame]
<1>1. [frame[p] EXCEPT !.fault = f] \in Frame BY DEF TypeOK, Frame
<1> QED BY <1>1 DEF TypeOK

LEMMA EndLoopType ==
    ASSUME TypeOK, NEW p \in Process,
           frame' = [frame EXCEPT ![p].phase = "single", ![p].todo = {}]
    PROVE  frame' \in [Process -> Frame]
<1>1. [frame[p] EXCEPT !.phase = "single", !.todo = {}] \in Frame
  BY DEF TypeOK, Frame, Phase
<1> QED BY <1>1 DEF TypeOK

LEMMA TakeLockType ==
    ASSUME TypeOK, NEW r \in RunId, TakeLock(r)
    PROVE  lock' \in [owner : Nat, until : Nat] /\ lease' \in [RunId -> Nat]
<1>1. r \in Nat /\ clock + LockSeconds \in Nat
  BY SchedulerAssumption DEF RunId, TypeOK
<1> QED BY <1>1 DEF TakeLock, TypeOK

(* A row that createRun inserts is well typed. *)
LEMMA NewRunType ==
    ASSUME TypeOK, NEW call \in Call
    PROVE  /\ NewRun(call) \in Run
           /\ NewRun(call).attempt \in Nat \ {0}
<1> DEFINE attempt == IF parentOf(call) \in Existing
                      THEN runs[parentOf(call)].attempt + 1 ELSE 1
<1>1. attempt \in Nat \ {0}
  <2>1. CASE parentOf(call) \in Existing
    <3>1. parentOf(call) \in RunId BY <2>1, SchedulerAssumption DEF Existing, RunId, TypeOK
    <3>2. runs[parentOf(call)].attempt \in Nat BY <3>1 DEF TypeOK, Run
    <3> QED BY <2>1, <3>2
  <2>2. CASE parentOf(call) \notin Existing BY <2>2
  <2> QED BY <2>1, <2>2
<1>2. NewRun(call) = [status |-> "QUEUED", kind |-> call.kind, of |-> call.of,
                      attempt |-> attempt, dry |-> call.dry,
                      startedAt |-> 0, retryAt |-> 0]
  <2>1. NewRun(call) = [NoRun EXCEPT !.status = "QUEUED", !.kind = call.kind,
                            !.of = call.of, !.dry = call.dry, !.attempt = attempt]
    BY DEF NewRun
  <2> HIDE DEF attempt
  <2> QED BY <2>1 DEF NoRun
<1> HIDE DEF attempt
<1>3. call.kind \in KeyKind /\ call.of \in Nat /\ call.dry \in BOOLEAN BY DEF Call
<1>4. NewRun(call).attempt = attempt BY <1>2
<1> QED BY <1>1, <1>2, <1>3, <1>4 DEF Run, Status

(* Every step of the engine, its handlers and its environment keeps the    *)
(* variables well typed.                                                   *)
LEMMA TypeStep == TypeOK /\ CallsOwnRows /\ [Next]_vars => TypeOK'
<1> SUFFICES ASSUME TypeOK, CallsOwnRows, [Next]_vars PROVE TypeOK'
  OBVIOUS
<1>0. \A p \in Process : pc[p] \in InRun => frame[p].run \in RunId
  BY SchedulerAssumption DEF CallsOwnRows, Existing, RunId, TypeOK
<1> USE SchedulerAssumption
<1>1. CASE UNCHANGED vars
  BY <1>1 DEF vars, TypeOK
<1>2. ASSUME NEW p \in Process, StartTick(p) \/ StartCliTick(p) PROVE TypeOK'
  <2>1. PICK trigger \in Trigger : StartRunDueJobs(p, trigger)
    BY <1>2 DEF StartTick, StartCliTick, Trigger
  <2>2. frame' \in [Process -> Frame] /\ pc' \in [Process -> PC]
    BY <2>1, StartRunDueJobsType
  <2>3. requests' \in Nat BY <1>2 DEF StartTick, StartCliTick, Request, TypeOK
  <2> QED BY <2>1, <2>2, <2>3 DEF StartRunDueJobs, TypeOK
<1>3. ASSUME NEW p \in Process, RunNow(p) PROVE TypeOK'
  <2>1. PICK kind \in {"manual", "cli"}, dry \in BOOLEAN :
          CallRunJob(p, "single", [kind |-> kind, of |-> 0, at |-> clock, dry |-> dry])
    BY <1>3 DEF RunNow
  <2>2. [kind |-> kind, of |-> 0, at |-> clock, dry |-> dry] \in Call
    BY DEF TypeOK, Call, KeyKind, RandomKind
  <2>3. frame' \in [Process -> Frame] /\ pc' \in [Process -> PC]
    BY <2>1, <2>2, CallRunJobType DEF Phase
  <2> QED BY <1>3, <2>3 DEF RunNow, Request, TypeOK
<1>4. ASSUME NEW p \in Process, RetryFailure(p) PROVE TypeOK'
  <2>1. PICK r \in Existing : CallRunJob(p, "single",
            [kind |-> "manual-retry", of |-> r, at |-> clock, dry |-> FALSE])
    BY <1>4 DEF RetryFailure
  <2>2. [kind |-> "manual-retry", of |-> r, at |-> clock, dry |-> FALSE] \in Call
    BY DEF TypeOK, Call, KeyKind, RandomKind, Existing
  <2>3. frame' \in [Process -> Frame] /\ pc' \in [Process -> PC]
    BY <2>1, <2>2, CallRunJobType DEF Phase
  <2> QED BY <1>4, <2>3 DEF RetryFailure, Request, TypeOK
<1>5. ASSUME NEW p \in Process, RecoverRun(p) PROVE TypeOK'
  <2> DEFINE rest(r) == [frame EXCEPT ![p].todo = @ \ {r}]
  <2>1. PICK r \in frame[p].todo :
          /\ SetStatus(r, "ABANDONED")
          /\ \/ Goto(p, "create") /\ frame' = [rest(r) EXCEPT ![p].call = RetryOf(r, frame[p].now)]
             \/ UNCHANGED pc /\ frame' = rest(r)
    BY <1>5 DEF RecoverRun
  <2>2. frame[p] \in Frame /\ r \in RunId /\ frame[p].now \in Nat
    BY DEF TypeOK, Frame
  <2>3. RetryOf(r, frame[p].now) \in Call BY <2>2, RetryOfType DEF RunId
  <2>4. rest(r) \in [Process -> Frame]
    <3>1. [frame[p] EXCEPT !.todo = @ \ {r}] \in Frame BY <2>2 DEF Frame
    <3> QED BY <3>1 DEF TypeOK
  <2>5. [rest(r) EXCEPT ![p].call = RetryOf(r, frame[p].now)] \in [Process -> Frame]
    <3>1. [rest(r)[p] EXCEPT !.call = RetryOf(r, frame[p].now)] \in Frame
      BY <2>3, <2>4 DEF Frame
    <3> HIDE DEF rest
    <3> QED BY <3>1, <2>4
  <2>6. frame' \in [Process -> Frame] /\ pc' \in [Process -> PC]
    <3> HIDE DEF rest
    <3> QED BY <2>1, <2>4, <2>5 DEF Goto, TypeOK, PC
  <2>7. runs' \in [RunId -> Run] BY <2>1, <2>2, SetStatusType DEF TypeOK, Status
  <2> QED BY <1>5, <2>6, <2>7 DEF RecoverRun, TypeOK
<1>6. ASSUME NEW p \in Process, ListRetries(p) PROVE TypeOK'
  <2>1. frame[p] \in Frame BY DEF TypeOK
  <2>2. listDueRetries(frame[p].now) \in SUBSET RunId
    BY DEF listDueRetries, Existing, RunId, TypeOK
  <2>3. [frame[p] EXCEPT !.phase = "retries", !.todo = listDueRetries(frame[p].now)] \in Frame
    BY <2>1, <2>2 DEF Frame, Phase
  <2>4. frame' \in [Process -> Frame] /\ pc' \in [Process -> PC]
    BY <1>6, <2>3 DEF ListRetries, Goto, TypeOK, PC
  <2> QED BY <1>6, <2>4 DEF ListRetries, TypeOK
<1>7. ASSUME NEW p \in Process, ConsumeRetry(p) PROVE TypeOK'
  <2> DEFINE rest(r) == [frame EXCEPT ![p].todo = @ \ {r}]
  <2>1. PICK r \in frame[p].todo :
          \/ /\ SetStatus(r, "FAILED")
             /\ Goto(p, "create")
             /\ frame' = [rest(r) EXCEPT ![p].call = RetryOf(r, frame[p].now)]
          \/ UNCHANGED <<pc, runs>> /\ frame' = rest(r)
    BY <1>7 DEF ConsumeRetry
  <2>2. frame[p] \in Frame /\ r \in RunId /\ frame[p].now \in Nat
    BY DEF TypeOK, Frame
  <2>3. RetryOf(r, frame[p].now) \in Call BY <2>2, RetryOfType DEF RunId
  <2>4. rest(r) \in [Process -> Frame]
    <3>1. [frame[p] EXCEPT !.todo = @ \ {r}] \in Frame BY <2>2 DEF Frame
    <3> QED BY <3>1 DEF TypeOK
  <2>5. [rest(r) EXCEPT ![p].call = RetryOf(r, frame[p].now)] \in [Process -> Frame]
    <3>1. [rest(r)[p] EXCEPT !.call = RetryOf(r, frame[p].now)] \in Frame
      BY <2>3, <2>4 DEF Frame
    <3> HIDE DEF rest
    <3> QED BY <3>1, <2>4
  <2>6. frame' \in [Process -> Frame] /\ pc' \in [Process -> PC]
    <3> HIDE DEF rest
    <3> QED BY <2>1, <2>4, <2>5 DEF Goto, TypeOK, PC
  <2>7. runs' \in [RunId -> Run] BY <2>1, <2>2, SetStatusType DEF TypeOK, Status
  <2> QED BY <1>7, <2>6, <2>7 DEF ConsumeRetry, TypeOK
<1>8. ASSUME NEW p \in Process, ListDue(p) PROVE TypeOK'
  <2> DEFINE window == scheduledWindow(frame[p].now)
             call == [kind |-> frame[p].trigger, of |-> window, at |-> window, dry |-> FALSE]
  <2>1. CallRunJob(p, "single", call) \/ Finish(p) BY <1>8 DEF ListDue
  <2>2. frame[p].now \in Nat /\ frame[p].trigger \in Trigger BY DEF TypeOK, Frame
  <2>3. call \in Call
    <3>1. frame[p].trigger \in KeyKind
      BY <2>2 DEF Trigger, KeyKind, UniqueKind, RandomKind
    <3> QED BY <2>2, <3>1, WindowType DEF Call
  <2>4. frame' \in [Process -> Frame] /\ pc' \in [Process -> PC]
    BY <2>1, <2>3, CallRunJobType, FinishType DEF Phase
  <2> QED BY <1>8, <2>4 DEF ListDue, TypeOK
<1>9. ASSUME NEW p \in Process, CreateRun(p) PROVE TypeOK'
  <2>1. CASE Return(p) /\ UNCHANGED <<runs, created>>
    BY <1>9, <2>1, ReturnType DEF CreateRun, TypeOK
  <2>2. CASE /\ created + 1 <= MaxRun
             /\ created' = created + 1
             /\ runs' = [runs EXCEPT ![created + 1] = NewRun(frame[p].call)]
             /\ frame' = [frame EXCEPT ![p].run = created + 1]
             /\ Goto(p, "acquire")
    <3>1. frame[p] \in Frame /\ frame[p].call \in Call /\ created + 1 \in Nat
      BY DEF TypeOK, Frame
    <3>2. runs' \in [RunId -> Run] BY <2>2, <3>1, NewRunType DEF TypeOK
    <3>3. [frame[p] EXCEPT !.run = created + 1] \in Frame BY <3>1 DEF Frame
    <3>4. frame' \in [Process -> Frame] /\ pc' \in [Process -> PC]
      BY <2>2, <3>3 DEF Goto, TypeOK, PC
    <3> QED BY <1>9, <2>2, <3>2, <3>4 DEF CreateRun, TypeOK
  <2> QED BY <1>9, <2>1, <2>2 DEF CreateRun, TypeOK
<1>10. ASSUME NEW p \in Process, Acquire(p) PROVE TypeOK'
  <2>1. frame[p] \in Frame /\ frame[p].run \in RunId
    BY <1>0, <1>10 DEF TypeOK, Acquire, InRun
  <2>2. CASE TakeLock(frame[p].run) /\ frame' = [frame EXCEPT ![p].from = clock] /\ Goto(p, "mark")
    <3>1. [frame[p] EXCEPT !.from = clock] \in Frame BY <2>1 DEF Frame, TypeOK
    <3>2. frame' \in [Process -> Frame] /\ pc' \in [Process -> PC]
      BY <2>2, <3>1 DEF Goto, TypeOK, PC
    <3>3. lock' \in [owner : Nat, until : Nat] /\ lease' \in [RunId -> Nat]
      BY <2>1, <2>2, TakeLockType
    <3> QED BY <1>10, <3>2, <3>3 DEF Acquire, TypeOK
  <2>3. CASE Goto(p, "conflict") /\ UNCHANGED <<lock, lease, frame>>
    BY <1>10, <2>3 DEF Acquire, Goto, TypeOK, PC
  <2> QED BY <1>10, <2>2, <2>3 DEF Acquire
<1>11. ASSUME NEW p \in Process, MarkLockConflict(p) PROVE TypeOK'
  <2>1. runs' \in [RunId -> Run]
    BY <1>0, <1>11, SetStatusType DEF MarkLockConflict, TypeOK, Status, InRun
  <2> QED BY <1>11, <2>1, ReturnType DEF MarkLockConflict, TypeOK
<1>12. ASSUME NEW p \in Process, MarkRunning(p) PROVE TypeOK'
  <2>1. frame[p] \in Frame /\ frame[p].run \in RunId
    BY <1>0, <1>12 DEF TypeOK, MarkRunning, InRun
  <2>2. PICK startedAt \in frame[p].from .. clock :
          runs' = [runs EXCEPT ![frame[p].run].status = "RUNNING",
                               ![frame[p].run].startedAt = startedAt]
    BY <1>12 DEF MarkRunning
  <2>3. startedAt \in Nat BY <2>1 DEF Frame, TypeOK
  <2>4. runs' \in [RunId -> Run]
    <3>1. runs[frame[p].run] \in Run /\ "RUNNING" \in Status
      BY <2>1 DEF TypeOK, Status
    <3>2. [runs[frame[p].run] EXCEPT !.status = "RUNNING", !.startedAt = startedAt] \in Run
      BY <2>3, <3>1, MarkedRunType
    <3> QED BY <2>1, <2>2, <3>2 DEF TypeOK
  <2>5. [frame[p] EXCEPT !.deadline = clock + Timeout] \in Frame
    BY <2>1 DEF Frame, TypeOK
  <2>6. frame' \in [Process -> Frame] /\ pc' \in [Process -> PC]
    BY <1>12, <2>5 DEF MarkRunning, Goto, TypeOK, PC
  <2>7. handlers' \in [Process -> SUBSET RunId]
    BY <1>12, <2>1 DEF MarkRunning, TypeOK
  <2> QED BY <1>12, <2>4, <2>6, <2>7 DEF MarkRunning, TypeOK
<1>13. ASSUME NEW p \in Process, HandlerReturns(p) PROVE TypeOK'
  BY <1>13 DEF HandlerReturns, Goto, TypeOK, PC
<1>14. ASSUME NEW p \in Process, HandlerThrows(p) PROVE TypeOK'
  <2>1. PICK fault \in Fault : frame' = [frame EXCEPT ![p].fault = fault]
    BY <1>14 DEF HandlerThrows, Fault
  <2>2. frame' \in [Process -> Frame] BY <2>1, SetFaultType DEF TypeOK
  <2>3. pc' \in [Process -> PC] /\ handlers' \in [Process -> SUBSET RunId]
    BY <1>14 DEF HandlerThrows, Goto, TypeOK, PC
  <2> QED BY <1>14, <2>2, <2>3 DEF HandlerThrows, TypeOK
<1>15. ASSUME NEW p \in Process, HandlerTimesOut(p) PROVE TypeOK'
  <2>1. frame' \in [Process -> Frame] /\ pc' \in [Process -> PC]
    BY <1>15, SetFaultType DEF HandlerTimesOut, Goto, TypeOK, PC, Fault
  <2> QED BY <1>15, <2>1 DEF HandlerTimesOut, TypeOK
<1>16. ASSUME NEW p \in Process, HandlerSettles(p) PROVE TypeOK'
  BY <1>16 DEF HandlerSettles, TypeOK
<1>17. ASSUME NEW p \in Process, MarkSucceeded(p) PROVE TypeOK'
  <2>1. runs' \in [RunId -> Run]
    BY <1>0, <1>17, SetStatusType DEF MarkSucceeded, TypeOK, Status, InRun
  <2>2. frame[p].call.at \in Nat BY DEF TypeOK, Frame, Call
  <2>3. nextRunAt' \in Nat BY <1>17, <2>2 DEF MarkSucceeded, nextScheduledAt, TypeOK
  <2>4. pc' \in [Process -> PC] BY <1>17 DEF MarkSucceeded, Goto, TypeOK, PC
  <2> QED BY <1>17, <2>1, <2>3, <2>4 DEF MarkSucceeded, TypeOK
<1>18. ASSUME NEW p \in Process, EmitSucceeded(p) PROVE TypeOK'
  BY <1>18 DEF EmitSucceeded, Goto, TypeOK, PC
<1>19. ASSUME NEW p \in Process, MarkFailed(p) PROVE TypeOK'
  <2> DEFINE r == frame[p].run
             retryAt == clock + retryDelay(runs[r].attempt)
  <2>1. r \in RunId BY <1>0, <1>19 DEF MarkFailed, InRun
  <2>2. runs[r].attempt \in Nat /\ frame[p].call.at \in Nat
    BY <2>1 DEF TypeOK, Run, Frame, Call
  <2>a. runs[r] \in Run /\ "RETRYING" \in Status /\ "FAILED" \in Status
    BY <2>1 DEF TypeOK, Status
  <2>b. runs \in [RunId -> Run] /\ clock \in Nat BY DEF TypeOK
  <2>3. CASE /\ attemptsRemain(r)
             /\ runs' = [runs EXCEPT ![r].status = "RETRYING", ![r].retryAt = retryAt]
             /\ nextRunAt' = retryAt
    <3>1. retryAt \in Nat
      BY <2>2, <2>3, RetryDelayAssumption DEF attemptsRemain, TypeOK
    <3> HIDE DEF retryAt
    <3>2. [runs[r] EXCEPT !.status = "RETRYING", !.retryAt = retryAt] \in Run
      BY <2>a, <3>1, MarkedRunType
    <3>3. runs' \in [RunId -> Run] /\ nextRunAt' \in Nat
      BY <2>1, <2>3, <2>b, <3>1, <3>2
    <3> QED BY <1>19, <3>3 DEF MarkFailed, Goto, TypeOK, PC
  <2>4. CASE /\ runs' = [runs EXCEPT ![r].status = "FAILED", ![r].retryAt = 0]
             /\ nextRunAt' = nextScheduledAt(frame[p].call.at, clock)
    <3>1. [runs[r] EXCEPT !.status = "FAILED", !.retryAt = 0] \in Run
      BY <2>a, MarkedRunType
    <3>2. runs' \in [RunId -> Run] BY <2>1, <2>4, <2>b, <3>1
    <3>3. nextRunAt' \in Nat BY <2>2, <2>4, <2>b DEF nextScheduledAt
    <3> QED BY <3>3, <1>19, <3>2 DEF MarkFailed, Goto, TypeOK, PC
  <2> QED BY <1>19, <2>3, <2>4 DEF MarkFailed
<1>20. ASSUME NEW p \in Process, ReleaseLock(p) PROVE TypeOK'
  <2>1. lock' \in [owner : Nat, until : Nat]
    BY <1>20 DEF ReleaseLock, DeleteIfOwner, NoLock, TypeOK
  <2> QED BY <1>20, <2>1, ReturnType DEF ReleaseLock, TypeOK
<1>21. ASSUME NEW p \in Process, ReleaseFails(p) PROVE TypeOK'
  BY <1>21, ReturnType DEF ReleaseFails, TypeOK
<1>22. ASSUME NEW p \in Process, AcquireReplyLost(p) PROVE TypeOK'
  <2>1. frame[p].run \in RunId BY <1>0, <1>22 DEF AcquireReplyLost, InRun
  <2> QED BY <1>22, <2>1, FinishType, TakeLockType DEF AcquireReplyLost, Throw, TypeOK
<1>23. ASSUME NEW p \in Process, SucceedThrows(p) PROVE TypeOK'
  <2>1. frame' \in [Process -> Frame] /\ pc' \in [Process -> PC]
    BY <1>23, SetFaultType DEF SucceedThrows, Goto, TypeOK, PC, Fault
  <2> QED BY <1>23, <2>1 DEF SucceedThrows, TypeOK
<1>24. ASSUME NEW p \in Process, MarkFailedThrows(p) PROVE TypeOK'
  <2>1. frame' \in [Process -> Frame] /\ pc' \in [Process -> PC]
    BY <1>24, EndLoopType DEF MarkFailedThrows, Goto, TypeOK, PC
  <2> QED BY <1>24, <2>1 DEF MarkFailedThrows, TypeOK
<1>25. ASSUME NEW p \in Process, EmitFailedThrows(p) PROVE TypeOK'
  <2>1. frame' \in [Process -> Frame] BY <1>25, EndLoopType DEF EmitFailedThrows
  <2> QED BY <1>25, <2>1 DEF EmitFailedThrows, TypeOK
<1>26. ASSUME NEW p \in Process, DependencyThrows(p) PROVE TypeOK'
  BY <1>26, FinishType DEF DependencyThrows, Throw, TypeOK
<1>27. ASSUME NEW p \in Process, Crash(p) PROVE TypeOK'
  BY <1>27, FinishType DEF Crash, Throw, TypeOK
<1>28. CASE Pause
  <2>1. enabled' \in BOOLEAN BY <1>28 DEF Pause
  <2>2. requests' \in Nat BY <1>28 DEF Pause, Request, TypeOK
  <2> QED BY <1>28, <2>1, <2>2 DEF Pause, TypeOK
<1>29. CASE Resume BY <1>29 DEF Resume, Request, TypeOK
<1>30. CASE Tick BY <1>30 DEF Tick, TypeOK
<1> QED
  BY <1>1, <1>2, <1>3, <1>4, <1>5, <1>6, <1>7, <1>8, <1>9, <1>10, <1>11, <1>12,
     <1>13, <1>14, <1>15, <1>16, <1>17, <1>18, <1>19, <1>20, <1>21, <1>22,
     <1>23, <1>24, <1>25, <1>26, <1>27, <1>28, <1>29, <1>30
  DEF Next, Step, HandlerStep, Environment

-----------------------------------------------------------------------------
(* Where a step leaves the calls *)

(* A step of p changes no other process's call. *)
OthersKept(p) ==
    \A q \in Process \ {p} : pc'[q] = pc[q] /\ frame'[q] = frame[q]

(* Steps after which p is not inside runJob's part that owns a row. *)
LeavesRun(p) ==
    \/ StartTick(p) \/ StartCliTick(p) \/ RunNow(p) \/ RetryFailure(p) \/ RecoverRun(p)
    \/ ListRetries(p) \/ ConsumeRetry(p) \/ ListDue(p) \/ MarkLockConflict(p)
    \/ ReleaseLock(p) \/ ReleaseFails(p) \/ AcquireReplyLost(p)
    \/ DependencyThrows(p) \/ Crash(p)

(* Steps after which p is still, or again, in runJob with the same row. *)
KeepsRun(p) ==
    \/ Acquire(p) \/ MarkRunning(p) \/ HandlerReturns(p) \/ HandlerThrows(p)
    \/ HandlerTimesOut(p) \/ MarkSucceeded(p) \/ EmitSucceeded(p)
    \/ SucceedThrows(p) \/ MarkFailed(p) \/ MarkFailedThrows(p) \/ EmitFailedThrows(p)

LEMMA FinishShape ==
    ASSUME TypeOK, NEW p \in Process, Finish(p)
    PROVE  OthersKept(p) /\ pc'[p] \notin InRun /\ frame'[p].todo = {}
BY DEF TypeOK, Finish, Goto, OthersKept, InRun, NoFrame

LEMMA ReturnShape ==
    ASSUME TypeOK, NEW p \in Process, Return(p)
    PROVE  OthersKept(p) /\ pc'[p] \notin InRun /\ frame'[p].todo \subseteq frame[p].todo
<1>1. CASE frame[p].phase = "single"
  BY <1>1, FinishShape DEF Return
<1>2. CASE frame[p].phase # "single"
  <2>1. frame[p].phase \in {"recover", "retries"}
    BY <1>2 DEF TypeOK, Frame, Phase
  <2>2. frame'[p].todo = frame[p].todo
    BY <1>2 DEF Return, TypeOK, NoFrame
  <2> QED BY <1>2, <2>1, <2>2 DEF Return, Goto, TypeOK, InRun, OthersKept
<1> QED BY <1>1, <1>2

LEMMA CallRunJobShape ==
    ASSUME TypeOK, NEW p \in Process, NEW phase, NEW call, CallRunJob(p, phase, call)
    PROVE  OthersKept(p) /\ pc'[p] \notin InRun /\ frame'[p].todo = frame[p].todo
<1>1. frame[p] \in Frame BY DEF TypeOK
<1>2. frame'[p] = [frame[p] EXCEPT !.phase = phase, !.call = call]
  BY DEF CallRunJob, TypeOK
<1>3. frame'[p].todo = frame[p].todo BY <1>1, <1>2 DEF Frame
<1> QED BY <1>3 DEF CallRunJob, Goto, OthersKept, TypeOK, InRun

(* Taking a row off the list of a loop, and calling runJob for it or not. *)
LEMMA RestShape ==
    ASSUME TypeOK, NEW p \in Process, NEW r, NEW call,
           LET rest == [frame EXCEPT ![p].todo = @ \ {r}]
           IN  frame' = rest \/ frame' = [rest EXCEPT ![p].call = call]
    PROVE  /\ \A q \in Process \ {p} : frame'[q] = frame[q]
           /\ frame'[p].todo \subseteq frame[p].todo
<1>1. frame[p] \in Frame BY DEF TypeOK
<1> DEFINE rest == [frame EXCEPT ![p].todo = @ \ {r}]
<1>2. rest[p].todo = frame[p].todo \ {r} /\ rest[p] \in Frame
  <2>1. rest[p] = [frame[p] EXCEPT !.todo = @ \ {r}] BY DEF TypeOK
  <2> HIDE DEF rest
  <2> QED BY <1>1, <2>1 DEF Frame
<1>3. rest \in [Process -> Frame] /\ \A q \in Process \ {p} : rest[q] = frame[q]
  BY <1>2 DEF TypeOK
<1>4. CASE frame' = rest BY <1>2, <1>3, <1>4
<1>5. CASE frame' = [rest EXCEPT ![p].call = call]
  <2> HIDE DEF rest
  <2>1. frame'[p] = [rest[p] EXCEPT !.call = call] BY <1>3, <1>5
  <2>2. frame'[p].todo = rest[p].todo BY <1>2, <2>1 DEF Frame
  <2>3. \A q \in Process \ {p} : frame'[q] = rest[q] BY <1>3, <1>5
  <2> QED BY <1>2, <1>3, <2>2, <2>3
<1> QED BY <1>4, <1>5

(* Every step that leaves runJob keeps the other calls as they are. *)
LEMMA LeavesRunShape ==
    ASSUME TypeOK, CallsOwnRows, NEW p \in Process, LeavesRun(p)
    PROVE  OthersKept(p) /\ pc'[p] \notin InRun /\ frame'[p].todo \subseteq Existing
<1>0. frame[p].todo \subseteq Existing BY DEF CallsOwnRows
<1>1. CASE StartTick(p) \/ StartCliTick(p)
  <2>1. PICK trigger : StartRunDueJobs(p, trigger)
    BY <1>1 DEF StartTick, StartCliTick
  <2>2. frame'[p].todo = listRunning(clock)
    <3>1. frame'[p] = [NoFrame EXCEPT !.phase = "recover", !.trigger = trigger,
                                     !.now = clock, !.todo = listRunning(clock)]
      BY <2>1 DEF StartRunDueJobs, TypeOK
    <3> QED BY <3>1 DEF NoFrame
  <2>3. OthersKept(p) /\ pc'[p] \notin InRun
    BY <2>1 DEF StartRunDueJobs, Goto, TypeOK, OthersKept, InRun
  <2> QED BY <2>2, <2>3 DEF listRunning
<1>2. CASE RunNow(p) BY <1>0, <1>2, CallRunJobShape DEF RunNow
<1>3. CASE RetryFailure(p) BY <1>0, <1>3, CallRunJobShape DEF RetryFailure
<1>4. CASE RecoverRun(p)
  <2>1. /\ \A q \in Process \ {p} : frame'[q] = frame[q]
        /\ frame'[p].todo \subseteq frame[p].todo
    BY <1>4, RestShape DEF RecoverRun
  <2>2. pc'[p] \notin InRun /\ \A q \in Process \ {p} : pc'[q] = pc[q]
    BY <1>4 DEF RecoverRun, Goto, TypeOK, InRun
  <2> QED BY <1>0, <2>1, <2>2 DEF OthersKept
<1>5. CASE ListRetries(p)
  <2>1. frame[p] \in Frame BY DEF TypeOK
  <2>2. frame'[p] = [frame[p] EXCEPT !.phase = "retries",
                                    !.todo = listDueRetries(frame[p].now)]
    BY <1>5 DEF ListRetries, TypeOK
  <2>3. frame'[p].todo \subseteq Existing BY <2>1, <2>2 DEF Frame, listDueRetries
  <2> QED BY <1>5, <2>3 DEF ListRetries, Goto, TypeOK, OthersKept, InRun
<1>6. CASE ConsumeRetry(p)
  <2>1. /\ \A q \in Process \ {p} : frame'[q] = frame[q]
        /\ frame'[p].todo \subseteq frame[p].todo
    BY <1>6, RestShape DEF ConsumeRetry
  <2>2. pc'[p] \notin InRun /\ \A q \in Process \ {p} : pc'[q] = pc[q]
    BY <1>6 DEF ConsumeRetry, Goto, TypeOK, InRun
  <2> QED BY <1>0, <2>1, <2>2 DEF OthersKept
<1>7. CASE ListDue(p) BY <1>0, <1>7, CallRunJobShape, FinishShape DEF ListDue
<1>8. CASE MarkLockConflict(p) BY <1>0, <1>8, ReturnShape DEF MarkLockConflict
<1>9. CASE ReleaseLock(p) BY <1>0, <1>9, ReturnShape DEF ReleaseLock
<1>10. CASE ReleaseFails(p) BY <1>0, <1>10, ReturnShape DEF ReleaseFails
<1>11. CASE AcquireReplyLost(p) BY <1>11, FinishShape DEF AcquireReplyLost, Throw
<1>12. CASE DependencyThrows(p) BY <1>12, FinishShape DEF DependencyThrows, Throw
<1>13. CASE Crash(p) BY <1>13, FinishShape DEF Crash, Throw
<1> QED
  BY <1>1, <1>2, <1>3, <1>4, <1>5, <1>6, <1>7, <1>8, <1>9, <1>10, <1>11, <1>12,
     <1>13 DEF LeavesRun

(* Every step inside runJob keeps its row and the other calls. *)
LEMMA KeepsRunShape ==
    ASSUME TypeOK, NEW p \in Process, KeepsRun(p)
    PROVE  /\ OthersKept(p)
           /\ pc[p] \in InRun
           /\ frame'[p].run = frame[p].run
           /\ frame'[p].todo \subseteq frame[p].todo
<1>1. frame[p] \in Frame BY DEF TypeOK
<1>2. CASE \/ HandlerReturns(p) \/ MarkSucceeded(p) \/ EmitSucceeded(p) \/ MarkFailed(p)
  BY <1>2 DEF HandlerReturns, MarkSucceeded, EmitSucceeded, MarkFailed, Goto,
              TypeOK, OthersKept, InRun
<1>3. CASE \/ HandlerThrows(p) \/ HandlerTimesOut(p) \/ SucceedThrows(p)
  <2>1. PICK fault : frame' = [frame EXCEPT ![p].fault = fault]
    BY <1>3 DEF HandlerThrows, HandlerTimesOut, SucceedThrows
  <2>2. frame'[p] = [frame[p] EXCEPT !.fault = fault] BY <2>1 DEF TypeOK
  <2>3. frame'[p].run = frame[p].run /\ frame'[p].todo = frame[p].todo
    BY <1>1, <2>2 DEF Frame
  <2> QED BY <1>3, <2>1, <2>3
       DEF HandlerThrows, HandlerTimesOut, SucceedThrows, Goto, TypeOK, OthersKept, InRun
<1>4. CASE MarkFailedThrows(p) \/ EmitFailedThrows(p)
  <2>1. frame'[p] = [frame[p] EXCEPT !.phase = "single", !.todo = {}]
    BY <1>4 DEF MarkFailedThrows, EmitFailedThrows, TypeOK
  <2>2. frame'[p].run = frame[p].run /\ frame'[p].todo = {} BY <1>1, <2>1 DEF Frame
  <2> QED BY <1>4, <2>2
       DEF MarkFailedThrows, EmitFailedThrows, Goto, TypeOK, OthersKept, InRun
<1>5. CASE Acquire(p)
  <2>1. frame'[p] = frame[p] \/ frame'[p] = [frame[p] EXCEPT !.from = clock]
    BY <1>5 DEF Acquire, TypeOK
  <2>2. frame'[p].run = frame[p].run /\ frame'[p].todo = frame[p].todo
    BY <1>1, <2>1 DEF Frame
  <2> QED BY <1>5, <2>2 DEF Acquire, Goto, TypeOK, OthersKept, InRun
<1>6. CASE MarkRunning(p)
  <2>1. frame'[p] = [frame[p] EXCEPT !.deadline = clock + Timeout]
    BY <1>6 DEF MarkRunning, TypeOK
  <2>2. frame'[p].run = frame[p].run /\ frame'[p].todo = frame[p].todo
    BY <1>1, <2>1 DEF Frame
  <2> QED BY <1>6, <2>2 DEF MarkRunning, Goto, TypeOK, OthersKept, InRun
<1> QED BY <1>2, <1>3, <1>4, <1>5, <1>6 DEF KeepsRun

-----------------------------------------------------------------------------
(* The invariant is inductive *)

(* What the steps of one process are, for the proofs below. *)
LEMMA NextCases ==
    ASSUME [Next]_vars
    PROVE  \/ \E p \in Process :
                LeavesRun(p) \/ KeepsRun(p) \/ CreateRun(p) \/ HandlerSettles(p)
           \/ Pause \/ Resume \/ Tick \/ UNCHANGED vars
BY DEF Next, Step, HandlerStep, Environment, LeavesRun, KeepsRun

(* createRun either returns or moves to a row that did not exist. *)
LEMMA CreateRunShape ==
    ASSUME TypeOK, CallsOwnRows, NEW p \in Process, CreateRun(p)
    PROVE  /\ OthersKept(p)
           /\ frame'[p].todo \subseteq Existing
           /\ \/ pc'[p] \notin InRun /\ created' = created
              \/ pc'[p] = "acquire" /\ created' = created + 1 /\ frame'[p].run = created + 1
<1>0. frame[p].todo \subseteq Existing BY DEF CallsOwnRows
<1>1. CASE Return(p) /\ UNCHANGED <<runs, created>> BY <1>0, <1>1, ReturnShape
<1>2. CASE /\ created' = created + 1
           /\ frame' = [frame EXCEPT ![p].run = created + 1]
           /\ Goto(p, "acquire")
  <2>1. frame[p] \in Frame /\ frame'[p] = [frame[p] EXCEPT !.run = created + 1]
    BY <1>2 DEF TypeOK
  <2>2. frame'[p].run = created + 1 /\ frame'[p].todo = frame[p].todo
    BY <2>1 DEF Frame
  <2> QED BY <1>0, <1>2, <2>2 DEF Goto, TypeOK, OthersKept
<1> QED BY <1>1, <1>2 DEF CreateRun

(* Rows are only added. *)
LEMMA CreatedGrows ==
    ASSUME TypeOK, [Next]_vars
    PROVE  Existing \subseteq Existing'
<1>1. created' = created \/ created' = created + 1
  BY DEF Next, Step, HandlerStep, Environment, StartTick, StartCliTick,
         StartRunDueJobs, RunNow, RetryFailure,
         RecoverRun, ListRetries, ConsumeRetry, ListDue, CreateRun, Acquire,
         MarkLockConflict, MarkRunning, HandlerReturns, HandlerThrows,
         HandlerTimesOut, HandlerSettles, MarkSucceeded, EmitSucceeded,
         SucceedThrows, MarkFailed, MarkFailedThrows, EmitFailedThrows,
         ReleaseLock, ReleaseFails, AcquireReplyLost, DependencyThrows, Crash,
         Pause, Resume, Tick, vars
<1> QED BY <1>1 DEF Existing, TypeOK

(* A process's handlers are its old ones, or it has just started its own.  *)
LEMMA HandlersShape ==
    ASSUME TypeOK, NEW p \in Process,
           LeavesRun(p) \/ KeepsRun(p) \/ CreateRun(p) \/ HandlerSettles(p)
    PROVE  /\ \A q \in Process \ {p} : handlers'[q] = handlers[q]
           /\ \/ handlers'[p] \subseteq handlers[p]
              \/ MarkRunning(p) /\ handlers'[p] = handlers[p] \cup {frame[p].run}
BY DEF TypeOK, LeavesRun, KeepsRun, StartTick, StartCliTick,
       StartRunDueJobs, RunNow, RetryFailure,
       RecoverRun, ListRetries, ConsumeRetry, ListDue, CreateRun, Acquire,
       MarkLockConflict, MarkRunning, HandlerReturns, HandlerThrows,
       HandlerTimesOut, HandlerSettles, MarkSucceeded, EmitSucceeded,
       SucceedThrows, MarkFailed, MarkFailedThrows, EmitFailedThrows,
       ReleaseLock, ReleaseFails, AcquireReplyLost, DependencyThrows, Crash

LEMMA CallsOwnRowsStep ==
    TypeOK /\ CallsOwnRows /\ [Next]_vars => CallsOwnRows'
<1> SUFFICES ASSUME TypeOK, CallsOwnRows, [Next]_vars PROVE CallsOwnRows'
  OBVIOUS
<1>0. Existing \subseteq Existing' BY CreatedGrows
<1>1. ASSUME NEW p \in Process, LeavesRun(p) PROVE CallsOwnRows'
  <2>1. OthersKept(p) /\ pc'[p] \notin InRun /\ frame'[p].todo \subseteq Existing
    BY <1>1, LeavesRunShape
  <2>2. handlers'[p] \subseteq handlers[p] /\ \A q \in Process \ {p} : handlers'[q] = handlers[q]
    <3>1. ~MarkRunning(p) \/ pc'[p] \in InRun
      BY DEF MarkRunning, Goto, TypeOK, InRun
    <3> QED BY <1>1, <2>1, <3>1, HandlersShape
  <2> QED BY <1>0, <2>1, <2>2 DEF CallsOwnRows, OthersKept
<1>2. ASSUME NEW p \in Process, KeepsRun(p) PROVE CallsOwnRows'
  BY <1>0, <1>2, KeepsRunShape, HandlersShape DEF CallsOwnRows, OthersKept
<1>3. ASSUME NEW p \in Process, CreateRun(p) PROVE CallsOwnRows'
  <2>1. handlers' = handlers BY <1>3 DEF CreateRun
  <2>2. frame'[p].run = created + 1 /\ created' = created + 1 => frame'[p].run \in Existing'
    BY DEF Existing, TypeOK
  <2> QED BY <1>0, <1>3, <2>1, <2>2, CreateRunShape DEF CallsOwnRows, OthersKept
<1>4. ASSUME NEW p \in Process, HandlerSettles(p) PROVE CallsOwnRows'
  BY <1>0, <1>4 DEF HandlerSettles, CallsOwnRows, TypeOK
<1>5. CASE Pause \/ Resume \/ Tick \/ UNCHANGED vars
  BY <1>0, <1>5 DEF Pause, Resume, Tick, vars, CallsOwnRows
<1> QED BY <1>1, <1>2, <1>3, <1>4, <1>5, NextCases

LEMMA RowsNotSharedStep ==
    TypeOK /\ CallsOwnRows /\ RowsNotShared /\ [Next]_vars => RowsNotShared'
<1> SUFFICES ASSUME TypeOK, CallsOwnRows, RowsNotShared, [Next]_vars PROVE RowsNotShared'
  OBVIOUS
<1>1. ASSUME NEW p \in Process, LeavesRun(p) PROVE RowsNotShared'
  BY <1>1, LeavesRunShape DEF RowsNotShared, OthersKept
<1>2. ASSUME NEW p \in Process, KeepsRun(p) PROVE RowsNotShared'
  BY <1>2, KeepsRunShape DEF RowsNotShared, OthersKept
<1>3. ASSUME NEW p \in Process, CreateRun(p) PROVE RowsNotShared'
  <2>1. \A q \in Process : pc[q] \in InRun => frame[q].run # created + 1
    BY DEF CallsOwnRows, Existing, TypeOK
  <2> QED BY <1>3, <2>1, CreateRunShape DEF RowsNotShared, OthersKept
<1>4. ASSUME NEW p \in Process, HandlerSettles(p) PROVE RowsNotShared'
  BY <1>4 DEF HandlerSettles, RowsNotShared
<1>5. CASE Pause \/ Resume \/ Tick \/ UNCHANGED vars
  BY <1>5 DEF Pause, Resume, Tick, vars, RowsNotShared
<1> QED BY <1>1, <1>2, <1>3, <1>4, <1>5, NextCases

LEMMA HandlersAccountedStep ==
    TypeOK /\ CallsOwnRows /\ RowsNotShared /\ HandlersAccounted /\ [Next]_vars
        => HandlersAccounted'
<1> SUFFICES ASSUME TypeOK, CallsOwnRows, RowsNotShared, HandlersAccounted, [Next]_vars
             PROVE  HandlersAccounted'
  OBVIOUS
<1>1. ASSUME NEW p \in Process, LeavesRun(p) PROVE HandlersAccounted'
  <2>1. OthersKept(p) /\ pc'[p] \notin InRun BY <1>1, LeavesRunShape
  <2>2. \A q \in Process : handlers'[q] \subseteq handlers[q]
    <3>1. ~MarkRunning(p) \/ pc'[p] \in InRun
      BY DEF MarkRunning, Goto, TypeOK, InRun
    <3> QED BY <1>1, <2>1, <3>1, HandlersShape
  <2> QED BY <2>1, <2>2 DEF HandlersAccounted, OthersKept
<1>2. ASSUME NEW p \in Process, KeepsRun(p) PROVE HandlersAccounted'
  <2>1. OthersKept(p) /\ pc[p] \in InRun /\ frame'[p].run = frame[p].run
    BY <1>2, KeepsRunShape
  <2>2. CASE MarkRunning(p)
    <3>1. /\ handlers'[p] = handlers[p] \cup {frame[p].run}
          /\ \A q \in Process \ {p} : handlers'[q] = handlers[q]
          /\ pc[p] = "mark" /\ pc'[p] = "handler"
      BY <2>2 DEF MarkRunning, Goto, TypeOK
    <3>2. \A q \in Process \ {p} : pc[q] \in InRun => frame[q].run # frame[p].run
      BY <2>1 DEF RowsNotShared
    <3>3. \A q \in Process : frame[p].run \notin handlers[q]
      BY <2>1, <3>1 DEF HandlersAccounted
    <3> QED BY <2>1, <3>1, <3>2, <3>3 DEF HandlersAccounted, OthersKept
  <2>3. CASE HandlerReturns(p) \/ HandlerThrows(p)
    <3>1. /\ handlers'[p] = handlers[p] \ {frame[p].run}
          /\ \A q \in Process \ {p} : handlers'[q] = handlers[q]
      BY <2>3 DEF HandlerReturns, HandlerThrows, TypeOK
    <3>2. \A q \in Process \ {p} : frame[p].run \notin handlers[q]
      BY <2>1 DEF HandlersAccounted
    <3>3. \A q \in Process : frame'[p].run \notin handlers'[q]
      BY <2>1, <3>1, <3>2
    <3> QED BY <2>1, <3>1, <3>3 DEF HandlersAccounted, OthersKept
  <2>4. CASE HandlerTimesOut(p)
    <3>1. pc[p] = "handler" /\ pc'[p] = "fail" /\ handlers' = handlers
      BY <2>4 DEF HandlerTimesOut, Goto, TypeOK
    <3>2. frame'[p].fault = "timeout"
      <4>1. frame[p] \in Frame /\ frame'[p] = [frame[p] EXCEPT !.fault = "timeout"]
        BY <2>4 DEF HandlerTimesOut, TypeOK
      <4> QED BY <4>1 DEF Frame
    <3> QED BY <2>1, <3>1, <3>2 DEF HandlersAccounted, OthersKept
  <2>5. CASE MarkFailed(p) \/ MarkFailedThrows(p) \/ EmitFailedThrows(p)
    <3>1. pc[p] \in {"fail", "release"} /\ pc'[p] = "release" /\ handlers' = handlers
      BY <2>5 DEF MarkFailed, MarkFailedThrows, EmitFailedThrows, Goto, TypeOK
    <3>2. frame'[p].fault = frame[p].fault
      <4>1. \/ frame' = frame
            \/ frame'[p] = [frame[p] EXCEPT !.phase = "single", !.todo = {}]
        BY <2>5 DEF MarkFailed, MarkFailedThrows, EmitFailedThrows, TypeOK
      <4>2. frame[p] \in Frame BY DEF TypeOK
      <4> QED BY <4>1, <4>2 DEF Frame
    <3> QED BY <2>1, <3>1, <3>2 DEF HandlersAccounted, OthersKept
  <2>6. CASE Acquire(p) \/ MarkSucceeded(p) \/ EmitSucceeded(p) \/ SucceedThrows(p)
    <3>1. pc[p] \in {"acquire", "succeed", "audit"} /\ handlers' = handlers
      BY <2>6 DEF Acquire, MarkSucceeded, EmitSucceeded, SucceedThrows
    <3>2. \A q \in Process : frame[p].run \notin handlers[q]
      BY <2>1, <3>1 DEF HandlersAccounted
    <3> QED BY <2>1, <3>1, <3>2 DEF HandlersAccounted, OthersKept
  <2> QED BY <1>2, <2>2, <2>3, <2>4, <2>5, <2>6 DEF KeepsRun
<1>3. ASSUME NEW p \in Process, CreateRun(p) PROVE HandlersAccounted'
  <2>1. handlers' = handlers BY <1>3 DEF CreateRun
  <2>2. \A q \in Process : created + 1 \notin handlers[q]
    BY DEF CallsOwnRows, Existing, TypeOK
  <2> QED BY <1>3, <2>1, <2>2, CreateRunShape DEF HandlersAccounted, OthersKept
<1>4. ASSUME NEW p \in Process, HandlerSettles(p) PROVE HandlersAccounted'
  BY <1>4 DEF HandlerSettles, HandlersAccounted, TypeOK
<1>5. CASE Pause \/ Resume \/ Tick \/ UNCHANGED vars
  BY <1>5 DEF Pause, Resume, Tick, vars, HandlersAccounted
<1> QED BY <1>1, <1>2, <1>3, <1>4, <1>5, NextCases

(* A step that takes no lock either leaves it, or releases the lock of a   *)
(* run that neither executes nor is about to.                              *)
LEMMA LeaseHoldsLockStep == IInv /\ [Next]_vars => LeaseHoldsLock'
<1> SUFFICES ASSUME IInv, [Next]_vars PROVE LeaseHoldsLock'
  OBVIOUS
<1> USE DEF IInv
<1>a. clock \in Nat /\ clock' \in Nat /\ clock <= clock' /\ lease \in [RunId -> Nat]
  <2>1. TypeOK' BY TypeStep
  <2>2. clock' = clock \/ clock' = clock + 1
    BY DEF Next, Step, HandlerStep, Environment, StartTick, StartCliTick,
         StartRunDueJobs, RunNow, RetryFailure,
           RecoverRun, ListRetries, ConsumeRetry, ListDue, CreateRun, Acquire,
           MarkLockConflict, MarkRunning, HandlerReturns, HandlerThrows,
           HandlerTimesOut, HandlerSettles, MarkSucceeded, EmitSucceeded,
           SucceedThrows, MarkFailed, MarkFailedThrows, EmitFailedThrows,
           ReleaseLock, ReleaseFails, AcquireReplyLost, DependencyThrows, Crash,
           Pause, Resume, Tick, vars
  <2> QED BY <2>1, <2>2 DEF TypeOK
<1>b. ASSUME lock' = lock, lease' = lease, Leased' \subseteq Leased
      PROVE  LeaseHoldsLock'
  <2>1. \A r \in RunId : clock' < lease[r] => clock < lease[r]
    BY <1>a
  <2> QED BY <1>b, <2>1 DEF LeaseHoldsLock, Leased
<1>c. ASSUME NEW r \in RunId, TakeLock(r), Leased' \subseteq Leased \cup {r}, clock' = clock
      PROVE  LeaseHoldsLock'
  <2>1. LockIsFree /\ lock' = [owner |-> r, until |-> lease'[r]]
    BY <1>a, <1>c DEF TakeLock
  <2>2. \A s \in Leased : ~(clock < lease[s])
    <3> SUFFICES ASSUME NEW s \in Leased, clock < lease[s] PROVE FALSE
      OBVIOUS
    <3>1. lock = [owner |-> s, until |-> lease[s]] BY DEF LeaseHoldsLock
    <3>2. s # 0 /\ s \in RunId BY SchedulerAssumption DEF Leased, RunId
    <3> QED BY <1>a, <2>1, <3>1, <3>2 DEF LockIsFree
  <2>3. \A s \in RunId : s # r => lease'[s] = lease[s]
    BY <1>a, <1>c DEF TakeLock
  <2> QED BY <1>c, <2>1, <2>2, <2>3 DEF LeaseHoldsLock, Leased
<1>1. ASSUME NEW p \in Process, LeavesRun(p) PROVE LeaseHoldsLock'
  <2>1. OthersKept(p) /\ pc'[p] \notin InRun BY <1>1, LeavesRunShape
  <2>2. \A q \in Process : handlers'[q] \subseteq handlers[q]
    <3>1. ~MarkRunning(p) \/ pc'[p] \in InRun
      BY DEF MarkRunning, Goto, TypeOK, InRun
    <3> QED BY <1>1, <2>1, <3>1, HandlersShape
  <2>3. Leased' \subseteq Leased
    BY <2>1, <2>2 DEF Leased, OthersKept, InRun, RunId
  <2>4. CASE ReleaseLock(p) /\ DeleteIfOwner(frame[p].run) /\ frame[p].fault # "timeout"
    <3>1. frame[p].run \notin Leased'
      <4>1. \A q \in Process : frame[p].run \notin handlers[q]
        BY <2>4 DEF ReleaseLock, HandlersAccounted, InRun
      <4>2. \A q \in Process : pc'[q] = "mark" => frame'[q].run # frame[p].run
        BY <2>1, <2>4 DEF ReleaseLock, RowsNotShared, OthersKept, InRun
      <4> QED BY <2>2, <4>1, <4>2 DEF Leased
    <3>2. lease' = lease /\ clock' = clock BY <2>4 DEF ReleaseLock
    <3>3. \A r \in RunId : r # frame[p].run =>
             (lock = [owner |-> r, until |-> lease[r]] => lock' = lock)
      BY <2>4 DEF DeleteIfOwner
    <3> QED BY <2>3, <3>1, <3>2, <3>3 DEF LeaseHoldsLock, Leased
  <2>5. CASE AcquireReplyLost(p)
    <3>1. frame[p].run \in RunId
      BY <2>5, SchedulerAssumption
      DEF AcquireReplyLost, CallsOwnRows, Existing, RunId, TypeOK, InRun
    <3> QED BY <1>c, <2>3, <2>5, <3>1 DEF AcquireReplyLost
  <2>6. CASE lock' = lock /\ lease' = lease BY <1>b, <2>3, <2>6
  <2> QED
    BY <1>1, <2>4, <2>5, <2>6
    DEF LeavesRun, StartTick, StartCliTick, StartRunDueJobs, RunNow, RetryFailure, RecoverRun, ListRetries,
        ConsumeRetry, ListDue, MarkLockConflict, ReleaseLock, ReleaseFails,
        DependencyThrows, Crash
<1>2. ASSUME NEW p \in Process, KeepsRun(p) PROVE LeaseHoldsLock'
  <2>1. OthersKept(p) /\ pc[p] \in InRun /\ frame'[p].run = frame[p].run
    BY <1>2, KeepsRunShape
  <2>2. CASE Acquire(p)
    <3>1. frame[p].run \in RunId
      BY <2>1, SchedulerAssumption DEF CallsOwnRows, Existing, RunId, TypeOK
    <3>2. handlers' = handlers /\ clock' = clock BY <2>2 DEF Acquire
    <3>3. Leased' \subseteq Leased \cup {frame[p].run}
      BY <2>1, <3>2 DEF Leased, OthersKept, RunId
    <3>4. CASE TakeLock(frame[p].run) BY <1>c, <3>1, <3>2, <3>3, <3>4
    <3>5. CASE Goto(p, "conflict") /\ UNCHANGED <<lock, lease, frame>>
      <4>1. pc'[p] # "mark" BY <3>5 DEF Goto, TypeOK
      <4>2. Leased' \subseteq Leased
        BY <2>1, <3>2, <4>1 DEF Leased, OthersKept, RunId
      <4> QED BY <1>b, <3>5, <4>2
    <3> QED BY <2>2, <3>4, <3>5 DEF Acquire
  <2>3. CASE MarkRunning(p)
    <3>1. /\ handlers'[p] = handlers[p] \cup {frame[p].run}
          /\ \A q \in Process \ {p} : handlers'[q] = handlers[q]
          /\ pc[p] = "mark" /\ pc'[p] # "mark"
          /\ lock' = lock /\ lease' = lease
      BY <2>3 DEF MarkRunning, Goto, TypeOK
    <3>2. Leased' \subseteq Leased
      BY <2>1, <3>1 DEF Leased, OthersKept, RunId
    <3> QED BY <1>b, <3>1, <3>2
  <2>4. CASE ~Acquire(p) /\ ~MarkRunning(p)
    <3>1. lock' = lock /\ lease' = lease /\ pc'[p] # "mark"
      BY <1>2, <2>4
      DEF KeepsRun, HandlerReturns, HandlerThrows, HandlerTimesOut, MarkSucceeded,
          EmitSucceeded, SucceedThrows, MarkFailed, MarkFailedThrows,
          EmitFailedThrows, Goto, TypeOK
    <3>2. \A q \in Process : handlers'[q] \subseteq handlers[q]
      BY <1>2, <2>4, HandlersShape
    <3>3. Leased' \subseteq Leased
      BY <2>1, <3>1, <3>2 DEF Leased, OthersKept, RunId
    <3> QED BY <1>b, <3>1, <3>3
  <2> QED BY <2>2, <2>3, <2>4
<1>3. ASSUME NEW p \in Process, CreateRun(p) PROVE LeaseHoldsLock'
  <2>1. handlers' = handlers /\ lock' = lock /\ lease' = lease
    BY <1>3 DEF CreateRun
  <2>2. OthersKept(p) /\ pc'[p] # "mark"
    BY <1>3, CreateRunShape DEF InRun
  <2>3. Leased' \subseteq Leased BY <2>1, <2>2 DEF Leased, OthersKept, RunId
  <2> QED BY <1>b, <2>1, <2>3
<1>4. ASSUME NEW p \in Process, HandlerSettles(p) PROVE LeaseHoldsLock'
  <2>1. Leased' \subseteq Leased
    BY <1>4 DEF HandlerSettles, Leased, TypeOK, RunId
  <2> QED BY <1>4, <1>b, <2>1 DEF HandlerSettles
<1>5. CASE Pause \/ Resume \/ Tick \/ UNCHANGED vars
  <2>1. Leased' \subseteq Leased
    BY <1>5 DEF Pause, Resume, Tick, vars, Leased, RunId
  <2> QED BY <1>5, <1>b, <2>1 DEF Pause, Resume, Tick, vars
<1> QED BY <1>1, <1>2, <1>3, <1>4, <1>5, NextCases

(* Every reachable state satisfies the invariant. *)
LEMMA Invariant == Spec => []IInv
<1>1. Init => IInv
  <2> SUFFICES ASSUME Init PROVE IInv
    OBVIOUS
  <2>1. NoRun \in Run BY DEF NoRun, Run, Status, KeyKind, RandomKind
  <2>2. TypeOK
    BY <2>1, NoFrameType, SchedulerAssumption DEF Init, TypeOK, PC, NoLock
  <2>3. CallsOwnRows BY DEF Init, CallsOwnRows, InRun, NoFrame
  <2>4. RowsNotShared /\ HandlersAccounted BY DEF Init, RowsNotShared, HandlersAccounted, InRun
  <2>5. LeaseHoldsLock BY DEF Init, LeaseHoldsLock, Leased
  <2> QED BY <2>2, <2>3, <2>4, <2>5 DEF IInv
<1>2. IInv /\ [Next]_vars => IInv'
  BY TypeStep, CallsOwnRowsStep, RowsNotSharedStep, HandlersAccountedStep,
     LeaseHoldsLockStep DEF IInv
<1> QED BY <1>1, <1>2, PTL DEF Spec

-----------------------------------------------------------------------------
(* Retries *)

(* A row keeps its key and its attempt for ever. *)
KeyKept(r) ==
    /\ runs'[r].kind = runs[r].kind
    /\ runs'[r].of = runs[r].of
    /\ runs'[r].attempt = runs[r].attempt

(* createRun inserts a row with a new key. *)
Inserts(p) ==
    /\ pc[p] = "create"
    /\ ~Duplicate(frame[p].call)
    /\ created' = created + 1
    /\ created + 1 \in RunId
    /\ runs' = [runs EXCEPT ![created + 1] = NewRun(frame[p].call)]

(* A row whose status or times are set keeps its key. *)
LEMMA MarkKeepsKey ==
    ASSUME TypeOK, NEW r \in RunId, NEW status, NEW time,
           \/ SetStatus(r, status)
           \/ runs' = [runs EXCEPT ![r].status = status, ![r].startedAt = time]
           \/ runs' = [runs EXCEPT ![r].status = status, ![r].retryAt = time]
    PROVE  \A q \in RunId : KeyKept(q)
<1>1. runs \in [RunId -> Run] /\ runs[r] \in Run BY DEF TypeOK
<1>2. \A q \in RunId \ {r} : runs'[q] = runs[q]
  BY <1>1 DEF SetStatus
<1>3. \/ runs'[r] = [runs[r] EXCEPT !.status = status]
      \/ runs'[r] = [runs[r] EXCEPT !.status = status, !.startedAt = time]
      \/ runs'[r] = [runs[r] EXCEPT !.status = status, !.retryAt = time]
  BY <1>1 DEF SetStatus
<1>4. KeyKept(r) BY <1>1, <1>3 DEF KeyKept, Run
<1> QED BY <1>2, <1>4 DEF KeyKept

LEMMA RowsShape ==
    ASSUME TypeOK, CallsOwnRows, [Next]_vars
    PROVE  \/ created' = created /\ \A r \in RunId : KeyKept(r)
           \/ \E p \in Process : Inserts(p)
<1>0. /\ \A p \in Process : pc[p] \in InRun => frame[p].run \in RunId
      /\ \A p \in Process : frame[p].todo \subseteq RunId
  BY SchedulerAssumption DEF CallsOwnRows, Existing, RunId, TypeOK
<1>1. ASSUME NEW p \in Process,
             RecoverRun(p) \/ ConsumeRetry(p) \/ MarkLockConflict(p) \/ MarkSucceeded(p)
      PROVE  created' = created /\ \A r \in RunId : KeyKept(r)
  <2>1. \/ runs' = runs
        \/ \E r \in RunId, status \in Status : SetStatus(r, status)
    BY <1>0, <1>1
    DEF RecoverRun, ConsumeRetry, MarkLockConflict, MarkSucceeded, InRun, Status
  <2>2. created' = created
    BY <1>1 DEF RecoverRun, ConsumeRetry, MarkLockConflict, MarkSucceeded
  <2> QED BY <2>1, <2>2, MarkKeepsKey DEF KeyKept
<1>2. ASSUME NEW p \in Process, MarkRunning(p)
      PROVE  created' = created /\ \A r \in RunId : KeyKept(r)
  BY <1>0, <1>2, MarkKeepsKey DEF MarkRunning, InRun
<1>3. ASSUME NEW p \in Process, MarkFailed(p)
      PROVE  created' = created /\ \A r \in RunId : KeyKept(r)
  BY <1>0, <1>3, MarkKeepsKey DEF MarkFailed, InRun
<1>4. ASSUME NEW p \in Process, CreateRun(p)
      PROVE  \/ created' = created /\ \A r \in RunId : KeyKept(r)
             \/ Inserts(p)
  <2>1. CASE UNCHANGED <<runs, created>> BY <2>1 DEF KeyKept
  <2>2. CASE ~UNCHANGED <<runs, created>>
    <3>1. created + 1 <= MaxRun => created + 1 \in RunId
      BY SchedulerAssumption DEF RunId, TypeOK
    <3> QED BY <1>4, <2>2, <3>1, SchedulerAssumption DEF CreateRun, Inserts, TypeOK
  <2> QED BY <2>1, <2>2
<1>5. CASE runs' = runs /\ created' = created BY <1>5 DEF KeyKept
<1> QED
  BY <1>1, <1>2, <1>3, <1>4, <1>5
  DEF Next, Step, HandlerStep, Environment, StartTick, StartCliTick, StartRunDueJobs,
      RunNow, RetryFailure, ListRetries, ListDue, Acquire, HandlerReturns,
      HandlerThrows, HandlerTimesOut, HandlerSettles, EmitSucceeded, SucceedThrows,
      MarkFailedThrows, EmitFailedThrows, ReleaseLock, ReleaseFails,
      AcquireReplyLost, DependencyThrows, Crash, Pause, Resume, Tick, vars

LEMMA OneAutomaticRetryStep ==
    TypeOK /\ CallsOwnRows /\ OneAutomaticRetry /\ [Next]_vars => OneAutomaticRetry'
<1> SUFFICES ASSUME TypeOK, CallsOwnRows, OneAutomaticRetry, [Next]_vars
             PROVE  OneAutomaticRetry'
  OBVIOUS
<1>0. Existing \subseteq RunId BY SchedulerAssumption DEF Existing, RunId, TypeOK
<1>1. CASE created' = created /\ \A r \in RunId : KeyKept(r)
  BY <1>0, <1>1 DEF OneAutomaticRetry, Existing, KeyKept
<1>2. ASSUME NEW p \in Process, Inserts(p) PROVE OneAutomaticRetry'
  <2> DEFINE n == created + 1
             call == frame[p].call
  <2>1. Existing' = Existing \cup {n} /\ n \notin Existing
    BY <1>2 DEF Inserts, Existing, TypeOK
  <2>2. \A r \in Existing : runs'[r] = runs[r]
    BY <1>0, <1>2, <2>1 DEF Inserts, TypeOK
  <2>3. runs'[n].kind = call.kind /\ runs'[n].of = call.of
    <3>1. runs'[n] = NewRun(call) BY <1>2 DEF Inserts, TypeOK
    <3>2. call \in Call BY DEF TypeOK, Frame
    <3> QED BY <3>1, <3>2 DEF NewRun, NoRun
  <2>4. \A r \in Existing : ~(call.kind = "retry" /\ runs[r].kind = "retry" /\ runs[r].of = call.of)
    BY <1>2 DEF Inserts, Duplicate, UniqueKind
  <2> QED BY <2>1, <2>2, <2>3, <2>4 DEF OneAutomaticRetry
<1> QED BY <1>1, <1>2, RowsShape

(* An automatic retry that was asked for is of a row with attempts left,   *)
(* and so is a row that waits for one.                                     *)
RetryJustified(call, n) ==
    call.kind = "retry" => call.of \in 1..n /\ attemptsRemain(call.of)

RetriesJustified ==
    /\ \A p \in Process : pc[p] = "create" => RetryJustified(frame[p].call, created)
    /\ \A r \in Existing : runs[r].status = "RETRYING" => attemptsRemain(r)
    /\ AttemptsWithinBudget

(* Setting the status of a row by id changes nothing else. *)
LEMMA StatusEffect ==
    ASSUME TypeOK, NEW s \in RunId, NEW status, SetStatus(s, status), NEW r \in RunId
    PROVE  /\ runs'[r].startedAt = runs[r].startedAt
           /\ runs'[r].status = IF r = s THEN status ELSE runs[r].status
<1>1. runs[s] \in Run BY DEF TypeOK
<1>2. runs'[s] = [runs[s] EXCEPT !.status = status] BY DEF SetStatus, TypeOK
<1>3. runs'[s].status = status /\ runs'[s].startedAt = runs[s].startedAt
  BY <1>1, <1>2 DEF Run
<1> QED BY <1>3 DEF SetStatus, TypeOK

(* Where the calls of runJob come from: a retry is asked for by the loop    *)
(* that gave the row it retries its last status.                           *)
RetrySource(r) ==
    /\ r \in Existing
    /\ attemptsRemain(r) \/ runs[r].status = "RETRYING"
    /\ runs'[r].status \in {"ABANDONED", "FAILED"}

LEMMA CallSource ==
    ASSUME TypeOK, CallsOwnRows, [Next]_vars, NEW q \in Process, pc'[q] = "create",
           frame'[q].call.kind = "retry"
    PROVE  \/ pc[q] = "create" /\ frame'[q].call = frame[q].call
           \/ RetrySource(frame'[q].call.of)
<1> DEFINE Goal == \/ pc[q] = "create" /\ frame'[q].call = frame[q].call
                   \/ RetrySource(frame'[q].call.of)
<1>0. frame[q] \in Frame /\ frame[q].todo \subseteq Existing BY DEF TypeOK, CallsOwnRows
<1>1. CASE pc'[q] = pc[q] /\ frame'[q] = frame[q]
  BY <1>1
<1>2. ASSUME NEW phase, NEW call, CallRunJob(q, phase, call), call.kind # "retry"
      PROVE  Goal
  <2>1. frame'[q] = [frame[q] EXCEPT !.phase = phase, !.call = call]
    BY <1>2 DEF CallRunJob, TypeOK
  <2>2. frame'[q].call = call BY <1>0, <2>1 DEF Frame
  <2> QED BY <1>2, <2>2
<1>3. CASE RunNow(q)
  <2>1. PICK kind \in {"manual", "cli"}, dry \in BOOLEAN :
          CallRunJob(q, "single", [kind |-> kind, of |-> 0, at |-> clock, dry |-> dry])
    BY <1>3 DEF RunNow
  <2> QED BY <1>2, <2>1
<1>4. CASE RetryFailure(q)
  BY <1>2, <1>4 DEF RetryFailure
<1>5. CASE ListDue(q)
  <2>1. ~Finish(q) BY DEF Finish, Goto, TypeOK
  <2>2. frame[q].trigger # "retry" BY <1>0 DEF Frame, Trigger
  <2> QED BY <1>2, <1>5, <2>1, <2>2 DEF ListDue
<1>6. CASE RecoverRun(q) \/ ConsumeRetry(q)
  <2> DEFINE rest(r) == [frame EXCEPT ![q].todo = @ \ {r}]
  <2>0. pc[q] # "create" BY <1>6 DEF RecoverRun, ConsumeRetry
  <2>1. PICK r \in Existing :
          /\ attemptsRemain(r) \/ runs[r].status = "RETRYING"
          /\ SetStatus(r, "ABANDONED") \/ SetStatus(r, "FAILED")
          /\ frame' = [rest(r) EXCEPT ![q].call = RetryOf(r, frame[q].now)]
    BY <1>0, <1>6, <2>0 DEF RecoverRun, ConsumeRetry
  <2>2. rest(r) \in [Process -> Frame]
    <3>1. [frame[q] EXCEPT !.todo = @ \ {r}] \in Frame BY <1>0 DEF Frame
    <3> QED BY <3>1 DEF TypeOK
  <2> HIDE DEF rest
  <2>3. frame'[q] = [rest(r)[q] EXCEPT !.call = RetryOf(r, frame[q].now)]
    BY <2>1, <2>2
  <2>4. frame'[q].call = RetryOf(r, frame[q].now) BY <2>2, <2>3 DEF Frame
  <2>5. r \in RunId BY SchedulerAssumption DEF Existing, RunId, TypeOK
  <2>6. runs'[r].status \in {"ABANDONED", "FAILED"} BY <2>1, <2>5, StatusEffect
  <2> QED BY <2>1, <2>4, <2>6 DEF RetrySource, RetryOf
<1>7. ASSUME NEW p \in Process, LeavesRun(p) PROVE Goal
  <2>1. CASE p # q BY <1>1, <1>7, <2>1, LeavesRunShape DEF OthersKept
  <2>2. CASE p = q
    <3>1. ~(\/ StartTick(q) \/ StartCliTick(q) \/ ListRetries(q) \/ AcquireReplyLost(q)
            \/ DependencyThrows(q) \/ Crash(q))
      BY DEF StartTick, StartCliTick, StartRunDueJobs, ListRetries, AcquireReplyLost,
             DependencyThrows, Crash, Throw, Finish, Goto, TypeOK
    <3>2. ~(MarkLockConflict(q) \/ ReleaseLock(q) \/ ReleaseFails(q))
      <4>1. frame[q].phase # "create" BY <1>0 DEF Frame, Phase
      <4>2. ~Return(q) BY <4>1 DEF Return, Finish, Goto, TypeOK
      <4> QED BY <4>2 DEF MarkLockConflict, ReleaseLock, ReleaseFails
    <3> QED BY <1>3, <1>4, <1>5, <1>6, <1>7, <2>2, <3>1, <3>2 DEF LeavesRun
  <2> QED BY <2>1, <2>2
<1>8. ASSUME NEW p \in Process, KeepsRun(p) PROVE Goal
  <2>1. pc'[p] # "create"
    BY <1>8 DEF KeepsRun, Acquire, MarkRunning, HandlerReturns, HandlerThrows,
       HandlerTimesOut, MarkSucceeded, EmitSucceeded, SucceedThrows, MarkFailed,
       MarkFailedThrows, EmitFailedThrows, Goto, TypeOK
  <2> QED BY <1>1, <1>8, <2>1, KeepsRunShape DEF OthersKept
<1>9. ASSUME NEW p \in Process, CreateRun(p) PROVE Goal
  <2>1. pc'[p] # "create"
    <3>1. frame[p].phase # "create" BY DEF TypeOK, Frame, Phase
    <3> QED BY <1>9, <3>1 DEF CreateRun, Return, Finish, Goto, TypeOK
  <2> QED BY <1>1, <1>9, <2>1, CreateRunShape DEF OthersKept
<1>10. ASSUME NEW p \in Process, HandlerSettles(p) PROVE Goal
  BY <1>1, <1>10 DEF HandlerSettles
<1>11. CASE Pause \/ Resume \/ Tick \/ UNCHANGED vars
  BY <1>1, <1>11 DEF Pause, Resume, Tick, vars
<1> QED BY <1>7, <1>8, <1>9, <1>10, <1>11, NextCases

LEMMA CallShape ==
    ASSUME TypeOK, CallsOwnRows, RetriesJustified, [Next]_vars,
           NEW q \in Process, pc'[q] = "create"
    PROVE  RetryJustified(frame'[q].call, created)
BY CallSource DEF RetriesJustified, RetryJustified, RetrySource, Existing

(* Only markFailed makes a row RETRYING. *)
LEMMA RetryingShape ==
    ASSUME TypeOK, CallsOwnRows, [Next]_vars,
           NEW r \in Existing, runs'[r].status = "RETRYING"
    PROVE  runs[r].status = "RETRYING" \/ attemptsRemain(r)
<1>0. /\ \A p \in Process : pc[p] \in InRun => frame[p].run \in RunId
      /\ \A p \in Process : frame[p].todo \subseteq RunId
      /\ r \in RunId /\ r # created + 1
  BY SchedulerAssumption DEF CallsOwnRows, Existing, RunId, TypeOK
<1>1. ASSUME NEW s \in RunId, NEW status \in Status \ {"RETRYING"}, SetStatus(s, status)
      PROVE  runs[r].status = "RETRYING"
  <2>1. runs[s] \in Run BY DEF TypeOK
  <2>2. runs'[s] = [runs[s] EXCEPT !.status = status] BY <1>1 DEF SetStatus, TypeOK
  <2>3. runs'[s].status = status BY <2>1, <2>2 DEF Run
  <2> QED BY <1>0, <1>1, <2>3 DEF SetStatus, TypeOK
<1>2. ASSUME NEW p \in Process,
             RecoverRun(p) \/ ConsumeRetry(p) \/ MarkLockConflict(p) \/ MarkSucceeded(p)
      PROVE  runs[r].status = "RETRYING"
  BY <1>0, <1>1, <1>2
  DEF RecoverRun, ConsumeRetry, MarkLockConflict, MarkSucceeded, InRun, Status
<1>3. ASSUME NEW p \in Process, MarkRunning(p)
      PROVE  runs[r].status = "RETRYING"
  <2>1. PICK startedAt : runs' = [runs EXCEPT ![frame[p].run].status = "RUNNING",
                                             ![frame[p].run].startedAt = startedAt]
    BY <1>3 DEF MarkRunning
  <2>2. frame[p].run \in RunId /\ runs[frame[p].run] \in Run
    BY <1>0, <1>3 DEF MarkRunning, InRun, TypeOK
  <2>3. runs'[frame[p].run] = [runs[frame[p].run] EXCEPT !.status = "RUNNING",
                                                        !.startedAt = startedAt]
    BY <2>1, <2>2 DEF TypeOK
  <2>4. runs'[frame[p].run].status = "RUNNING" BY <2>2, <2>3 DEF Run
  <2> QED BY <1>0, <2>1, <2>4 DEF TypeOK
<1>4. ASSUME NEW p \in Process, MarkFailed(p)
      PROVE  runs[r].status = "RETRYING" \/ attemptsRemain(r)
  <2> DEFINE s == frame[p].run
  <2>1. s \in RunId /\ runs[s] \in Run BY <1>0, <1>4 DEF MarkFailed, InRun, TypeOK
  <2>2. CASE attemptsRemain(s) /\ \E time : runs' = [runs EXCEPT ![s].status = "RETRYING",
                                                              ![s].retryAt = time]
    BY <1>0, <2>1, <2>2 DEF TypeOK
  <2>3. CASE runs' = [runs EXCEPT ![s].status = "FAILED", ![s].retryAt = 0]
    <3>1. runs'[s] = [runs[s] EXCEPT !.status = "FAILED", !.retryAt = 0]
      BY <2>1, <2>3 DEF TypeOK
    <3>2. runs'[s].status = "FAILED" BY <2>1, <3>1 DEF Run
    <3> QED BY <1>0, <2>3, <3>2 DEF TypeOK
  <2> QED BY <1>4, <2>2, <2>3 DEF MarkFailed
<1>5. ASSUME NEW p \in Process, CreateRun(p)
      PROVE  runs[r].status = "RETRYING"
  BY <1>0, <1>5 DEF CreateRun, TypeOK
<1>6. CASE runs' = runs BY <1>6
<1> QED
  BY <1>2, <1>3, <1>4, <1>5, <1>6
  DEF Next, Step, HandlerStep, Environment, StartTick, StartCliTick, StartRunDueJobs,
      RunNow, RetryFailure, ListRetries, ListDue, Acquire, HandlerReturns,
      HandlerThrows, HandlerTimesOut, HandlerSettles, EmitSucceeded, SucceedThrows,
      MarkFailedThrows, EmitFailedThrows, ReleaseLock, ReleaseFails,
      AcquireReplyLost, DependencyThrows, Crash, Pause, Resume, Tick, vars

LEMMA RetriesJustifiedStep ==
    TypeOK /\ CallsOwnRows /\ RetriesJustified /\ [Next]_vars => RetriesJustified'
<1> SUFFICES ASSUME TypeOK, CallsOwnRows, RetriesJustified, [Next]_vars
             PROVE  RetriesJustified'
  OBVIOUS
<1>0. Existing \subseteq RunId BY SchedulerAssumption DEF Existing, RunId, TypeOK
<1>1. \A r \in Existing : KeyKept(r)
  BY <1>0, RowsShape DEF Inserts, Existing, KeyKept, TypeOK
<1>2. \A q \in Process : pc'[q] = "create" => RetryJustified(frame[q].call, created)'
  <2> SUFFICES ASSUME NEW q \in Process, pc'[q] = "create", NEW r, r = frame'[q].call.of,
                      frame'[q].call.kind = "retry"
               PROVE  r \in 1..created' /\ runs'[r].attempt < MaxAttempts
    BY DEF RetryJustified, attemptsRemain
  <2>1. r \in Existing /\ runs[r].attempt < MaxAttempts
    BY CallShape DEF RetryJustified, Existing, attemptsRemain
  <2>2. Existing \subseteq 1..created' BY CreatedGrows DEF Existing
  <2> QED BY <1>1, <2>1, <2>2 DEF KeyKept
<1>3. CASE created' = created /\ \A r \in RunId : KeyKept(r)
  <2>1. Existing' = Existing BY <1>3 DEF Existing
  <2>2. \A r \in Existing : runs'[r].status = "RETRYING" => attemptsRemain(r)'
    BY <1>1, RetryingShape DEF RetriesJustified, attemptsRemain, KeyKept
  <2>3. AttemptsWithinBudget'
    BY <1>1, <2>1 DEF RetriesJustified, AttemptsWithinBudget, KeyKept
  <2> QED BY <1>2, <2>1, <2>2, <2>3 DEF RetriesJustified
<1>4. ASSUME NEW p \in Process, Inserts(p) PROVE RetriesJustified'
  <2> DEFINE n == created + 1
             call == frame[p].call
  <2>1. Existing' = Existing \cup {n} /\ n \notin Existing
    BY <1>4 DEF Inserts, Existing, TypeOK
  <2>2. /\ call \in Call
        /\ runs'[n] = NewRun(call)
    BY <1>4 DEF Inserts, TypeOK, Frame
  <2>3. runs'[n].status = "QUEUED" /\ runs'[n].kind = call.kind
    BY <2>2 DEF NewRun, NoRun
  <2>4. call.kind = "retry" => runs'[n].attempt <= MaxAttempts
    <3> SUFFICES ASSUME call.kind = "retry" PROVE runs'[n].attempt <= MaxAttempts
      OBVIOUS
    <3>1. call.of \in Existing /\ runs[call.of].attempt < MaxAttempts
      BY <1>4 DEF Inserts, RetriesJustified, RetryJustified, Existing, attemptsRemain
    <3>2. runs'[n].attempt = runs[call.of].attempt + 1
      BY <2>2, <3>1 DEF NewRun, NoRun, parentOf
    <3>3. runs[call.of].attempt \in Nat BY <1>0, <3>1 DEF TypeOK, Run
    <3> QED BY <3>1, <3>2, <3>3, SchedulerAssumption
  <2>5. \A r \in Existing' : runs'[r].status = "RETRYING" => attemptsRemain(r)'
    BY <1>1, <2>1, <2>3, RetryingShape DEF RetriesJustified, attemptsRemain, KeyKept
  <2>6. AttemptsWithinBudget'
    BY <1>1, <2>1, <2>3, <2>4 DEF RetriesJustified, AttemptsWithinBudget, KeyKept
  <2> QED BY <1>2, <2>5, <2>6 DEF RetriesJustified
<1> QED BY <1>3, <1>4, RowsShape

-----------------------------------------------------------------------------
(* Recovery *)

(* A row whose timeout is over and that will not be marked RUNNING again.  *)
Overdue(r) == runs[r].startedAt + Timeout < clock /\ runs[r].status # "QUEUED"

(* Where runJob has not marked its row. *)
Unmarked == {"acquire", "conflict", "mark"}

ListsAreOverdue ==
    /\ \A p \in Process : pc[p] = "recover" => frame[p].phase = "recover"
    /\ \A p \in Process :
          frame[p].phase = "recover" => \A r \in frame[p].todo : Overdue(r)
    /\ \A p \in Process : pc[p] \in Unmarked => runs[frame[p].run].status = "QUEUED"
    /\ HealthyRunsNotAbandoned

(* What a step of p does to the loop that p is in. *)
Loop(p) ==
    /\ pc'[p] = "recover" => frame'[p].phase = "recover"
    /\ frame'[p].phase = "recover" =>
          \/ frame[p].phase = "recover" /\ frame'[p].todo \subseteq frame[p].todo
          \/ frame'[p].todo = listRunning(clock) /\ UNCHANGED <<runs, clock>>

LEMMA LoopEnds ==
    ASSUME TypeOK, NEW p \in Process, Finish(p)
    PROVE  Loop(p)
BY DEF TypeOK, Finish, Goto, NoFrame, Loop

LEMMA LoopReturns ==
    ASSUME TypeOK, NEW p \in Process, Return(p)
    PROVE  Loop(p)
<1>1. CASE frame[p].phase = "single"
  BY <1>1, LoopEnds DEF Return
<1>2. CASE frame[p].phase # "single"
  <2>1. frame'[p] = [NoFrame EXCEPT !.phase = frame[p].phase, !.trigger = frame[p].trigger,
                                    !.now = frame[p].now, !.todo = frame[p].todo]
    BY <1>2 DEF Return, TypeOK
  <2>2. frame'[p].todo = frame[p].todo /\ frame'[p].phase = frame[p].phase
    BY <2>1 DEF NoFrame
  <2>3. pc'[p] = frame[p].phase BY <1>2 DEF Return, Goto, TypeOK
  <2> QED BY <2>2, <2>3 DEF Loop
<1> QED BY <1>1, <1>2

LEMMA LoopCalls ==
    ASSUME TypeOK, NEW p \in Process, NEW phase \in {"single"}, NEW call,
           CallRunJob(p, phase, call)
    PROVE  Loop(p)
<1>1. frame[p] \in Frame BY DEF TypeOK
<1>2. frame'[p] = [frame[p] EXCEPT !.phase = phase, !.call = call]
  BY DEF CallRunJob, TypeOK
<1>3. frame'[p].phase = "single" BY <1>1, <1>2 DEF Frame
<1> QED BY <1>3 DEF CallRunJob, Goto, Loop, TypeOK

LEMMA RestPhase ==
    ASSUME TypeOK, NEW p \in Process, NEW r, NEW call,
           LET rest == [frame EXCEPT ![p].todo = @ \ {r}]
           IN  frame' = rest \/ frame' = [rest EXCEPT ![p].call = call]
    PROVE  frame'[p].phase = frame[p].phase
<1>1. frame[p] \in Frame BY DEF TypeOK
<1> DEFINE rest == [frame EXCEPT ![p].todo = @ \ {r}]
<1>2. rest[p].phase = frame[p].phase /\ rest[p] \in Frame
  <2>1. rest[p] = [frame[p] EXCEPT !.todo = @ \ {r}] BY DEF TypeOK
  <2> HIDE DEF rest
  <2> QED BY <1>1, <2>1 DEF Frame
<1>3. rest \in [Process -> Frame]
  BY <1>2 DEF TypeOK
<1>4. CASE frame' = rest BY <1>2, <1>4
<1>5. CASE frame' = [rest EXCEPT ![p].call = call]
  <2> HIDE DEF rest
  <2>1. frame'[p] = [rest[p] EXCEPT !.call = call] BY <1>3, <1>5
  <2> QED BY <1>2, <2>1 DEF Frame
<1> QED BY <1>4, <1>5

LEMMA LoopShape ==
    ASSUME TypeOK, CallsOwnRows, ListsAreOverdue, NEW p \in Process,
           LeavesRun(p) \/ KeepsRun(p) \/ CreateRun(p)
    PROVE  Loop(p)
<1>0. frame[p] \in Frame BY DEF TypeOK
<1>1. CASE StartTick(p) \/ StartCliTick(p)
  <2>1. PICK trigger : StartRunDueJobs(p, trigger)
    BY <1>1 DEF StartTick, StartCliTick
  <2>2. frame'[p].todo = listRunning(clock) /\ frame'[p].phase = "recover"
    <3>1. frame'[p] = [NoFrame EXCEPT !.phase = "recover", !.trigger = trigger,
                                     !.now = clock, !.todo = listRunning(clock)]
      BY <2>1 DEF StartRunDueJobs, TypeOK
    <3> QED BY <3>1 DEF NoFrame
  <2> QED BY <2>1, <2>2 DEF StartRunDueJobs, Loop
<1>2. CASE RunNow(p) BY <1>2, LoopCalls DEF RunNow
<1>3. CASE RetryFailure(p) BY <1>3, LoopCalls DEF RetryFailure
<1>4. CASE RecoverRun(p)
  <2>1. frame'[p].todo \subseteq frame[p].todo BY <1>4, RestShape DEF RecoverRun
  <2>2. PICK r \in frame[p].todo :
           LET rest == [frame EXCEPT ![p].todo = @ \ {r}]
           IN  frame' = rest \/ frame' = [rest EXCEPT ![p].call = RetryOf(r, frame[p].now)]
    BY <1>4 DEF RecoverRun
  <2>3. frame'[p].phase = frame[p].phase BY <2>2, RestPhase
  <2> QED BY <1>4, <2>1, <2>3 DEF RecoverRun, ListsAreOverdue, Loop
<1>5. CASE ListRetries(p)
  <2>1. frame'[p] = [frame[p] EXCEPT !.phase = "retries",
                                    !.todo = listDueRetries(frame[p].now)]
    BY <1>5 DEF ListRetries, TypeOK
  <2>2. frame'[p].phase = "retries" BY <1>0, <2>1 DEF Frame
  <2> QED BY <1>5, <2>2 DEF ListRetries, Goto, TypeOK, Loop
<1>6. CASE ConsumeRetry(p)
  <2>1. frame'[p].todo \subseteq frame[p].todo BY <1>6, RestShape DEF ConsumeRetry
  <2>2. frame'[p].phase = frame[p].phase BY <1>6, RestPhase DEF ConsumeRetry
  <2> QED BY <1>6, <2>1, <2>2 DEF ConsumeRetry, Goto, TypeOK, Loop
<1>7. CASE ListDue(p) BY <1>7, LoopCalls, LoopEnds DEF ListDue
<1>8. CASE MarkLockConflict(p) \/ ReleaseLock(p) \/ ReleaseFails(p)
  BY <1>8, LoopReturns DEF MarkLockConflict, ReleaseLock, ReleaseFails
<1>9. CASE AcquireReplyLost(p) \/ DependencyThrows(p) \/ Crash(p)
  BY <1>9, LoopEnds DEF AcquireReplyLost, DependencyThrows, Crash, Throw
<1>10. CASE CreateRun(p)
  <2>1. CASE Return(p) BY <2>1, LoopReturns
  <2>2. CASE frame' = [frame EXCEPT ![p].run = created + 1] /\ Goto(p, "acquire")
    <3>1. frame'[p] = [frame[p] EXCEPT !.run = created + 1] BY <2>2 DEF TypeOK
    <3>2. frame'[p].phase = frame[p].phase /\ frame'[p].todo = frame[p].todo
      BY <1>0, <3>1 DEF Frame
    <3> QED BY <2>2, <3>2 DEF Goto, TypeOK, Loop
  <2> QED BY <1>10, <2>1, <2>2 DEF CreateRun
<1>11. CASE KeepsRun(p)
  <2>1. frame'[p].todo \subseteq frame[p].todo /\ pc'[p] # "recover"
    BY <1>11, KeepsRunShape
    DEF KeepsRun, Acquire, MarkRunning, HandlerReturns, HandlerThrows, HandlerTimesOut,
        MarkSucceeded, EmitSucceeded, SucceedThrows, MarkFailed, MarkFailedThrows,
        EmitFailedThrows, Goto, TypeOK
  <2>2. frame'[p].phase = "recover" => frame[p].phase = "recover"
    <3>1. CASE HandlerReturns(p) \/ MarkSucceeded(p) \/ EmitSucceeded(p) \/ MarkFailed(p)
      BY <3>1 DEF HandlerReturns, MarkSucceeded, EmitSucceeded, MarkFailed
    <3>2. CASE HandlerThrows(p) \/ HandlerTimesOut(p) \/ SucceedThrows(p)
      <4>1. PICK fault : frame' = [frame EXCEPT ![p].fault = fault]
        BY <3>2 DEF HandlerThrows, HandlerTimesOut, SucceedThrows
      <4>2. frame'[p] = [frame[p] EXCEPT !.fault = fault] BY <4>1 DEF TypeOK
      <4> QED BY <1>0, <4>2 DEF Frame
    <3>3. CASE MarkFailedThrows(p) \/ EmitFailedThrows(p)
      <4>1. frame'[p] = [frame[p] EXCEPT !.phase = "single", !.todo = {}]
        BY <3>3 DEF MarkFailedThrows, EmitFailedThrows, TypeOK
      <4> QED BY <1>0, <4>1 DEF Frame
    <3>4. CASE Acquire(p)
      <4>1. frame'[p] = frame[p] \/ frame'[p] = [frame[p] EXCEPT !.from = clock]
        BY <3>4 DEF Acquire, TypeOK
      <4> QED BY <1>0, <4>1 DEF Frame
    <3>5. CASE MarkRunning(p)
      <4>1. frame'[p] = [frame[p] EXCEPT !.deadline = clock + Timeout]
        BY <3>5 DEF MarkRunning, TypeOK
      <4> QED BY <1>0, <4>1 DEF Frame
    <3> QED BY <1>11, <3>1, <3>2, <3>3, <3>4, <3>5 DEF KeepsRun
  <2> QED BY <2>1, <2>2 DEF Loop
<1> QED
  BY <1>1, <1>2, <1>3, <1>4, <1>5, <1>6, <1>7, <1>8, <1>9, <1>10, <1>11
  DEF LeavesRun

(* What a step does to a row that exists. *)
Unchanged(r) == runs'[r].status = runs[r].status /\ runs'[r].startedAt = runs[r].startedAt

Settles(p, r) ==
    /\ pc[p] \in {"conflict", "succeed", "fail"} /\ pc'[p] \notin Unmarked
    /\ runs'[r].status \notin {"NONE", "QUEUED", "ABANDONED"}
    /\ runs'[r].status = "SKIPPED" <=> pc[p] = "conflict"

Marks(p, r) ==
    /\ MarkRunning(p) /\ pc[p] = "mark" /\ pc'[p] \notin Unmarked
    /\ runs'[r].status = "RUNNING"

LEMMA AnyRowEffect ==
    ASSUME TypeOK, CallsOwnRows, [Next]_vars, NEW r \in RunId,
           r # created + 1 \/ created' = created
    PROVE  \/ Unchanged(r)
           \/ /\ runs'[r].startedAt = runs[r].startedAt
              /\ \E p \in Process :
                    \/ /\ pc[p] = "recover" /\ r \in frame[p].todo
                       /\ runs'[r].status = "ABANDONED"
                    \/ runs[r].status = "RETRYING" /\ runs'[r].status = "FAILED"
                    \/ r = frame[p].run /\ Settles(p, r)
           \/ \E p \in Process : r = frame[p].run /\ Marks(p, r)
<1>0. /\ \A p \in Process : pc[p] \in InRun => frame[p].run \in RunId
      /\ \A p \in Process : frame[p].todo \subseteq RunId
  BY SchedulerAssumption DEF CallsOwnRows, Existing, RunId, TypeOK
<1>1. ASSUME NEW p \in Process, RecoverRun(p)
      PROVE  Unchanged(r) \/ /\ runs'[r].startedAt = runs[r].startedAt
                             /\ pc[p] = "recover" /\ r \in frame[p].todo
                             /\ runs'[r].status = "ABANDONED"
  <2>1. PICK s \in frame[p].todo : SetStatus(s, "ABANDONED") BY <1>1 DEF RecoverRun
  <2> QED BY <1>0, <1>1, <2>1, StatusEffect DEF RecoverRun, Unchanged
<1>2. ASSUME NEW p \in Process, ConsumeRetry(p)
      PROVE  Unchanged(r) \/ /\ runs'[r].startedAt = runs[r].startedAt
                             /\ runs[r].status = "RETRYING" /\ runs'[r].status = "FAILED"
  <2>1. PICK s \in frame[p].todo :
           \/ runs[s].status = "RETRYING" /\ SetStatus(s, "FAILED")
           \/ runs' = runs
    BY <1>2 DEF ConsumeRetry
  <2> QED BY <1>0, <2>1, StatusEffect DEF Unchanged
<1>3. ASSUME NEW p \in Process, MarkLockConflict(p)
      PROVE  Unchanged(r) \/ /\ runs'[r].startedAt = runs[r].startedAt
                             /\ r = frame[p].run /\ Settles(p, r)
  <2>1. pc[p] = "conflict" /\ SetStatus(frame[p].run, "SKIPPED") /\ pc'[p] \notin InRun
    BY <1>3, ReturnShape DEF MarkLockConflict
  <2>2. frame[p].run \in RunId BY <1>0, <2>1 DEF InRun
  <2>3. /\ runs'[r].startedAt = runs[r].startedAt
        /\ runs'[r].status = IF r = frame[p].run THEN "SKIPPED" ELSE runs[r].status
    BY <1>0, <2>1, <2>2, StatusEffect
  <2> QED BY <2>1, <2>3 DEF Unchanged, Settles, Unmarked, InRun
<1>4. ASSUME NEW p \in Process, MarkSucceeded(p)
      PROVE  Unchanged(r) \/ /\ runs'[r].startedAt = runs[r].startedAt
                             /\ r = frame[p].run /\ Settles(p, r)
  <2>1. /\ pc[p] = "succeed" /\ SetStatus(frame[p].run, "SUCCEEDED")
        /\ pc'[p] \in {"audit", "release"}
    BY <1>4 DEF MarkSucceeded, Goto, TypeOK
  <2>2. frame[p].run \in RunId BY <1>0, <2>1 DEF InRun
  <2>3. /\ runs'[r].startedAt = runs[r].startedAt
        /\ runs'[r].status = IF r = frame[p].run THEN "SUCCEEDED" ELSE runs[r].status
    BY <1>0, <2>1, <2>2, StatusEffect
  <2> QED BY <2>1, <2>3 DEF Unchanged, Settles, Unmarked
<1>5. ASSUME NEW p \in Process, MarkFailed(p)
      PROVE  Unchanged(r) \/ /\ runs'[r].startedAt = runs[r].startedAt
                             /\ r = frame[p].run /\ Settles(p, r)
  <2> DEFINE s == frame[p].run
  <2>0. \/ \E time : runs' = [runs EXCEPT ![s].status = "RETRYING", ![s].retryAt = time]
        \/ runs' = [runs EXCEPT ![s].status = "FAILED", ![s].retryAt = 0]
    BY <1>5 DEF MarkFailed
  <2>a. PICK status \in {"RETRYING", "FAILED"} :
           \E time : runs' = [runs EXCEPT ![s].status = status, ![s].retryAt = time]
    BY <2>0
  <2>1. PICK time : runs' = [runs EXCEPT ![s].status = status, ![s].retryAt = time]
    BY <2>a
  <2>2. pc[p] = "fail" /\ pc'[p] = "release" BY <1>5 DEF MarkFailed, Goto, TypeOK
  <2>3. s \in RunId /\ runs[s] \in Run BY <1>0, <2>1, <2>2 DEF InRun, TypeOK
  <2>4. runs'[s] = [runs[s] EXCEPT !.status = status, !.retryAt = time]
        /\ (r # s => runs'[r] = runs[r])
    BY <1>0, <2>1, <2>3 DEF TypeOK
  <2>5. runs'[s].status = status /\ runs'[s].startedAt = runs[s].startedAt
    BY <2>3, <2>4 DEF Run
  <2> QED BY <2>1, <2>2, <2>4, <2>5 DEF Unchanged, Settles, Unmarked
<1>6. ASSUME NEW p \in Process, MarkRunning(p)
      PROVE  Unchanged(r) \/ (r = frame[p].run /\ Marks(p, r))
  <2>1. PICK s, time :
           /\ s = frame[p].run
           /\ runs' = [runs EXCEPT ![s].status = "RUNNING", ![s].startedAt = time]
    BY <1>6 DEF MarkRunning
  <2>2. pc[p] = "mark" /\ pc'[p] = "handler" BY <1>6 DEF MarkRunning, Goto, TypeOK
  <2>3. s \in RunId /\ runs[s] \in Run BY <1>0, <2>1, <2>2 DEF InRun, TypeOK
  <2>4. runs'[s] = [runs[s] EXCEPT !.status = "RUNNING", !.startedAt = time]
        /\ (r # s => runs'[r] = runs[r])
    BY <1>0, <2>1, <2>3 DEF TypeOK
  <2>5. runs'[s].status = "RUNNING"
    BY <2>3, <2>4 DEF Run
  <2> QED BY <1>6, <2>1, <2>2, <2>4, <2>5 DEF Unchanged, Marks, Unmarked
<1>7. ASSUME NEW p \in Process, CreateRun(p) PROVE Unchanged(r)
  BY <1>0, <1>7, SchedulerAssumption DEF CreateRun, TypeOK, Unchanged
<1>8. CASE runs' = runs BY <1>8 DEF Unchanged
<1> QED
  BY <1>1, <1>2, <1>3, <1>4, <1>5, <1>6, <1>7, <1>8
  DEF Next, Step, HandlerStep, Environment, StartTick, StartCliTick, StartRunDueJobs,
      RunNow, RetryFailure, ListRetries, ListDue, Acquire, HandlerReturns,
      HandlerThrows, HandlerTimesOut, HandlerSettles, EmitSucceeded, SucceedThrows,
      MarkFailedThrows, EmitFailedThrows, ReleaseLock, ReleaseFails,
      AcquireReplyLost, DependencyThrows, Crash, Pause, Resume, Tick, vars

LEMMA RowEffect ==
    ASSUME TypeOK, CallsOwnRows, [Next]_vars, NEW r \in Existing
    PROVE  \/ Unchanged(r)
           \/ /\ runs'[r].startedAt = runs[r].startedAt
              /\ \E p \in Process :
                    \/ /\ pc[p] = "recover" /\ r \in frame[p].todo
                       /\ runs'[r].status = "ABANDONED"
                    \/ runs[r].status = "RETRYING" /\ runs'[r].status = "FAILED"
                    \/ r = frame[p].run /\ Settles(p, r)
           \/ \E p \in Process : r = frame[p].run /\ Marks(p, r)
<1>1. r \in RunId /\ r # created + 1
  BY SchedulerAssumption DEF Existing, RunId, TypeOK
<1> QED BY <1>1, AnyRowEffect

(* A call that has not marked its row keeps it, or has just inserted it. *)
LEMMA UnmarkedShape ==
    ASSUME TypeOK, CallsOwnRows, NEW p \in Process, pc'[p] \in Unmarked,
           LeavesRun(p) \/ KeepsRun(p) \/ CreateRun(p)
    PROVE  \/ pc[p] \in Unmarked /\ frame'[p].run = frame[p].run
           \/ /\ frame'[p].run = created + 1 /\ created + 1 \in RunId
              /\ runs' = [runs EXCEPT ![created + 1] = NewRun(frame[p].call)]
<1>1. CASE LeavesRun(p) BY <1>1, LeavesRunShape DEF Unmarked, InRun
<1>2. CASE KeepsRun(p)
  <2>1. frame'[p].run = frame[p].run BY <1>2, KeepsRunShape
  <2>2. pc[p] \in Unmarked
    BY <1>2 DEF Unmarked, KeepsRun, Acquire, MarkRunning, HandlerReturns, HandlerThrows,
        HandlerTimesOut, MarkSucceeded, EmitSucceeded, SucceedThrows, MarkFailed,
        MarkFailedThrows, EmitFailedThrows, Goto, TypeOK
  <2> QED BY <2>1, <2>2
<1>3. CASE CreateRun(p)
  <2>1. CASE Return(p) BY <2>1, ReturnShape DEF Unmarked, InRun
  <2>2. CASE ~Return(p)
    <3>1. /\ created + 1 <= MaxRun
          /\ runs' = [runs EXCEPT ![created + 1] = NewRun(frame[p].call)]
          /\ frame' = [frame EXCEPT ![p].run = created + 1]
      BY <1>3, <2>2, SchedulerAssumption DEF CreateRun, TypeOK
    <3>2. frame'[p] = [frame[p] EXCEPT !.run = created + 1] /\ frame[p] \in Frame
      BY <3>1 DEF TypeOK
    <3>3. frame'[p].run = created + 1 BY <3>2 DEF Frame
    <3>4. created + 1 \in RunId
      BY <3>1, SchedulerAssumption DEF RunId, TypeOK
    <3> QED BY <3>1, <3>3, <3>4
  <2> QED BY <2>1, <2>2
<1> QED BY <1>1, <1>2, <1>3

LEMMA OverdueStays ==
    ASSUME IInv, ListsAreOverdue, [Next]_vars, NEW r \in Existing, Overdue(r)
    PROVE  Overdue(r)'
<1>1. clock' \in {clock, clock + 1}
  BY DEF Next, Step, HandlerStep, Environment, StartTick, StartCliTick,
         StartRunDueJobs, RunNow, RetryFailure,
         RecoverRun, ListRetries, ConsumeRetry, ListDue, CreateRun, Acquire,
         MarkLockConflict, MarkRunning, HandlerReturns, HandlerThrows,
         HandlerTimesOut, HandlerSettles, MarkSucceeded, EmitSucceeded,
         SucceedThrows, MarkFailed, MarkFailedThrows, EmitFailedThrows,
         ReleaseLock, ReleaseFails, AcquireReplyLost, DependencyThrows, Crash,
         Pause, Resume, Tick, vars
<1>2. runs'[r].startedAt = runs[r].startedAt /\ runs'[r].status # "QUEUED"
  <2>1. ~\E p \in Process : r = frame[p].run /\ pc[p] = "mark"
    BY DEF ListsAreOverdue, Unmarked, Overdue
  <2> QED
    BY <2>1, RowEffect DEF IInv, Unchanged, Settles, Marks, Overdue
<1>3. r \in RunId /\ runs[r].startedAt \in Nat /\ clock \in Nat /\ Timeout \in Nat
  BY SchedulerAssumption DEF Existing, RunId, IInv, TypeOK, Run
<1> QED BY <1>1, <1>2, <1>3 DEF Overdue

LEMMA ListsAreOverdueStep ==
    ASSUME IInv, ListsAreOverdue, [Next]_vars
    PROVE  ListsAreOverdue'
<1> USE DEF IInv
<1>0. \A q \in Process : frame[q].todo \subseteq Existing /\ (pc[q] \in InRun => frame[q].run \in Existing)
  BY DEF CallsOwnRows
<1>1. \A q \in Process :
         \/ pc'[q] = pc[q] /\ frame'[q] = frame[q]
         \/ LeavesRun(q) \/ KeepsRun(q) \/ CreateRun(q)
  <2>1. CASE Pause \/ Resume \/ Tick \/ UNCHANGED vars
    BY <2>1 DEF Pause, Resume, Tick, vars
  <2>2. ASSUME NEW p \in Process, LeavesRun(p) \/ KeepsRun(p) \/ CreateRun(p)
        PROVE  OthersKept(p)
    BY <2>2, LeavesRunShape, KeepsRunShape, CreateRunShape
  <2>3. ASSUME NEW p \in Process, HandlerSettles(p) PROVE pc' = pc /\ frame' = frame
    BY <2>3 DEF HandlerSettles
  <2> QED BY <2>1, <2>2, <2>3, NextCases DEF OthersKept
<1>2. ASSUME NEW q \in Process PROVE pc'[q] = "recover" => frame'[q].phase = "recover"
  BY <1>1, LoopShape DEF Loop, ListsAreOverdue
<1>3. ASSUME NEW q \in Process, frame'[q].phase = "recover", NEW r \in frame'[q].todo
      PROVE  Overdue(r)'
  <2>1. \/ frame[q].phase = "recover" /\ frame'[q].todo \subseteq frame[q].todo
        \/ frame'[q].todo = listRunning(clock) /\ UNCHANGED <<runs, clock>>
    BY <1>1, <1>3, LoopShape DEF Loop
  <2>2. CASE frame[q].phase = "recover" /\ frame'[q].todo \subseteq frame[q].todo
    BY <1>0, <2>2, OverdueStays DEF ListsAreOverdue
  <2>3. CASE frame'[q].todo = listRunning(clock) /\ UNCHANGED <<runs, clock>>
    BY <2>3 DEF listRunning, Overdue
  <2> QED BY <2>1, <2>2, <2>3
<1>4. ASSUME NEW q \in Process, pc'[q] \in Unmarked
      PROVE  runs'[frame'[q].run].status = "QUEUED"
  <2>1. \/ pc[q] \in Unmarked /\ frame'[q].run = frame[q].run
        \/ /\ frame'[q].run = created + 1 /\ created + 1 \in RunId
           /\ runs' = [runs EXCEPT ![created + 1] = NewRun(frame[q].call)]
    BY <1>1, <1>4, UnmarkedShape
  <2>2. CASE pc[q] \in Unmarked /\ frame'[q].run = frame[q].run
    <3>1. PICK r \in Existing : r = frame[q].run
      BY <1>0, <2>2 DEF Unmarked, InRun
    <3>2. runs[r].status = "QUEUED" BY <2>2, <3>1 DEF ListsAreOverdue
    <3>3. ~\E p \in Process : pc[p] = "recover" /\ r \in frame[p].todo
      BY <3>2 DEF ListsAreOverdue, Overdue
    <3>4. ~\E p \in Process : r = frame[p].run /\ (Settles(p, r) \/ Marks(p, r))
      BY <1>4, <2>2, <3>1 DEF RowsNotShared, Settles, Marks, Unmarked, InRun
    <3>5. Unchanged(r) BY <3>2, <3>3, <3>4, RowEffect
    <3> QED BY <2>2, <3>1, <3>2, <3>5 DEF Unchanged
  <2>3. CASE /\ frame'[q].run = created + 1 /\ created + 1 \in RunId
             /\ runs' = [runs EXCEPT ![created + 1] = NewRun(frame[q].call)]
    BY <2>3 DEF TypeOK, NewRun, NoRun
  <2> QED BY <2>1, <2>2, <2>3
<1>5. ASSUME NEW r \in Existing', runs'[r].status = "ABANDONED"
      PROVE  runs'[r].startedAt + Timeout < clock'
  <2>1. CASE r \in Existing
    <3>1. Overdue(r)
      BY <1>5, <2>1, RowEffect
      DEF ListsAreOverdue, HealthyRunsNotAbandoned, Overdue, Unchanged, Settles, Marks
    <3> QED BY <2>1, <3>1, OverdueStays DEF Overdue
  <2>2. CASE r \notin Existing
    <3>1. created' # created BY <2>2 DEF Existing
    <3>2. PICK p \in Process : Inserts(p) BY <3>1, RowsShape
    <3>3. r = created + 1 BY <2>2, <3>2 DEF Inserts, Existing, TypeOK
    <3>4. runs'[r].status = "QUEUED" BY <3>2, <3>3 DEF Inserts, TypeOK, NewRun, NoRun
    <3> QED BY <1>5, <3>4
  <2> QED BY <2>1, <2>2
<1> QED BY <1>2, <1>3, <1>4, <1>5 DEF ListsAreOverdue, HealthyRunsNotAbandoned

-----------------------------------------------------------------------------
(* The executions *)

(* Where the row has been marked RUNNING. *)
Marked == {"handler", "succeed", "audit", "fail"}

(* Whoever writes the row of a run, or asks for its retry, knows it started. *)
StartsKnown ==
    /\ \A r \in RunId \ Existing : ~HasStarted(r)
    /\ \A p \in Process :
          frame[p].phase = "recover" => \A r \in frame[p].todo : HasStarted(r)
    /\ \A p \in Process : pc[p] \in Marked => HasStarted(frame[p].run)
    /\ \A p \in Process :
          pc[p] = "create" /\ frame[p].call.kind = "retry" => HasStarted(frame[p].call.of)
    /\ \A r \in Executing : HasStarted(r)

RInv == IInv /\ ListsAreOverdue /\ RetriesJustified /\ OneAutomaticRetry /\ StartsKnown

(* Only markRunning leads to the steps after it. *)
LEMMA MarkedShape ==
    ASSUME TypeOK, CallsOwnRows, NEW p \in Process, pc'[p] \in Marked,
           LeavesRun(p) \/ KeepsRun(p) \/ CreateRun(p)
    PROVE  \/ pc[p] \in Marked /\ frame'[p].run = frame[p].run
           \/ /\ pc[p] = "mark" /\ frame'[p].run = frame[p].run
              /\ HasStarted(frame[p].run)'
<1>1. ~LeavesRun(p) BY LeavesRunShape DEF Marked, InRun
<1>2. ~CreateRun(p) BY CreateRunShape DEF Marked, InRun
<1>3. KeepsRun(p) BY <1>1, <1>2
<1>4. frame'[p].run = frame[p].run /\ pc[p] \in InRun BY <1>3, KeepsRunShape
<1>5. CASE MarkRunning(p)
  <2> DEFINE s == frame[p].run
  <2>1. PICK time : runs' = [runs EXCEPT ![s].status = "RUNNING", ![s].startedAt = time]
    BY <1>5 DEF MarkRunning
  <2>2. s \in RunId /\ runs[s] \in Run
    BY <1>4, SchedulerAssumption DEF CallsOwnRows, Existing, RunId, TypeOK
  <2>3. runs'[s] = [runs[s] EXCEPT !.status = "RUNNING", !.startedAt = time]
    BY <2>1, <2>2 DEF TypeOK
  <2>4. runs'[s].status = "RUNNING" BY <2>2, <2>3 DEF Run
  <2> QED BY <1>4, <1>5, <2>4 DEF MarkRunning, HasStarted
<1>6. CASE ~MarkRunning(p)
  BY <1>3, <1>4, <1>6
  DEF Marked, KeepsRun, Acquire, HandlerReturns, HandlerThrows, HandlerTimesOut,
      MarkSucceeded, EmitSucceeded, SucceedThrows, MarkFailed, MarkFailedThrows,
      EmitFailedThrows, Goto, TypeOK
<1> QED BY <1>5, <1>6

(* A run that started has started for ever. *)
LEMMA StartStays ==
    ASSUME RInv, [Next]_vars, NEW r \in RunId, HasStarted(r)
    PROVE  r \in Existing /\ HasStarted(r)'
<1>1. r \in Existing BY DEF RInv, StartsKnown
<1>2. runs'[r].status \notin {"NONE", "QUEUED", "SKIPPED"}
  <2>1. ~\E p \in Process : r = frame[p].run /\ pc[p] = "conflict"
    BY DEF RInv, ListsAreOverdue, Unmarked, HasStarted
  <2> QED
    BY <1>1, <2>1, RowEffect DEF RInv, IInv, Unchanged, Settles, Marks, HasStarted
<1> QED BY <1>1, <1>2 DEF HasStarted

(* A run starts when its call marks it, and only then. *)
LEMMA StartShape ==
    ASSUME RInv, [Next]_vars, NEW r \in RunId, ~HasStarted(r), HasStarted(r)'
    PROVE  \E p \in Process : r = frame[p].run /\ MarkRunning(p)
<1>1. CASE r = created + 1 /\ created' # created
  <2>1. PICK p \in Process : Inserts(p) BY <1>1, RowsShape DEF RInv, IInv
  <2>2. runs'[r].status = "QUEUED"
    BY <1>1, <2>1 DEF Inserts, RInv, IInv, TypeOK, NewRun, NoRun
  <2> QED BY <2>2 DEF HasStarted
<1>2. CASE ~(r = created + 1 /\ created' # created)
  <2>1. ~\E p \in Process : pc[p] = "recover" /\ r \in frame[p].todo
    BY DEF RInv, ListsAreOverdue, StartsKnown
  <2>2. ~\E p \in Process : r = frame[p].run /\ pc[p] \in {"succeed", "fail"}
    BY DEF RInv, StartsKnown, Marked
  <2>3. ASSUME NEW p \in Process, r = frame[p].run, Settles(p, r) PROVE FALSE
    BY <2>2, <2>3 DEF Settles, HasStarted
  <2> QED
    BY <1>2, <2>1, <2>3, AnyRowEffect DEF RInv, IInv, Unchanged, Marks, HasStarted
<1> QED BY <1>1, <1>2

(* The knowledge is kept by every step. *)
LEMMA StartsKnownStep == RInv /\ [Next]_vars => StartsKnown'
<1> SUFFICES ASSUME RInv, [Next]_vars PROVE StartsKnown'
  OBVIOUS
<1> USE DEF RInv, IInv
<1>0. /\ Existing \subseteq RunId /\ Existing \subseteq Existing'
      /\ \A q \in Process : frame[q].todo \subseteq Existing /\ (pc[q] \in InRun => frame[q].run \in Existing)
      /\ \A q \in Process : handlers[q] \subseteq Existing
  BY CreatedGrows, SchedulerAssumption DEF CallsOwnRows, Existing, RunId, TypeOK
<1>1. \A q \in Process :
         \/ pc'[q] = pc[q] /\ frame'[q] = frame[q]
         \/ LeavesRun(q) \/ KeepsRun(q) \/ CreateRun(q)
  <2>1. CASE Pause \/ Resume \/ Tick \/ UNCHANGED vars
    BY <2>1 DEF Pause, Resume, Tick, vars
  <2>2. ASSUME NEW p \in Process, LeavesRun(p) \/ KeepsRun(p) \/ CreateRun(p)
        PROVE  OthersKept(p)
    BY <2>2, LeavesRunShape, KeepsRunShape, CreateRunShape
  <2>3. ASSUME NEW p \in Process, HandlerSettles(p) PROVE pc' = pc /\ frame' = frame
    BY <2>3 DEF HandlerSettles
  <2> QED BY <2>1, <2>2, <2>3, NextCases DEF OthersKept
<1>2. ASSUME NEW r \in RunId \ Existing' PROVE ~HasStarted(r)'
  <2>1. r \in RunId /\ r \notin Existing /\ ~HasStarted(r)
    BY <1>0 DEF StartsKnown
  <2>2. ~\E p \in Process : r = frame[p].run /\ MarkRunning(p)
    BY <1>0, <2>1 DEF InRun, MarkRunning
  <2> QED BY <2>1, <2>2, StartShape
<1>3. ASSUME NEW q \in Process, frame'[q].phase = "recover", NEW r \in frame'[q].todo
      PROVE  HasStarted(r)'
  <2>1. \/ frame[q].phase = "recover" /\ frame'[q].todo \subseteq frame[q].todo
        \/ frame'[q].todo = listRunning(clock) /\ UNCHANGED <<runs, clock>>
    BY <1>1, <1>3, LoopShape DEF Loop
  <2>2. CASE frame[q].phase = "recover" /\ frame'[q].todo \subseteq frame[q].todo
    BY <1>0, <2>2, StartStays DEF StartsKnown
  <2>3. CASE frame'[q].todo = listRunning(clock) /\ UNCHANGED <<runs, clock>>
    BY <2>3 DEF listRunning, HasStarted
  <2> QED BY <2>1, <2>2, <2>3
<1>4. ASSUME NEW q \in Process, pc'[q] \in Marked
      PROVE  HasStarted(frame[q].run)' 
  <2>1. \/ pc[q] \in Marked /\ frame'[q].run = frame[q].run
        \/ frame'[q].run = frame[q].run /\ runs'[frame'[q].run].status \notin {"NONE", "QUEUED", "SKIPPED"}
    BY <1>1, <1>4, MarkedShape DEF HasStarted
  <2>2. CASE pc[q] \in Marked /\ frame'[q].run = frame[q].run
    <3>1. PICK r \in RunId : r = frame[q].run BY <1>0, <2>2 DEF Marked, InRun
    <3>2. HasStarted(r)' BY <2>2, <3>1, StartStays DEF StartsKnown
    <3> QED BY <2>2, <3>1, <3>2 DEF HasStarted
  <2> QED BY <2>1, <2>2 DEF HasStarted
<1>5. ASSUME NEW q \in Process, pc'[q] = "create", frame'[q].call.kind = "retry"
      PROVE  HasStarted(frame[q].call.of)'
  <2>1. \/ pc[q] = "create" /\ frame'[q].call = frame[q].call
        \/ RetrySource(frame'[q].call.of)
    BY <1>5, CallSource
  <2>2. CASE pc[q] = "create" /\ frame'[q].call = frame[q].call
    <3>1. PICK r \in RunId : r = frame[q].call.of
      BY <1>0, <1>5, <2>2 DEF RetriesJustified, RetryJustified, Existing
    <3>2. HasStarted(r)' BY <1>5, <2>2, <3>1, StartStays DEF StartsKnown
    <3> QED BY <2>2, <3>1, <3>2 DEF HasStarted
  <2>3. CASE RetrySource(frame'[q].call.of)
    BY <2>3 DEF RetrySource, HasStarted
  <2> QED BY <2>1, <2>2, <2>3
<1>6. ASSUME NEW q \in Process, NEW r \in handlers'[q] PROVE HasStarted(r)'
  <2>1. CASE r \in handlers[q]
    BY <1>0, <2>1, StartStays DEF StartsKnown, Executing
  <2>2. CASE r \notin handlers[q]
    <3>1. MarkRunning(q) /\ r = frame[q].run
      <4>1. CASE Pause \/ Resume \/ Tick \/ UNCHANGED vars
        BY <1>6, <2>2, <4>1 DEF Pause, Resume, Tick, vars
      <4>2. ASSUME NEW p \in Process,
                   LeavesRun(p) \/ KeepsRun(p) \/ CreateRun(p) \/ HandlerSettles(p)
            PROVE  MarkRunning(q) /\ r = frame[q].run
        BY <1>6, <2>2, <4>2, HandlersShape
      <4> QED BY <4>1, <4>2, NextCases
    <3>2. KeepsRun(q) /\ pc'[q] \in Marked /\ pc[q] = "mark"
      BY <3>1 DEF KeepsRun, MarkRunning, Goto, TypeOK, Marked
    <3>3. frame'[q].run = frame[q].run BY <3>2, KeepsRunShape
    <3> QED BY <1>4, <3>1, <3>2, <3>3 DEF HasStarted
  <2> QED BY <2>1, <2>2
<1> QED BY <1>2, <1>3, <1>4, <1>5, <1>6 DEF StartsKnown, Executing

(* Only a call that has not marked its run takes a lease. *)
LEMMA LeaseKept ==
    ASSUME RInv, [Next]_vars, NEW r \in RunId, HasStarted(r)
    PROVE  lease'[r] = lease[r]
<1>1. ASSUME NEW p \in Process, Acquire(p) \/ AcquireReplyLost(p)
      PROVE  lease'[r] = lease[r]
  <2>1. pc[p] = "acquire" BY <1>1 DEF Acquire, AcquireReplyLost
  <2>2. r # frame[p].run
    BY <2>1 DEF RInv, ListsAreOverdue, Unmarked, HasStarted
  <2> QED
    BY <1>1, <2>2 DEF Acquire, AcquireReplyLost, TakeLock, RInv, IInv, TypeOK
<1>2. CASE lease' = lease BY <1>2
<1> QED
  BY <1>1, <1>2
  DEF Next, Step, HandlerStep, Environment, StartTick, StartCliTick, StartRunDueJobs,
      RunNow, RetryFailure, RecoverRun, ListRetries, ConsumeRetry, ListDue, CreateRun,
      MarkLockConflict, MarkRunning, HandlerReturns, HandlerThrows, HandlerTimesOut,
      HandlerSettles, MarkSucceeded, EmitSucceeded, SucceedThrows, MarkFailed,
      MarkFailedThrows, EmitFailedThrows, ReleaseLock, ReleaseFails, DependencyThrows,
      Crash, Pause, Resume, Tick, vars

(* Rows that keep their keys keep the retries. *)
LEMMA RetriesKept ==
    ASSUME TypeOK, created' = created, \A r \in RunId : KeyKept(r)
    PROVE  automaticRetries' = automaticRetries
<1>1. Existing' = Existing /\ Existing \subseteq RunId
  BY SchedulerAssumption DEF Existing, RunId, TypeOK
<1> QED BY <1>1 DEF automaticRetries, KeyKept

(* Where an execution is, from whether it started, goes on and has its lease. *)
LEMMA PhaseOf ==
    ASSUME NEW r \in RunId
    PROVE  /\ executionPhase[r] = IF ~HasStarted(r) THEN "new"
                                  ELSE IF r \notin Executing THEN "over"
                                  ELSE IF clock < lease[r] THEN "leased" ELSE "unleased"
           /\ executionPhase'[r] = IF ~HasStarted(r)' THEN "new"
                                   ELSE IF r \notin Executing' THEN "over"
                                   ELSE IF clock' < lease'[r] THEN "leased" ELSE "unleased"
BY DEF executionPhase

(* A run whose lease lasts holds the lock. *)
LEMMA LeasedHolds ==
    ASSUME RInv, NEW r \in RunId, executionPhase[r] = "leased"
    PROVE  lock.owner = r
<1>1. r \in Executing /\ clock < lease[r] BY PhaseOf
<1>2. r \in Leased BY <1>1 DEF Leased, Executing
<1> QED BY <1>1, <1>2 DEF RInv, IInv, LeaseHoldsLock

(* markRunning starts the execution, under its lease or too late for it. *)
LEMMA MarkStarts ==
    ASSUME RInv, [Next]_vars, NEW p \in Process, MarkRunning(p)
    PROVE  \E r \in RunId : Executions!Start(r) \/ Executions!StartLate(r)
<1> USE DEF RInv, IInv
<1>0. PICK s \in RunId : s = frame[p].run
  <2>1. frame[p].run \in RunId
    BY SchedulerAssumption
    DEF MarkRunning, CallsOwnRows, Existing, RunId, InRun, TypeOK
  <2> QED BY <2>1
<1>1. pc[p] = "mark" /\ clock' = clock /\ lease' = lease /\ created' = created
  BY DEF MarkRunning
<1>2. ~HasStarted(s) BY <1>0, <1>1 DEF ListsAreOverdue, Unmarked, HasStarted
<1>3. HasStarted(s)'
  <2>1. KeepsRun(p) /\ pc'[p] \in Marked
    BY DEF KeepsRun, MarkRunning, Goto, TypeOK, Marked
  <2>2. frame'[p].run = s BY <1>0, <2>1, KeepsRunShape
  <2>3. StartsKnown' BY StartsKnownStep
  <2>4. HasStarted(frame[p].run)' BY <2>1, <2>3 DEF StartsKnown
  <2> QED BY <2>2, <2>4 DEF HasStarted
<1>4. Executing' = Executing \cup {s} /\ s \notin Executing
  BY <1>0, <1>2 DEF MarkRunning, Executing, TypeOK, StartsKnown
<1>5. ASSUME NEW r \in RunId, r # s PROVE HasStarted(r)' = HasStarted(r)
  <2>1. ASSUME NEW q \in Process, MarkRunning(q) PROVE q = p
    BY <1>1, <2>1 DEF MarkRunning, Goto, TypeOK
  <2>2. HasStarted(r)' => HasStarted(r) BY <1>0, <1>5, <2>1, StartShape
  <2>3. HasStarted(r) => HasStarted(r)' BY StartStays
  <2>4. HasStarted(r) \in BOOLEAN /\ HasStarted(r)' \in BOOLEAN BY DEF HasStarted
  <2> QED BY <2>2, <2>3, <2>4
<1>6. \A r \in RunId : r # s => executionPhase'[r] = executionPhase[r]
  BY <1>1, <1>4, <1>5, PhaseOf
<1>7. executionPhase[s] = "new"
      /\ executionPhase'[s] = IF clock < lease[s] THEN "leased" ELSE "unleased"
  BY <1>1, <1>2, <1>3, <1>4, PhaseOf
<1>8. executionPhase' = [executionPhase EXCEPT ![s] = executionPhase'[s]]
  BY <1>1, <1>6 DEF executionPhase
<1>9. automaticRetries' = automaticRetries
  <2>1. \A q \in Process : ~Inserts(q) BY <1>1 DEF Inserts, TypeOK
  <2> QED BY <2>1, RowsShape, RetriesKept
<1>10. CASE clock < lease[s]
  <2>1. s \in Leased BY <1>0, <1>1 DEF Leased
  <2>2. lock.owner = s BY <1>10, <2>1 DEF LeaseHoldsLock
  <2>3. \A r \in RunId : executionPhase[r] # "leased" BY <1>7, <2>2, LeasedHolds
  <2> QED BY <1>1, <1>7, <1>8, <1>9, <1>10, <2>3 DEF Executions!Start
<1>11. CASE ~(clock < lease[s])
  BY <1>1, <1>7, <1>8, <1>9, <1>11 DEF Executions!StartLate
<1> QED BY <1>10, <1>11

(* Time ends the lease of the run that holds the lock, or nobody's. *)
LEMMA TickExpires ==
    ASSUME RInv, Tick
    PROVE  (\E r \in RunId : Executions!Expire(r)) \/ UNCHANGED <<executionPhase, automaticRetries>>
<1> USE DEF RInv, IInv
<1>1. /\ runs' = runs /\ created' = created /\ lease' = lease /\ handlers' = handlers
      /\ clock \in Nat /\ clock' = clock + 1
  BY DEF Tick, TypeOK
<1>2. automaticRetries' = automaticRetries BY <1>1 DEF automaticRetries, Existing
<1>3. Executing' = Executing /\ \A r \in RunId : HasStarted(r)' = HasStarted(r) /\ lease[r] \in Nat
  BY <1>1 DEF Executing, HasStarted, TypeOK
<1>4. ASSUME NEW r \in RunId
      PROVE  \/ executionPhase'[r] = executionPhase[r]
             \/ executionPhase[r] = "leased" /\ executionPhase'[r] = "unleased"
  <2>1. (clock < lease[r]) = (clock' < lease'[r]) \/ (clock < lease[r] /\ ~(clock' < lease'[r]))
    BY <1>1, <1>3
  <2>2. HasStarted(r)' <=> HasStarted(r) BY <1>1 DEF HasStarted
  <2>3. r \in Executing' <=> r \in Executing BY <1>3
  <2>4. CASE ~HasStarted(r) BY <2>2, <2>4, PhaseOf
  <2>5. CASE HasStarted(r) BY <2>1, <2>2, <2>3, <2>5, PhaseOf
  <2> QED BY <2>4, <2>5
<1>5. executionPhase = [r \in RunId |-> executionPhase[r]]
      /\ executionPhase' = [r \in RunId |-> executionPhase'[r]]
  BY DEF executionPhase
<1>6. ASSUME NEW r \in RunId, executionPhase'[r] # executionPhase[r]
      PROVE  Executions!Expire(r)
  <2>1. executionPhase[r] = "leased" /\ executionPhase'[r] = "unleased" BY <1>4, <1>6
  <2>2. \A s \in RunId : s # r => executionPhase'[s] = executionPhase[s]
    BY <1>4, <2>1, LeasedHolds
  <2>3. executionPhase' = [executionPhase EXCEPT ![r] = "unleased"]
    BY <1>5, <2>1, <2>2
  <2> QED BY <1>2, <2>1, <2>3 DEF Executions!Expire
<1>7. CASE \A r \in RunId : executionPhase'[r] = executionPhase[r]
  <2>1. executionPhase' = executionPhase BY <1>5, <1>7
  <2> QED BY <1>2, <2>1
<1> QED BY <1>6, <1>7

(* A step that inserts a row retries a run that started, or retries none. *)
LEMMA InsertRetries ==
    ASSUME RInv, [Next]_vars, NEW p \in Process, Inserts(p), executionPhase' = executionPhase
    PROVE  (\E r, s \in RunId : Executions!Retry(r, s)) \/ UNCHANGED <<executionPhase, automaticRetries>>
<1> DEFINE n == created + 1
           call == frame[p].call
<1> USE DEF RInv, IInv
<1>0. Existing \subseteq RunId BY SchedulerAssumption DEF Existing, RunId, TypeOK
<1>1. Existing' = Existing \cup {n} /\ n \notin Existing /\ n \in RunId
  BY DEF Inserts, Existing, TypeOK
<1>2. \A r \in Existing : runs'[r] = runs[r]
  BY <1>0, <1>1 DEF Inserts, TypeOK
<1>3. runs'[n].kind = call.kind /\ runs'[n].of = call.of
  <2>1. runs'[n] = NewRun(call) BY DEF Inserts, TypeOK
  <2>2. call \in Call BY DEF TypeOK, Frame
  <2> QED BY <2>1, <2>2 DEF NewRun, NoRun
<1>4. CASE call.kind # "retry"
  <2>1. automaticRetries' = automaticRetries
    BY <1>1, <1>2, <1>3, <1>4 DEF automaticRetries
  <2> QED BY <2>1
<1>5. CASE call.kind = "retry"
  <2>1. automaticRetries' = automaticRetries \cup {<<call.of, n>>}
    BY <1>1, <1>2, <1>3, <1>5 DEF automaticRetries
  <2>2. call.of \in RunId /\ HasStarted(call.of)
    BY <1>0, <1>5 DEF Inserts, RetriesJustified, RetryJustified, Existing, StartsKnown
  <2>3. executionPhase[call.of] # "new" BY <2>2, PhaseOf
  <2>4. executionPhase[n] = "new" BY <1>1, PhaseOf DEF StartsKnown
  <2>5. \A t \in RunId : <<call.of, t>> \notin automaticRetries
    BY <1>5 DEF Inserts, Duplicate, UniqueKind, automaticRetries
  <2>6. Executions!Retry(call.of, n)
    BY <2>1, <2>3, <2>4, <2>5 DEF Executions!Retry
  <2> QED BY <1>1, <2>2, <2>6
<1> QED BY <1>4, <1>5

(* Every other step ends the executions it takes off the handlers. *)
LEMMA OthersStop ==
    ASSUME RInv, [Next]_vars, ~Tick, \A p \in Process : ~MarkRunning(p)
    PROVE  executionPhase' = [r \in RunId |-> IF r \in Executing \ Executing' THEN "over"
                                              ELSE executionPhase[r]]
<1> USE DEF RInv, IInv
<1>1. clock' = clock
  BY DEF Next, Step, HandlerStep, Environment, StartTick, StartCliTick,
         StartRunDueJobs, RunNow, RetryFailure,
         RecoverRun, ListRetries, ConsumeRetry, ListDue, CreateRun, Acquire,
         MarkLockConflict, HandlerReturns, HandlerThrows,
         HandlerTimesOut, HandlerSettles, MarkSucceeded, EmitSucceeded,
         SucceedThrows, MarkFailed, MarkFailedThrows, EmitFailedThrows,
         ReleaseLock, ReleaseFails, AcquireReplyLost, DependencyThrows, Crash,
         Pause, Resume, vars
<1>2. Executing' \subseteq Executing
  <2>1. CASE Pause \/ Resume \/ UNCHANGED vars
    BY <2>1 DEF Pause, Resume, vars, Executing
  <2>2. ASSUME NEW p \in Process,
               LeavesRun(p) \/ KeepsRun(p) \/ CreateRun(p) \/ HandlerSettles(p)
        PROVE  Executing' \subseteq Executing
    BY <2>2, HandlersShape DEF Executing
  <2> QED BY <2>1, <2>2, NextCases
<1>3. ASSUME NEW r \in RunId PROVE HasStarted(r)' = HasStarted(r)
  <2>1. HasStarted(r)' => HasStarted(r) BY StartShape
  <2>2. HasStarted(r) => HasStarted(r)' BY StartStays
  <2>3. HasStarted(r) \in BOOLEAN /\ HasStarted(r)' \in BOOLEAN BY DEF HasStarted
  <2> QED BY <2>1, <2>2, <2>3
<1>4. ASSUME NEW r \in RunId
      PROVE  executionPhase'[r] = IF r \in Executing \ Executing' THEN "over"
                                  ELSE executionPhase[r]
  <2>1. r \in Executing => HasStarted(r) BY DEF StartsKnown
  <2> QED BY <1>1, <1>2, <1>3, <2>1, LeaseKept, PhaseOf
<1>5. executionPhase' = [r \in RunId |-> executionPhase'[r]] BY DEF executionPhase
<1> QED BY <1>4, <1>5

(* Every step is a step of the promised executions or moves nothing of them. *)
LEMMA StepRefines ==
    ASSUME RInv, [Next]_vars
    PROVE  [Executions!Next]_(Executions!vars)
<1> USE DEF RInv, IInv
<1>1. ASSUME NEW p \in Process, MarkRunning(p) PROVE Executions!Next
  BY <1>1, MarkStarts DEF Executions!Next
<1>2. CASE Tick BY <1>2, TickExpires DEF Executions!Next, Executions!vars
<1>3. CASE ~Tick /\ \A p \in Process : ~MarkRunning(p)
  <2> DEFINE R == Executing \ Executing'
  <2>1. executionPhase' = [r \in RunId |-> IF r \in R THEN "over" ELSE executionPhase[r]]
    BY <1>3, OthersStop
  <2>2. CASE created' = created /\ \A r \in RunId : KeyKept(r)
    <3>1. R \in SUBSET RunId BY SchedulerAssumption DEF Executing, TypeOK
    <3>2. \A r \in R : executionPhase[r] \in {"leased", "unleased"}
      BY <3>1, PhaseOf DEF StartsKnown
    <3>3. Executions!Stop(R)
      BY <2>1, <2>2, <3>2, RetriesKept DEF Executions!Stop
    <3> QED BY <3>1, <3>3 DEF Executions!Next
  <2>3. ASSUME NEW p \in Process, Inserts(p) PROVE [Executions!Next]_(Executions!vars)
    <3>1. Executing' = Executing
      <4>1. created' # created BY <2>3 DEF Inserts, TypeOK
      <4>2. \E q \in Process : CreateRun(q)
        BY <4>1 DEF Next, Step, HandlerStep, Environment, StartTick, StartCliTick,
           StartRunDueJobs, RunNow, RetryFailure, RecoverRun, ListRetries, ConsumeRetry,
           ListDue, Acquire, MarkLockConflict, MarkRunning, HandlerReturns, HandlerThrows,
           HandlerTimesOut, HandlerSettles, MarkSucceeded, EmitSucceeded,
           SucceedThrows, MarkFailed, MarkFailedThrows, EmitFailedThrows,
           ReleaseLock, ReleaseFails, AcquireReplyLost, DependencyThrows, Crash,
           Pause, Resume, Tick, vars
      <4> QED BY <4>2 DEF CreateRun, Executing
    <3>2. executionPhase' = executionPhase BY <2>1, <3>1 DEF executionPhase
    <3> QED BY <2>3, <3>2, InsertRetries DEF Executions!Next, Executions!vars
  <2> QED BY <2>2, <2>3, RowsShape
<1> QED BY <1>1, <1>2, <1>3

-----------------------------------------------------------------------------
(* Theorems *)

(* The rows, the lock and every engine call keep their types.              *)
THEOREM TypeCorrect == Spec => []TypeOK
<1>1. IInv => TypeOK BY DEF IInv
<1> QED BY <1>1, Invariant, PTL

(* Two handlers of the job execute at the same time only when the lock of  *)
(* one of them has outlived its TTL, however many processes call the       *)
(* engine and whatever crashes, times out or throws between two of its     *)
(* awaits (acquire, withJobTimeout and the finally block of runJob).       *)
THEOREM MutualExclusion == Spec => []OverlapOnlyAfterExpiry
<1>1. IInv => OverlapOnlyAfterExpiry
  <2> SUFFICES ASSUME IInv, NEW r \in Executing, NEW s \in Executing,
                      ~(lease[r] <= clock), ~(lease[s] <= clock)
               PROVE  r = s
    BY DEF OverlapOnlyAfterExpiry
  <2>1. r \in Leased /\ s \in Leased
    BY DEF Executing, Leased, IInv, TypeOK
  <2>2. clock < lease[r] /\ clock < lease[s]
    BY <2>1 DEF IInv, TypeOK, Leased
  <2>3. lock = [owner |-> r, until |-> lease[r]] /\ lock = [owner |-> s, until |-> lease[s]]
    BY <2>1, <2>2 DEF IInv, LeaseHoldsLock
  <2> QED BY <2>3
<1> QED BY <1>1, Invariant, PTL

(* However recovery, the retry loops of several ticks and a late failure   *)
(* of the same run interleave, one automatic retry of it is created        *)
(* (createRun's unique key "retry:<run>:<attempt>").                       *)
THEOREM RetriesAreUnique == Spec => []OneAutomaticRetry
<1>1. Init => OneAutomaticRetry BY DEF Init, OneAutomaticRetry, Existing
<1>2. IInv /\ OneAutomaticRetry /\ [Next]_vars => OneAutomaticRetry'
  BY OneAutomaticRetryStep DEF IInv
<1> QED BY <1>1, <1>2, Invariant, PTL DEF Spec

(* Automatic retries never exceed job.maxAttempts, whichever path asks for *)
(* them and whatever administrators retried by hand (the comparisons of    *)
(* run.attempt in runJob and recoverAbandonedRuns).                        *)
THEOREM RetriesAreBounded == Spec => []AttemptsWithinBudget
<1>1. Init => RetriesJustified
  BY DEF Init, RetriesJustified, AttemptsWithinBudget, Existing
<1>2. IInv /\ RetriesJustified /\ [Next]_vars => RetriesJustified'
  BY RetriesJustifiedStep DEF IInv
<1>3. RetriesJustified => AttemptsWithinBudget BY DEF RetriesJustified
<1> QED BY <1>1, <1>2, <1>3, Invariant, PTL DEF Spec

(* Recovery never abandons a run before its timeout is over, although it   *)
(* works on a list that was read before, by id, while other processes run  *)
(* the rows of that list (recoverAbandonedRuns against markRunning,        *)
(* markSucceeded and markFailed).                                          *)
THEOREM HealthyRunsSurvive == Spec => []HealthyRunsNotAbandoned
<1>1. Init => ListsAreOverdue
  BY DEF Init, ListsAreOverdue, HealthyRunsNotAbandoned, Existing, NoFrame, Unmarked
<1>2. IInv /\ ListsAreOverdue /\ [Next]_vars => ListsAreOverdue'
  BY ListsAreOverdueStep
<1>3. ListsAreOverdue => HealthyRunsNotAbandoned BY DEF ListsAreOverdue
<1> QED BY <1>1, <1>2, <1>3, Invariant, PTL DEF Spec

(* The engine implements the executions it promises: a run executes at     *)
(* most once, executions whose leases last exclude each other, and a run   *)
(* is retried automatically once, after it had started, whatever crashes,  *)
(* times out, throws or overlaps between two awaits (runJob, runDueJobs,   *)
(* recoverAbandonedRuns, the lock's TTL and the idempotency keys).         *)
THEOREM ExecutionsImplemented == Spec => ImplementsExecutions
<1>1. Init => Executions!Init /\ ListsAreOverdue /\ RetriesJustified /\ OneAutomaticRetry /\ StartsKnown
  <2> SUFFICES ASSUME Init
               PROVE  /\ Executions!Init /\ ListsAreOverdue /\ RetriesJustified
                      /\ OneAutomaticRetry /\ StartsKnown
    OBVIOUS
  <2>1. Existing = {} BY DEF Init, Existing
  <2>2. \A r \in RunId : ~HasStarted(r) BY DEF Init, HasStarted, NoRun
  <2>3. automaticRetries = {} BY <2>1 DEF automaticRetries
  <2>4. Executions!Init BY <2>2, <2>3 DEF Executions!Init, executionPhase
  <2>5. ListsAreOverdue /\ RetriesJustified /\ OneAutomaticRetry
    BY <2>1 DEF Init, ListsAreOverdue, HealthyRunsNotAbandoned, NoFrame, Unmarked,
       RetriesJustified, AttemptsWithinBudget, OneAutomaticRetry
  <2>6. StartsKnown
    BY <2>2 DEF Init, StartsKnown, NoFrame, Marked, Executing
  <2> QED BY <2>4, <2>5, <2>6
<1>2. RInv /\ [Next]_vars
        => (ListsAreOverdue /\ RetriesJustified /\ OneAutomaticRetry /\ StartsKnown)'
  BY ListsAreOverdueStep, RetriesJustifiedStep, OneAutomaticRetryStep, StartsKnownStep
  DEF RInv, IInv
<1>3. RInv /\ [Next]_vars => [Executions!Next]_(Executions!vars) BY StepRefines
<1> QED
  BY <1>1, <1>2, <1>3, Invariant, PTL DEF Spec, RInv, ImplementsExecutions, Executions!Spec
=============================================================================
