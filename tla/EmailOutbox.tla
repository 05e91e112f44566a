----------------------------- MODULE EmailOutbox -----------------------------
(***************************************************************************)
(* The durable email outbox: dispatchEmailOutbox of platform/email with    *)
(* its store of apps/web/email.ts, the email.outbox job around it and      *)
(* the route that mails an invoice again.                                  *)
(*                                                                         *)
(* A worker is one call of dispatchEmailOutbox at a time, by the scheduler *)
(* or by an administrator's request; nothing keeps two of them apart but   *)
(* the claim of each row.  Every call to the database or to the provider   *)
(* is a step of its own.                                                   *)
(*                                                                         *)
(* A batch computes claimExpiresAt once, so all its claims lapse together: *)
(* `lapsed' is on the worker, for the rows it will claim, and on each row  *)
(* it has claimed.  A dispatch draws a random workerId, so the claims of a *)
(* dead one belong to nobody that still runs: they pass to Dead.  Reusing  *)
(* a worker's name for its next batch is sound: it marks only the row it   *)
(* claimed last, and no other process writes its name.                     *)
(***************************************************************************)
EXTENDS Integers, FiniteSets

CONSTANTS
    Worker,       \* callers of dispatchEmailOutbox
    NumMessages,  \* bound: rows of the outbox, 1..NumMessages by createdAt
    NumRetired,   \* the first of them are of a retired type, left by old code
    MaxAttempts,  \* the five attempts of apps/web/email.ts
    Batch,        \* limit of a scheduled dispatch
    Faults,       \* which faults happen in this instance
    MaxFault      \* bound: how many of them happen

None == "none"
Dead == "dead"

(* A call of the provider or a mark that throws, a process that dies, a    *)
(* batch that is still running at its claimExpiresAt.                      *)
FaultKind == {"provider", "mark", "crash", "lapse"}

ASSUME OutboxAssumption ==
    /\ IsFiniteSet(Worker)
    /\ None \notin Worker /\ Dead \notin Worker
    /\ NumMessages \in Nat
    /\ NumRetired \in 0..NumMessages
    /\ MaxAttempts \in Nat \ {0}
    /\ Batch \in Nat \ {0}
    /\ Faults \subseteq FaultKind
    /\ MaxFault \in Nat

Message == 1..NumMessages

Retired == 1..NumRetired

VARIABLES
    outbox,    \* the EmailOutbox rows
    worker,    \* where each dispatch is
    sends,     \* history: calls of provider.send for each message
    accepted,  \* history: messages the provider took
    recovered, \* history: claims of each message that were recovered
    faults     \* history: faults so far

vars == <<outbox, worker, sends, accepted, recovered, faults>>

Waiting == {"PENDING", "FAILED"}

Final == {"SENT", "PERMANENTLY_FAILED"}

Status == {"absent", "PROCESSING"} \cup Waiting \cup Final

Row == [status: Status, attempts: 0..MaxAttempts,
        claimedBy: Worker \cup {None, Dead}, lapsed: BOOLEAN]

NoRow == [status |-> "absent", attempts |-> 0, claimedBy |-> None, lapsed |-> FALSE]

(* What listDispatchable returned of a row.                                *)
Snapshot == [id: Message, status: Waiting, attempts: 0..(MaxAttempts - 1)]

(* The row of a worker that holds none.                                    *)
NoSnapshot == [id |-> 0, status |-> "PENDING", attempts |-> 0]

Holding == {"send", "sent", "failed"}

Place == {"idle", "recover", "list", "next"} \cup Holding

Frame == [at: Place, todo: SUBSET Snapshot, row: Snapshot \cup {NoSnapshot},
          job: BOOLEAN, lapsed: BOOLEAN]

Idle == [at |-> "idle", todo |-> {}, row |-> NoSnapshot, job |-> FALSE, lapsed |-> FALSE]

-----------------------------------------------------------------------------
(* Old code has left rows of retired types waiting.                        *)
Init ==
    /\ outbox = [m \in Message |->
         IF m \in Retired THEN [NoRow EXCEPT !.status = "PENDING"] ELSE NoRow]
    /\ worker = [w \in Worker |-> Idle]
    /\ sends = [m \in Message |-> 0]
    /\ accepted = {}
    /\ recovered = [m \in Message |-> 0]
    /\ faults = 0

At(w, place) == worker[w].at = place

Goto(w, place) == worker' = [worker EXCEPT ![w].at = place]

Fault(kind) ==
    /\ kind \in Faults
    /\ faults < MaxFault
    /\ faults' = faults + 1

History == <<sends, accepted, recovered>>

(* The newest row: m is created after all rows before it.                  *)
Created(m) ==
    /\ outbox[m].status = "absent"
    /\ \A older \in 1..(m - 1) : outbox[older].status # "absent"

Create(m) ==
    /\ Created(m)
    /\ outbox' = [outbox EXCEPT ![m].status = "PENDING"]

-----------------------------------------------------------------------------
(* queueSecurityEmail inside a business transaction.                       *)
Queue ==
    /\ \E m \in Message : Create(m)
    /\ UNCHANGED <<worker, History, faults>>

(* The admin route that mails an invoice again: a new row, then one        *)
(* dispatch with limit 1.                                                  *)
Reemail(w) ==
    /\ At(w, "idle")
    /\ \E m \in Message : Create(m)
    /\ Goto(w, "recover")
    /\ UNCHANGED <<History, faults>>

(* The scheduler starts email.outbox, which first gives the retired     *)
(* types up without sending them.                                          *)
StartJob(w) ==
    /\ At(w, "idle")
    /\ outbox' = [m \in Message |->
         IF m \in Retired /\ outbox[m].status \in Waiting
         THEN [outbox[m] EXCEPT !.status = "PERMANENTLY_FAILED"] ELSE outbox[m]]
    /\ worker' = [worker EXCEPT ![w] = [@ EXCEPT !.at = "recover", !.job = TRUE]]
    /\ UNCHANGED <<History, faults>>

(* Mutant: no claim is recovered.                                          *)
RecoverNothing(w) ==
    /\ At(w, "recover")
    /\ worker' = [worker EXCEPT ![w] = [@ EXCEPT !.at = "list", !.lapsed = FALSE]]
    /\ UNCHANGED <<outbox, History, faults>>

(* Mutant: every claim counts as expired.                                  *)
AnyClaim(m) == outbox[m].status = "PROCESSING"

Expired(m) == outbox[m].status = "PROCESSING" /\ outbox[m].lapsed

(* recoverExpiredClaims with the clock read that starts the batch; the     *)
(* attempts of the row stay as they were.                                  *)
recoverExpiredClaims(w) ==
    /\ At(w, "recover")
    /\ outbox' = [m \in Message |->
         IF Expired(m)
         THEN [outbox[m] EXCEPT !.status = "FAILED", !.claimedBy = None, !.lapsed = FALSE]
         ELSE outbox[m]]
    /\ recovered' = [m \in Message |-> recovered[m] + IF Expired(m) THEN 1 ELSE 0]
    /\ worker' = [worker EXCEPT ![w] = [@ EXCEPT !.at = "list", !.lapsed = FALSE]]
    /\ UNCHANGED <<sends, accepted, faults>>

Dispatchable ==
    {m \in Message \ Retired :
        outbox[m].status \in Waiting /\ outbox[m].attempts < MaxAttempts}

(* ORDER BY createdAt LIMIT n.                                             *)
Oldest(messages, n) ==
    {m \in messages : Cardinality({older \in messages : older < m}) < n}

listDispatchable(w) ==
    /\ At(w, "list")
    /\ LET listed == Oldest(Dispatchable, IF worker[w].job THEN Batch ELSE 1)
           snapshot(m) == [id |-> m, status |-> outbox[m].status,
                           attempts |-> outbox[m].attempts]
       IN  worker' = [worker EXCEPT ![w] =
              [@ EXCEPT !.at = "next", !.todo = {snapshot(m) : m \in listed}]]
    /\ UNCHANGED <<outbox, History, faults>>

(* The row is still what the batch read.                                   *)
Unchanged(snapshot) ==
    /\ outbox[snapshot.id].status = snapshot.status
    /\ outbox[snapshot.id].attempts = snapshot.attempts

(* The next row of the batch is claimed, or skipped when it has changed.   *)
claim(w) ==
    /\ At(w, "next")
    /\ \E row \in worker[w].todo :
         /\ \A other \in worker[w].todo : row.id <= other.id
         /\ LET rest == worker[w].todo \ {row}
            IN  \/ /\ Unchanged(row)
                   /\ outbox' = [outbox EXCEPT ![row.id] =
                        [@ EXCEPT !.status = "PROCESSING", !.claimedBy = w,
                                  !.lapsed = worker[w].lapsed]]
                   /\ worker' = [worker EXCEPT ![w] =
                        [@ EXCEPT !.at = "send", !.row = row, !.todo = rest]]
                \/ /\ ~Unchanged(row)
                   /\ worker' = [worker EXCEPT ![w].todo = rest]
                   /\ UNCHANGED outbox
    /\ UNCHANGED <<History, faults>>

(* Mutant: an error of the provider is swallowed.                          *)
sendSwallowed(w) ==
    /\ At(w, "send")
    /\ LET m == worker[w].row.id
       IN  /\ sends' = [sends EXCEPT ![m] = @ + 1]
           /\ accepted' \in {accepted, accepted \cup {m}}
    /\ Goto(w, "sent")
    /\ UNCHANGED <<outbox, recovered, faults>>

(* provider.send.  A call that throws may have delivered the message.      *)
send(w) ==
    /\ At(w, "send")
    /\ LET m == worker[w].row.id
       IN  /\ sends' = [sends EXCEPT ![m] = @ + 1]
           /\ \/ /\ accepted' = accepted \cup {m}
                 /\ Goto(w, "sent")
                 /\ UNCHANGED faults
              \/ /\ accepted' \in {accepted, accepted \cup {m}}
                 /\ Goto(w, "failed")
                 /\ Fault("provider")
    /\ UNCHANGED <<outbox, recovered>>

(* WHERE id AND status = PROCESSING AND claimedBy.                         *)
Owns(w) ==
    LET row == outbox[worker[w].row.id]
    IN  row.status = "PROCESSING" /\ row.claimedBy = w

(* Mutant: the mark keeps the claim.                                       *)
MarkedStillClaimed(w) ==
    outbox' = [outbox EXCEPT ![worker[w].row.id] =
        [@ EXCEPT !.status = "SENT", !.attempts = worker[w].row.attempts + 1]]

(* Mutant: the attempt is not counted.                                     *)
MarkedUncounted(w) ==
    outbox' = [outbox EXCEPT ![worker[w].row.id] =
        [@ EXCEPT !.status = "SENT", !.claimedBy = None, !.lapsed = FALSE]]

Marked(w) ==
    outbox' = [outbox EXCEPT ![worker[w].row.id] =
        [status |-> "SENT", attempts |-> worker[w].row.attempts + 1,
         claimedBy |-> None, lapsed |-> FALSE]]

(* A mark whose claim was lost changes nothing; the loop goes on.          *)
markSent(w) ==
    /\ At(w, "sent")
    /\ \/ Owns(w) /\ Marked(w)
       \/ ~Owns(w) /\ UNCHANGED outbox
    /\ worker' = [worker EXCEPT ![w] = [@ EXCEPT !.at = "next", !.row = NoSnapshot]]
    /\ UNCHANGED <<History, faults>>

(* markSent throws inside the try, after the message was sent.             *)
MarkSentFails(w) ==
    /\ At(w, "sent")
    /\ Fault("mark")
    /\ Goto(w, "failed")
    /\ UNCHANGED <<outbox, History>>

(* The process is gone: what it has claimed belongs to a dead dispatch.    *)
Abandon(w) ==
    /\ worker' = [worker EXCEPT ![w] = Idle]
    /\ outbox' = [m \in Message |->
         IF outbox[m].claimedBy = w THEN [outbox[m] EXCEPT !.claimedBy = Dead]
         ELSE outbox[m]]

(* markFailed casts the new status to "EmailOutboxStatus", a type that no  *)
(* migration creates: the column is TEXT.  PostgreSQL refuses the          *)
(* statement, so the catch throws, the dispatch ends with the rest of its  *)
(* batch undone and the row keeps its claim and its attempts.              *)
markFailed(w) ==
    /\ At(w, "failed")
    /\ Abandon(w)
    /\ UNCHANGED <<History, faults>>

(* The batch is done.  The job has a last statement: what is left FAILED   *)
(* at the last attempt is given up.                                        *)
Finish(w) ==
    /\ At(w, "next")
    /\ worker[w].todo = {}
    /\ outbox' = [m \in Message |->
         IF /\ worker[w].job
            /\ outbox[m].status = "FAILED" /\ outbox[m].attempts >= MaxAttempts
         THEN [outbox[m] EXCEPT !.status = "PERMANENTLY_FAILED"] ELSE outbox[m]]
    /\ worker' = [worker EXCEPT ![w] = Idle]
    /\ UNCHANGED <<History, faults>>

-----------------------------------------------------------------------------
(* The process dies, or a call outside the try throws out of the dispatch. *)
Crash(w) ==
    /\ ~At(w, "idle")
    /\ Fault("crash")
    /\ Abandon(w)
    /\ UNCHANGED History

(* A running batch reaches its claimExpiresAt.                             *)
Lapse(w) ==
    /\ worker[w].at \in {"list", "next"} \cup Holding
    /\ ~worker[w].lapsed
    /\ Fault("lapse")
    /\ worker' = [worker EXCEPT ![w].lapsed = TRUE]
    /\ outbox' = [m \in Message |->
         IF outbox[m].claimedBy = w THEN [outbox[m] EXCEPT !.lapsed = TRUE]
         ELSE outbox[m]]
    /\ UNCHANGED History

(* So does the claim of a dead one.                                        *)
LapseDead ==
    /\ \E m \in Message :
         /\ outbox[m].claimedBy = Dead
         /\ ~outbox[m].lapsed
         /\ outbox' = [outbox EXCEPT ![m].lapsed = TRUE]
    /\ UNCHANGED <<worker, History, faults>>

Work(w) ==
    \/ recoverExpiredClaims(w) \/ listDispatchable(w) \/ claim(w)
    \/ send(w) \/ markSent(w) \/ markFailed(w) \/ Finish(w)

Next ==
    \/ Queue \/ LapseDead
    \/ \E w \in Worker :
         \/ Reemail(w) \/ StartJob(w) \/ Work(w)
         \/ MarkSentFails(w) \/ Crash(w) \/ Lapse(w)

Spec == Init /\ [][Next]_vars

(* The scheduler starts email.outbox again and again, calls return and  *)
(* the claims of dead workers expire.                                      *)
Fairness ==
    /\ \A w \in Worker : WF_vars(StartJob(w)) /\ WF_vars(Work(w))
    /\ WF_vars(LapseDead)

FairSpec == Spec /\ Fairness

-----------------------------------------------------------------------------
(* The rows and the workers stay within their types; exactly the rows in   *)
(* PROCESSING carry a claim.                                               *)
TypeOK ==
    /\ outbox \in [Message -> Row]
    /\ worker \in [Worker -> Frame]
    /\ sends \in [Message -> Nat]
    /\ accepted \in SUBSET Message
    /\ recovered \in [Message -> Nat]
    /\ faults \in 0..MaxFault
    /\ \A m \in Message : outbox[m].status = "PROCESSING" <=> outbox[m].claimedBy # None

(* A worker between its claim and its mark still owns the row unless its   *)
(* batch has lapsed: two workers send the same message only when the first *)
(* one overran its claim.                                                  *)
ClaimIsExclusive ==
    \A w \in Worker :
        worker[w].at \in Holding /\ ~worker[w].lapsed =>
            outbox[worker[w].row.id].claimedBy = w

(* A message marked SENT was taken by the provider, whichever worker       *)
(* marked it.                                                              *)
SentMeansAccepted ==
    \A m \in Message : outbox[m].status = "SENT" => m \in accepted

(* Every call of the provider beyond the attempts on the row is explained  *)
(* by a claim that was recovered: no batch mails a row it does not hold,   *)
(* however stale its list.                                                 *)
SendsAreAccounted ==
    \A m \in Message :
        sends[m] <= outbox[m].attempts + recovered[m]
                    + IF outbox[m].status = "PROCESSING" THEN 1 ELSE 0

(* The attempts of a row count its delivery and nothing else, since no     *)
(* failure is ever recorded (markFailed): so the attempt limit bites no    *)
(* message, and none but those of retired types is given up.               *)
AttemptsCountDeliveries ==
    \A m \in Message :
        /\ outbox[m].attempts = IF outbox[m].status = "SENT" THEN 1 ELSE 0
        /\ outbox[m].status = "PERMANENTLY_FAILED" => m \in Retired

PhaseOf(row) ==
    CASE row.status = "absent"             -> "absent"
      [] row.status = "PENDING"            -> "fresh"
      [] row.status = "FAILED"             -> "back"
      [] row.status = "SENT"               -> "sent"
      [] row.status = "PERMANENTLY_FAILED" -> "dropped"
      [] row.status = "PROCESSING"         -> IF row.lapsed THEN "lapsed" ELSE "held"

deliveryPhase == [m \in Message |-> PhaseOf(outbox[m])]

Delivery == INSTANCE LeasedDelivery WITH phase <- deliveryPhase, taken <- accepted

(* Whatever workers, stale lists, lost marks and crashes lie underneath,   *)
(* the rows and the provider follow a queue with leases: only claims that  *)
(* lapsed are taken back, only messages that were taken become SENT, and   *)
(* SENT is for ever.                                                       *)
ImplementsDelivery == Delivery!Spec

(* Every message is eventually sent or given up, once the provider and the *)
(* workers stop failing: no row stays behind a claim or a failed batch.    *)
EveryMessageSettles ==
    \A m \in Message :
        outbox[m].status # "absent" ~> outbox[m].status \in Final

(* The five-attempt boundary of docs/job-retry-policy.md, of the calls     *)
(* that reach the provider.                                                *)
FiveAttemptBoundary ==
    \A m \in Message : sends[m] <= MaxAttempts
=============================================================================
