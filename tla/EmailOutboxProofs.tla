-------------------------- MODULE EmailOutboxProofs --------------------------
(***************************************************************************)
(* Proofs about EmailOutbox for any number of workers, messages, attempts, *)
(* batches and faults: its types, that a claim is exclusive until its      *)
(* batch has lapsed, that a message marked SENT was taken, how often the   *)
(* provider is called, and that the outbox is a queue with leases.         *)
(*                                                                         *)
(* What the properties rest on is where a claim may be: a row names as its *)
(* owner only a worker that works on this very row, and the row has lapsed *)
(* exactly when the batch of its owner has.  So a recovery, which looks at *)
(* the row alone, takes a claim from no worker whose batch still runs.     *)
(***************************************************************************)
EXTENDS EmailOutbox, FiniteSetTheorems, TLAPS

(* The owner that a row names works on it, and both have lapsed or neither *)
(* has.                                                                    *)
ClaimsAreHeld ==
    \A m \in Message, w \in Worker :
       outbox[m].claimedBy = w =>
          /\ worker[w].at \in Holding
          /\ worker[w].row.id = m
          /\ outbox[m].lapsed = worker[w].lapsed

(* A worker between its claim and its mark has the snapshot it claimed by. *)
HoldersKnowTheirRow ==
    \A w \in Worker : worker[w].at \in Holding => worker[w].row \in Snapshot

(* A worker that is about to mark a message SENT has seen it taken.        *)
MarkersWereAnswered ==
    \A w \in Worker : worker[w].at = "sent" => worker[w].row.id \in accepted

(* The inductive invariant.                                                *)
IInv ==
    /\ TypeOK
    /\ ClaimsAreHeld
    /\ HoldersKnowTheirRow
    /\ ClaimIsExclusive
    /\ MarkersWereAnswered
    /\ SentMeansAccepted

-----------------------------------------------------------------------------
(* What an action needs to know of the names None and Dead.                *)
LEMMA Names ==
    /\ None \notin Worker /\ Dead \notin Worker
    /\ None # Dead
BY OutboxAssumption DEF None, Dead

(* The frame of a worker that is at rest.                                  *)
LEMMA IdleIsAFrame ==
    Idle \in Frame /\ Idle.at = "idle"
BY DEF Idle, Frame, Place, Holding, NoSnapshot

(* The row that a holder works on is a row of the outbox.                  *)
LEMMA HeldRow ==
    ASSUME IInv, NEW w \in Worker, worker[w].at \in Holding
    PROVE  /\ worker[w].row \in Snapshot
           /\ worker[w].row.id \in Message
           /\ worker[w].row.attempts \in 0..(MaxAttempts - 1)
BY DEF IInv, HoldersKnowTheirRow, Snapshot

(* A row that is not PROCESSING has no owner.                              *)
LEMMA Unowned ==
    ASSUME TypeOK, NEW m \in Message, outbox[m].status # "PROCESSING"
    PROVE  /\ outbox[m].claimedBy = None
           /\ \A w \in Worker : outbox[m].claimedBy # w
BY Names DEF TypeOK

(* A step that changes the outbox only in rows without a worker as owner,  *)
(* marks nothing SENT and moves no worker preserves the invariant.         *)
LEMMA QuietStep ==
    ASSUME IInv, TypeOK',
           UNCHANGED <<worker, accepted>>,
           \A m \in Message :
              \/ outbox'[m] = outbox[m]
              \/ /\ outbox'[m].status # "SENT"
                 /\ \A w \in Worker : outbox'[m].claimedBy # w
                 /\ \A w \in Worker : outbox[m].claimedBy # w
    PROVE  IInv'
<1>1. ClaimsAreHeld'
  BY DEF IInv, ClaimsAreHeld
<1>2. HoldersKnowTheirRow' /\ MarkersWereAnswered'
  BY DEF IInv, HoldersKnowTheirRow, MarkersWereAnswered
<1>3. ClaimIsExclusive'
  BY HeldRow DEF IInv, ClaimIsExclusive
<1>4. SentMeansAccepted'
  BY DEF IInv, SentMeansAccepted
<1> QED
  BY <1>1, <1>2, <1>3, <1>4 DEF IInv

-----------------------------------------------------------------------------
(* The start: rows of retired types wait, nobody has claimed anything.     *)
LEMMA Starts == Init => IInv
<1> SUFFICES ASSUME Init PROVE IInv
  OBVIOUS
<1>0. 0 \in 0..MaxAttempts
  BY OutboxAssumption
<1>a. NoRow \in Row
  BY <1>0 DEF NoRow, Row, Status
<1>b. [NoRow EXCEPT !.status = "PENDING"] \in Row
  BY <1>a DEF Row, Status, Waiting
<1>1. NoRow \in Row /\ [NoRow EXCEPT !.status = "PENDING"] \in Row
  BY <1>a, <1>b
<1>2. \A m \in Message : /\ outbox[m].status \in {"PENDING", "absent"}
                         /\ outbox[m].claimedBy = None
  BY DEF Init, NoRow
<1>3. \A w \in Worker : worker[w].at = "idle"
  BY IdleIsAFrame DEF Init
<1>4. outbox \in [Message -> Row]
  BY <1>1 DEF Init
<1>5. TypeOK
  BY <1>2, <1>4, IdleIsAFrame, OutboxAssumption DEF Init, TypeOK
<1>6. ClaimsAreHeld
  BY <1>2, Names DEF ClaimsAreHeld
<1>7. HoldersKnowTheirRow /\ ClaimIsExclusive /\ MarkersWereAnswered
  BY <1>3 DEF HoldersKnowTheirRow, ClaimIsExclusive, MarkersWereAnswered, Holding
<1>8. SentMeansAccepted
  BY <1>2 DEF SentMeansAccepted
<1> QED
  BY <1>5, <1>6, <1>7, <1>8 DEF IInv

-----------------------------------------------------------------------------
(* A new row waits without an owner.                                       *)
LEMMA CreateShape ==
    ASSUME TypeOK, NEW m \in Message, Create(m)
    PROVE  /\ outbox' \in [Message -> Row]
           /\ \A n \in Message : n # m => outbox'[n] = outbox[n]
           /\ outbox'[m].status = "PENDING"
           /\ outbox[m].claimedBy = None
           /\ outbox'[m].claimedBy = None
<1>1. outbox \in [Message -> Row] /\ outbox[m] \in Row
  BY DEF TypeOK
<1>2. outbox[m].status = "absent"
  BY DEF Create, Created
<1>3. outbox[m].claimedBy = None
  BY <1>2, Unowned
<1>4. outbox' = [outbox EXCEPT ![m] = [outbox[m] EXCEPT !.status = "PENDING"]]
  BY DEF Create
<1>5. [outbox[m] EXCEPT !.status = "PENDING"] \in Row
  BY <1>1 DEF Row, Status, Waiting
<1>6. outbox'[m] = [outbox[m] EXCEPT !.status = "PENDING"]
  BY <1>1, <1>4
<1> QED
  BY <1>1, <1>3, <1>4, <1>5, <1>6 DEF Row

(* A business transaction queues a message.                                *)
LEMMA QueueStep == ASSUME IInv, Queue PROVE IInv'
<1>1. PICK m \in Message : Create(m)
  BY DEF Queue
<1>2. TypeOK
  BY DEF IInv
<1>3. TypeOK'
  BY <1>1, <1>2, CreateShape DEF Queue, History, TypeOK
<1> QED
  BY <1>1, <1>2, <1>3, CreateShape, QuietStep, Names DEF Queue, History

(* The moves of a worker that is at rest, before or after, change nothing  *)
(* that the invariant says of the workers.                                 *)
LEMMA RestingMove ==
    ASSUME IInv, NEW w \in Worker, NEW f \in Frame,
           worker[w].at \notin Holding, f.at \notin Holding,
           worker' = [worker EXCEPT ![w] = f],
           TypeOK',
           UNCHANGED accepted,
           \A m \in Message :
              \/ outbox'[m] = outbox[m]
              \/ /\ outbox'[m].status # "SENT"
                 /\ \A v \in Worker : outbox'[m].claimedBy # v
                 /\ \A v \in Worker : outbox[m].claimedBy = v => worker[v].lapsed
    PROVE  IInv'
<1>1. worker'[w] = f /\ \A v \in Worker : v # w => worker'[v] = worker[v]
  BY DEF IInv, TypeOK
<1>2. \A m \in Message : outbox[m].claimedBy # w
  BY DEF IInv, ClaimsAreHeld
<1>3. ClaimsAreHeld'
  BY <1>1, <1>2 DEF IInv, ClaimsAreHeld
<1>4. HoldersKnowTheirRow' /\ MarkersWereAnswered'
  BY <1>1 DEF IInv, HoldersKnowTheirRow, MarkersWereAnswered, Holding
<1>5. ASSUME NEW v \in Worker, (worker[v].at \in Holding /\ ~worker[v].lapsed)'
      PROVE  (outbox[worker[v].row.id].claimedBy = v)'
  <2>1. v # w /\ worker'[v] = worker[v]
    BY <1>1, <1>5
  <2>2. /\ worker[v].row.id \in Message
        /\ outbox[worker[v].row.id].claimedBy = v
    BY <1>5, <2>1, HeldRow DEF IInv, ClaimIsExclusive
  <2>3. outbox'[worker[v].row.id] = outbox[worker[v].row.id]
    BY <1>5, <2>1, <2>2
  <2> QED
    BY <2>1, <2>2, <2>3
<1>6. ClaimIsExclusive'
  BY <1>5 DEF ClaimIsExclusive
<1>7. SentMeansAccepted'
  BY DEF IInv, SentMeansAccepted
<1> QED
  BY <1>3, <1>4, <1>6, <1>7 DEF IInv

(* An administrator mails an invoice again.                                *)
LEMMA ReemailStep == ASSUME IInv, NEW w \in Worker, Reemail(w) PROVE IInv'
<1>1. PICK m \in Message : Create(m)
  BY DEF Reemail
<1>2. TypeOK /\ worker[w] \in Frame /\ worker[w].at = "idle"
  BY DEF IInv, TypeOK, Reemail, At
<1> DEFINE f == [worker[w] EXCEPT !.at = "recover"]
<1>3. f \in Frame /\ f.at = "recover"
  BY <1>2 DEF Frame, Place
<1>4. worker' = [worker EXCEPT ![w] = f]
  BY DEF Reemail, Goto
<1>5. worker' \in [Worker -> Frame]
  BY <1>2, <1>3, <1>4 DEF TypeOK
<1>6. TypeOK'
  BY <1>1, <1>2, <1>5, CreateShape DEF Reemail, History, TypeOK
<1>7. worker[w].at \notin Holding /\ f.at \notin Holding
  BY <1>2, <1>3 DEF Holding
<1>8. \A n \in Message :
        \/ outbox'[n] = outbox[n]
        \/ /\ outbox'[n].status # "SENT"
           /\ \A v \in Worker : outbox'[n].claimedBy # v
           /\ \A v \in Worker : outbox[n].claimedBy = v => worker[v].lapsed
  BY <1>1, <1>2, CreateShape, Names
<1> HIDE DEF f
<1> QED
  BY <1>3, <1>4, <1>6, <1>7, <1>8, RestingMove DEF Reemail, History

(* The job gives the retired types up, which nobody has claimed.           *)
LEMMA StartJobStep == ASSUME IInv, NEW w \in Worker, StartJob(w) PROVE IInv'
<1>1. TypeOK /\ worker[w] \in Frame /\ worker[w].at = "idle"
  BY DEF IInv, TypeOK, StartJob, At
<1> DEFINE f == [worker[w] EXCEPT !.at = "recover", !.job = TRUE]
           Left(m) == [outbox[m] EXCEPT !.status = "PERMANENTLY_FAILED"]
           Chosen(m) == m \in Retired /\ outbox[m].status \in Waiting
<1>2. f \in Frame /\ f.at = "recover"
  BY <1>1 DEF Frame, Place
<1>3. worker' = [worker EXCEPT ![w] = f]
  BY DEF StartJob
<1>4. worker' \in [Worker -> Frame]
  BY <1>1, <1>2, <1>3 DEF TypeOK
<1>5. outbox' = [m \in Message |-> IF Chosen(m) THEN Left(m) ELSE outbox[m]]
  BY DEF StartJob
<1>6. ASSUME NEW m \in Message, Chosen(m)
      PROVE  /\ Left(m) \in Row
             /\ Left(m).status = "PERMANENTLY_FAILED"
             /\ Left(m).claimedBy = None
             /\ outbox[m].claimedBy = None
  <2>1. outbox[m] \in Row
    BY <1>1 DEF TypeOK
  <2>2. outbox[m].claimedBy = None
    BY <1>1, <1>6, Unowned DEF Waiting
  <2> QED
    BY <2>1, <2>2 DEF Row, Status, Final
<1> HIDE DEF f, Left, Chosen
<1>7. outbox' \in [Message -> Row]
  BY <1>1, <1>5, <1>6 DEF TypeOK
<1>8. \A m \in Message : outbox'[m] = IF Chosen(m) THEN Left(m) ELSE outbox[m]
  BY <1>5
<1>9. TypeOK'
  BY <1>1, <1>4, <1>6, <1>7, <1>8 DEF StartJob, History, TypeOK
<1>10. worker[w].at \notin Holding /\ f.at \notin Holding
  BY <1>1, <1>2 DEF Holding
<1>11. \A m \in Message :
        \/ outbox'[m] = outbox[m]
        \/ /\ outbox'[m].status # "SENT"
           /\ \A v \in Worker : outbox'[m].claimedBy # v
           /\ \A v \in Worker : outbox[m].claimedBy = v => worker[v].lapsed
  BY <1>6, <1>8, Names
<1> QED
  BY <1>2, <1>3, <1>9, <1>10, <1>11, RestingMove DEF StartJob, History

(* A recovery takes rows that have lapsed: their owners have too.          *)
LEMMA RecoverStep ==
    ASSUME IInv, NEW w \in Worker, recoverExpiredClaims(w) PROVE IInv'
<1>1. TypeOK /\ worker[w] \in Frame /\ worker[w].at = "recover"
  BY DEF IInv, TypeOK, recoverExpiredClaims, At
<1> DEFINE f == [worker[w] EXCEPT !.at = "list", !.lapsed = FALSE]
           Freed(m) == [outbox[m] EXCEPT !.status = "FAILED", !.claimedBy = None,
                                         !.lapsed = FALSE]
<1>2. f \in Frame /\ f.at = "list"
  BY <1>1 DEF Frame, Place
<1>3. worker' = [worker EXCEPT ![w] = f]
  BY DEF recoverExpiredClaims
<1>4. worker' \in [Worker -> Frame]
  BY <1>1, <1>2, <1>3 DEF TypeOK
<1>5. outbox' = [m \in Message |-> IF Expired(m) THEN Freed(m) ELSE outbox[m]]
  BY DEF recoverExpiredClaims
<1>6. ASSUME NEW m \in Message
      PROVE  /\ Freed(m) \in Row
             /\ Freed(m).status = "FAILED"
             /\ Freed(m).claimedBy = None
  <2>1. outbox[m] \in Row
    BY <1>1 DEF TypeOK
  <2> QED
    BY <2>1 DEF Row, Status, Waiting
<1>7. ASSUME NEW m \in Message, Expired(m), NEW v \in Worker, outbox[m].claimedBy = v
      PROVE  worker[v].lapsed
  BY <1>7 DEF IInv, ClaimsAreHeld, Expired
<1> HIDE DEF f, Freed
<1>8. outbox' \in [Message -> Row]
  BY <1>1, <1>5, <1>6 DEF TypeOK
<1>9. \A m \in Message : outbox'[m] = IF Expired(m) THEN Freed(m) ELSE outbox[m]
  BY <1>5
<1>10. recovered' \in [Message -> Nat]
  <2>1. ASSUME NEW m \in Message
        PROVE  recovered[m] + (IF Expired(m) THEN 1 ELSE 0) \in Nat
    BY <1>1 DEF TypeOK
  <2>2. recovered' = [m \in Message |-> recovered[m] + IF Expired(m) THEN 1 ELSE 0]
    BY DEF recoverExpiredClaims
  <2> QED
    BY <2>1, <2>2
<1>11. \A m \in Message : outbox'[m].status = "PROCESSING" <=> outbox'[m].claimedBy # None
  BY <1>1, <1>6, <1>9 DEF TypeOK
<1>12. TypeOK'
  BY <1>1, <1>4, <1>8, <1>10, <1>11 DEF recoverExpiredClaims, TypeOK
<1>13. worker[w].at \notin Holding /\ f.at \notin Holding
  BY <1>1, <1>2 DEF Holding
<1>14. \A m \in Message :
        \/ outbox'[m] = outbox[m]
        \/ /\ outbox'[m].status # "SENT"
           /\ \A v \in Worker : outbox'[m].claimedBy # v
           /\ \A v \in Worker : outbox[m].claimedBy = v => worker[v].lapsed
  BY <1>6, <1>7, <1>9, Names
<1> QED
  BY <1>2, <1>3, <1>12, <1>13, <1>14, RestingMove DEF recoverExpiredClaims

(* The list is of rows with an attempt left.                               *)
LEMMA ListStep ==
    ASSUME IInv, NEW w \in Worker, listDispatchable(w) PROVE IInv'
<1>1. TypeOK /\ worker[w] \in Frame /\ worker[w].at = "list"
  BY DEF IInv, TypeOK, listDispatchable, At
<1> DEFINE snapshot(m) == [id |-> m, status |-> outbox[m].status,
                           attempts |-> outbox[m].attempts]
           listed == Oldest(Dispatchable, IF worker[w].job THEN Batch ELSE 1)
           f == [worker[w] EXCEPT !.at = "next", !.todo = {snapshot(m) : m \in listed}]
<1>2. ASSUME NEW m \in listed PROVE snapshot(m) \in Snapshot
  <2>1. m \in Message /\ outbox[m].status \in Waiting /\ outbox[m].attempts < MaxAttempts
    BY <1>2 DEF Oldest, Dispatchable
  <2>2. outbox[m] \in Row
    BY <1>1, <2>1 DEF TypeOK
  <2>3. outbox[m].attempts \in 0..(MaxAttempts - 1)
    BY <2>1, <2>2, OutboxAssumption DEF Row
  <2> QED
    BY <2>1, <2>3 DEF Snapshot
<1>3. {snapshot(m) : m \in listed} \in SUBSET Snapshot
  BY <1>2
<1>4. f \in Frame /\ f.at = "next"
  BY <1>1, <1>3 DEF Frame, Place
<1>5. worker' = [worker EXCEPT ![w] = f]
  BY DEF listDispatchable
<1> HIDE DEF f
<1>6. worker' \in [Worker -> Frame]
  BY <1>1, <1>4, <1>5 DEF TypeOK
<1>7. TypeOK'
  BY <1>1, <1>6 DEF listDispatchable, History, TypeOK
<1>8. worker[w].at \notin Holding /\ f.at \notin Holding
  BY <1>1, <1>4 DEF Holding
<1> QED
  BY <1>4, <1>5, <1>7, <1>8, RestingMove DEF listDispatchable, History

(* The batch is done.  The rows that the job gives up have no owner.       *)
LEMMA FinishStep ==
    ASSUME IInv, NEW w \in Worker, Finish(w) PROVE IInv'
<1>1. TypeOK /\ worker[w].at = "next"
  BY DEF IInv, Finish, At
<1> DEFINE Left(m) == [outbox[m] EXCEPT !.status = "PERMANENTLY_FAILED"]
           Chosen(m) == /\ worker[w].job
                        /\ outbox[m].status = "FAILED"
                        /\ outbox[m].attempts >= MaxAttempts
<1>2. worker' = [worker EXCEPT ![w] = Idle]
  BY DEF Finish
<1>3. worker' \in [Worker -> Frame]
  BY <1>1, <1>2, IdleIsAFrame DEF TypeOK
<1>4. outbox' = [m \in Message |-> IF Chosen(m) THEN Left(m) ELSE outbox[m]]
  BY DEF Finish
<1>5. ASSUME NEW m \in Message, Chosen(m)
      PROVE  /\ Left(m) \in Row
             /\ Left(m).status = "PERMANENTLY_FAILED"
             /\ Left(m).claimedBy = None
             /\ outbox[m].claimedBy = None
  <2>1. outbox[m] \in Row
    BY <1>1 DEF TypeOK
  <2>2. outbox[m].claimedBy = None
    BY <1>1, <1>5, Unowned
  <2> QED
    BY <2>1, <2>2 DEF Row, Status, Final
<1> HIDE DEF Left, Chosen
<1>6. outbox' \in [Message -> Row]
  BY <1>1, <1>4, <1>5 DEF TypeOK
<1>7. \A m \in Message : outbox'[m] = IF Chosen(m) THEN Left(m) ELSE outbox[m]
  BY <1>4
<1>8. TypeOK'
  BY <1>1, <1>3, <1>5, <1>6, <1>7 DEF Finish, History, TypeOK
<1>9. worker[w].at \notin Holding /\ Idle.at \notin Holding
  BY <1>1, IdleIsAFrame DEF Holding
<1>10. \A m \in Message :
        \/ outbox'[m] = outbox[m]
        \/ /\ outbox'[m].status # "SENT"
           /\ \A v \in Worker : outbox'[m].claimedBy # v
           /\ \A v \in Worker : outbox[m].claimedBy = v => worker[v].lapsed
  BY <1>5, <1>7, Names
<1> QED
  BY <1>2, <1>8, <1>9, <1>10, IdleIsAFrame, RestingMove DEF Finish, History

(* A claim takes a waiting row, which has no owner; one that comes too     *)
(* late only drops the row from the batch.                                 *)
LEMMA ClaimStep ==
    ASSUME IInv, NEW w \in Worker, claim(w) PROVE IInv'
<1>1. TypeOK /\ worker[w] \in Frame /\ worker[w].at = "next"
  BY DEF IInv, TypeOK, claim, At
<1>2. worker[w].todo \in SUBSET Snapshot /\ worker[w].lapsed \in BOOLEAN
  BY <1>1 DEF Frame
<1>3. worker[w].at \notin Holding
  BY <1>1 DEF Holding
<1>4. PICK row \in worker[w].todo :
        \/ /\ Unchanged(row)
           /\ outbox' = [outbox EXCEPT ![row.id] =
                [@ EXCEPT !.status = "PROCESSING", !.claimedBy = w,
                          !.lapsed = worker[w].lapsed]]
           /\ worker' = [worker EXCEPT ![w] =
                [@ EXCEPT !.at = "send", !.row = row, !.todo = worker[w].todo \ {row}]]
        \/ /\ ~Unchanged(row)
           /\ worker' = [worker EXCEPT ![w].todo = worker[w].todo \ {row}]
           /\ UNCHANGED outbox
  BY DEF claim
<1>5. row \in Snapshot /\ row.id \in Message /\ row.status \in Waiting
  BY <1>2 DEF Snapshot
<1>6. CASE Unchanged(row)
  <2> DEFINE m == row.id
             r == [outbox[m] EXCEPT !.status = "PROCESSING", !.claimedBy = w,
                                    !.lapsed = worker[w].lapsed]
             f == [worker[w] EXCEPT !.at = "send", !.row = row,
                                    !.todo = worker[w].todo \ {row}]
  <2>1. outbox' = [outbox EXCEPT ![m] = r] /\ worker' = [worker EXCEPT ![w] = f]
    BY <1>4, <1>6
  <2>2. outbox[m] \in Row /\ outbox[m].status \in Waiting
    BY <1>1, <1>5, <1>6 DEF TypeOK, Unchanged
  <2>3. /\ r \in Row /\ r.status = "PROCESSING" /\ r.claimedBy = w
        /\ r.lapsed = worker[w].lapsed
    BY <1>2, <2>2 DEF Row, Status
  <2>4. /\ f \in Frame /\ f.at = "send" /\ f.row = row
        /\ f.lapsed = worker[w].lapsed
    BY <1>1, <1>2, <1>5 DEF Frame, Place, Holding
  <2>5. \A v \in Worker : outbox[m].claimedBy # v
    BY <1>1, <1>5, <2>2, Unowned DEF Waiting
  <2>6. \A v \in Worker : outbox'[m].claimedBy = v => v = w
    BY <1>1, <1>5, <2>1, <2>3 DEF TypeOK
  <2> HIDE DEF r, f
  <2>7. outbox'[m] = r /\ \A n \in Message : n # m => outbox'[n] = outbox[n]
    BY <1>1, <1>5, <2>1 DEF TypeOK
  <2>8. worker'[w] = f /\ \A v \in Worker : v # w => worker'[v] = worker[v]
    BY <1>1, <2>1 DEF TypeOK
  <2>9. TypeOK'
    <3>1. outbox' \in [Message -> Row] /\ worker' \in [Worker -> Frame]
      BY <1>1, <1>5, <2>1, <2>3, <2>4 DEF TypeOK
    <3>2. r.claimedBy # None
      BY <2>3, Names
    <3> QED
      BY <1>1, <2>3, <2>7, <3>1, <3>2 DEF claim, History, TypeOK
  <2>10. ClaimsAreHeld'
    <3> SUFFICES ASSUME NEW n \in Message, NEW v \in Worker, outbox'[n].claimedBy = v
                 PROVE  /\ worker'[v].at \in Holding
                        /\ worker'[v].row.id = n
                        /\ outbox'[n].lapsed = worker'[v].lapsed
      BY DEF ClaimsAreHeld
    <3>1. CASE n = m
      BY <2>3, <2>4, <2>6, <2>7, <2>8, <3>1 DEF Holding
    <3>2. CASE n # m
      BY <1>3, <2>7, <2>8, <3>2 DEF IInv, ClaimsAreHeld
    <3> QED
      BY <3>1, <3>2
  <2>11. HoldersKnowTheirRow'
    BY <1>5, <2>4, <2>8 DEF IInv, HoldersKnowTheirRow
  <2>12. ClaimIsExclusive'
    <3> SUFFICES ASSUME NEW v \in Worker, worker'[v].at \in Holding, ~worker'[v].lapsed
                 PROVE  outbox'[worker'[v].row.id].claimedBy = v
      BY DEF ClaimIsExclusive
    <3>1. CASE v = w
      BY <2>3, <2>4, <2>7, <2>8, <3>1
    <3>2. CASE v # w
      BY <2>5, <2>7, <2>8, <3>2, HeldRow DEF IInv, ClaimIsExclusive
    <3> QED
      BY <3>1, <3>2
  <2>13. MarkersWereAnswered'
    BY <2>4, <2>8 DEF IInv, MarkersWereAnswered, claim, History
  <2>14. SentMeansAccepted'
    BY <2>3, <2>7 DEF IInv, SentMeansAccepted, claim, History
  <2> QED
    BY <2>9, <2>10, <2>11, <2>12, <2>13, <2>14 DEF IInv
<1>7. CASE ~Unchanged(row)
  <2> DEFINE f == [worker[w] EXCEPT !.todo = worker[w].todo \ {row}]
  <2>1. worker' = [worker EXCEPT ![w] = f] /\ outbox' = outbox
    BY <1>4, <1>7
  <2>2. f \in Frame /\ f.at = "next"
    BY <1>1, <1>2 DEF Frame
  <2> HIDE DEF f
  <2>3. TypeOK'
    BY <1>1, <2>1, <2>2 DEF claim, History, TypeOK
  <2>4. f.at \notin Holding
    BY <2>2 DEF Holding
  <2> QED
    BY <1>3, <2>1, <2>2, <2>3, <2>4, RestingMove DEF claim, History
<1> QED
  BY <1>6, <1>7

(* A holder goes on with the row it has.                                   *)
LEMMA HolderMove ==
    ASSUME IInv, NEW w \in Worker, NEW at \in Holding,
           worker[w].at \in Holding, Goto(w, at),
           UNCHANGED outbox, TypeOK',
           accepted \subseteq accepted',
           at = "sent" => worker[w].row.id \in accepted'
    PROVE  IInv'
<1>1. worker[w] \in Frame
  BY DEF IInv, TypeOK
<1>2. /\ worker'[w] = [worker[w] EXCEPT !.at = at]
      /\ \A v \in Worker : v # w => worker'[v] = worker[v]
  BY DEF IInv, TypeOK, Goto
<1>3. /\ worker'[w].at = at
      /\ worker'[w].row = worker[w].row
      /\ worker'[w].lapsed = worker[w].lapsed
  BY <1>1, <1>2 DEF Frame
<1>4. ClaimsAreHeld'
  <2> SUFFICES ASSUME NEW m \in Message, NEW v \in Worker, outbox[m].claimedBy = v
               PROVE  /\ worker'[v].at \in Holding
                      /\ worker'[v].row.id = m
                      /\ outbox[m].lapsed = worker'[v].lapsed
    BY DEF ClaimsAreHeld
  <2>1. /\ worker[v].at \in Holding /\ worker[v].row.id = m
        /\ outbox[m].lapsed = worker[v].lapsed
    BY DEF IInv, ClaimsAreHeld
  <2> QED
    BY <1>2, <1>3, <2>1
<1>5. HoldersKnowTheirRow' /\ ClaimIsExclusive'
  BY <1>2, <1>3 DEF IInv, HoldersKnowTheirRow, ClaimIsExclusive
<1>6. MarkersWereAnswered'
  BY <1>2, <1>3 DEF IInv, MarkersWereAnswered
<1>7. SentMeansAccepted'
  BY DEF IInv, SentMeansAccepted
<1> QED
  BY <1>4, <1>5, <1>6, <1>7 DEF IInv

(* Its next state of call is a frame again.                                *)
LEMMA GotoFrame ==
    ASSUME TypeOK, NEW w \in Worker, NEW at \in Place, Goto(w, at)
    PROVE  worker' \in [Worker -> Frame]
<1>1. worker[w] \in Frame
  BY DEF TypeOK
<1>2. [worker[w] EXCEPT !.at = at] \in Frame
  BY <1>1 DEF Frame
<1> QED
  BY <1>2 DEF TypeOK, Goto

(* The provider's call: what is to be marked SENT has been taken.          *)
LEMMA SendStep ==
    ASSUME IInv, NEW w \in Worker, send(w) PROVE IInv'
<1>1. TypeOK /\ worker[w].at \in Holding
  BY DEF IInv, send, At, Holding
<1>2. worker[w].row.id \in Message
  BY <1>1, HeldRow
<1> DEFINE m == worker[w].row.id
<1>3. sends' \in [Message -> Nat]
  BY <1>1, <1>2 DEF TypeOK, send
<1>4. CASE accepted' = accepted \cup {m} /\ Goto(w, "sent") /\ UNCHANGED faults
  <2>1. "sent" \in Holding /\ "sent" \in Place
    BY DEF Holding, Place
  <2>2. TypeOK'
    BY <1>1, <1>2, <1>3, <1>4, <2>1, GotoFrame DEF TypeOK, send
  <2> QED
    BY <1>1, <1>4, <2>1, <2>2, HolderMove DEF send
<1>5. CASE accepted' \in {accepted, accepted \cup {m}} /\ Goto(w, "failed") /\ Fault("provider")
  <2>1. "failed" \in Holding /\ "failed" \in Place
    BY DEF Holding, Place
  <2>2. faults' \in 0..MaxFault
    BY <1>1, <1>5, OutboxAssumption DEF Fault, TypeOK
  <2>3. TypeOK'
    BY <1>1, <1>2, <1>3, <1>5, <2>1, <2>2, GotoFrame DEF TypeOK, send
  <2> QED
    BY <1>1, <1>5, <2>1, <2>3, HolderMove DEF send
<1> QED
  BY <1>4, <1>5 DEF send

(* The mark throws after the message was sent.                             *)
LEMMA MarkSentFailsStep ==
    ASSUME IInv, NEW w \in Worker, MarkSentFails(w) PROVE IInv'
<1>1. TypeOK /\ worker[w].at \in Holding
  BY DEF IInv, MarkSentFails, At, Holding
<1>2. "failed" \in Holding /\ "failed" \in Place
  BY DEF Holding, Place
<1>3. faults' \in 0..MaxFault
  BY <1>1, OutboxAssumption DEF MarkSentFails, Fault, TypeOK
<1>4. TypeOK'
  BY <1>1, <1>2, <1>3, GotoFrame DEF TypeOK, MarkSentFails, History
<1> QED
  BY <1>1, <1>2, <1>4, HolderMove DEF MarkSentFails, History

(* A mark touches the row of its own claim or nothing.                     *)
LEMMA MarkSentStep ==
    ASSUME IInv, NEW w \in Worker, markSent(w) PROVE IInv'
<1>1. TypeOK /\ worker[w] \in Frame /\ worker[w].at = "sent"
  BY DEF IInv, TypeOK, markSent, At
<1>2. worker[w].at \in Holding
  BY <1>1 DEF Holding
<1> DEFINE m == worker[w].row.id
           f == [worker[w] EXCEPT !.at = "next", !.row = NoSnapshot]
           r == [status |-> "SENT", attempts |-> worker[w].row.attempts + 1,
                 claimedBy |-> None, lapsed |-> FALSE]
<1>3. m \in Message /\ worker[w].row.attempts \in 0..(MaxAttempts - 1)
  BY <1>2, HeldRow
<1>4. f \in Frame /\ f.at = "next"
  BY <1>1 DEF Frame, Place
<1>5. r \in Row /\ r.status = "SENT" /\ r.claimedBy = None
  <2>1. worker[w].row.attempts + 1 \in 0..MaxAttempts
    BY <1>3, OutboxAssumption
  <2> QED
    BY <2>1 DEF Row, Status, Final
<1>6. worker' = [worker EXCEPT ![w] = f]
  BY DEF markSent
<1>7. m \in accepted
  BY <1>1 DEF IInv, MarkersWereAnswered
<1>8. \/ outbox' = [outbox EXCEPT ![m] = r] /\ outbox[m].claimedBy = w
      \/ outbox' = outbox /\ ~Owns(w)
  BY DEF markSent, Marked, Owns
<1> HIDE DEF f, r
<1>9. worker'[w] = f /\ \A v \in Worker : v # w => worker'[v] = worker[v]
  BY <1>1, <1>6 DEF TypeOK
<1>10. /\ \A n \in Message : n # m => outbox'[n] = outbox[n]
       /\ \/ outbox'[m] = r /\ outbox[m].claimedBy = w
          \/ outbox'[m] = outbox[m] /\ outbox[m].claimedBy # w
  <2>1. CASE outbox' = [outbox EXCEPT ![m] = r] /\ outbox[m].claimedBy = w
    BY <1>1, <1>3, <2>1 DEF TypeOK
  <2>2. CASE outbox' = outbox /\ ~Owns(w)
    <3>1. outbox[m].claimedBy = w => outbox[m].status = "PROCESSING"
      BY <1>1, <1>3, Names DEF TypeOK
    <3> QED
      BY <2>2, <3>1 DEF Owns
  <2> QED
    BY <1>8, <2>1, <2>2
<1>11. TypeOK'
  <2>1. worker' \in [Worker -> Frame]
    BY <1>1, <1>4, <1>6 DEF TypeOK
  <2>2. outbox' \in [Message -> Row]
    BY <1>1, <1>3, <1>5, <1>8 DEF TypeOK
  <2>3. \A n \in Message : outbox'[n].status = "PROCESSING" <=> outbox'[n].claimedBy # None
    BY <1>1, <1>3, <1>5, <1>10 DEF TypeOK
  <2> QED
    BY <1>1, <2>1, <2>2, <2>3 DEF markSent, History, TypeOK
<1>12. ClaimsAreHeld'
  <2> SUFFICES ASSUME NEW n \in Message, NEW v \in Worker, outbox'[n].claimedBy = v
               PROVE  /\ worker'[v].at \in Holding
                      /\ worker'[v].row.id = n
                      /\ outbox'[n].lapsed = worker'[v].lapsed
    BY DEF ClaimsAreHeld
  <2>1. outbox'[n] = outbox[n]
    BY <1>5, <1>10, Names
  <2>2. /\ worker[v].at \in Holding /\ worker[v].row.id = n
        /\ outbox[n].lapsed = worker[v].lapsed
    BY <2>1 DEF IInv, ClaimsAreHeld
  <2>3. v # w
    BY <1>5, <1>10, <2>2, Names
  <2> QED
    BY <1>9, <2>1, <2>2, <2>3
<1>13. HoldersKnowTheirRow' /\ MarkersWereAnswered'
  BY <1>4, <1>9 DEF IInv, HoldersKnowTheirRow, MarkersWereAnswered, Holding, markSent, History
<1>14. ClaimIsExclusive'
  <2> SUFFICES ASSUME NEW v \in Worker, worker'[v].at \in Holding, ~worker'[v].lapsed
               PROVE  outbox'[worker'[v].row.id].claimedBy = v
    BY DEF ClaimIsExclusive
  <2>1. v # w /\ worker'[v] = worker[v]
    BY <1>4, <1>9 DEF Holding
  <2>2. worker[v].row.id \in Message /\ outbox[worker[v].row.id].claimedBy = v
    BY <2>1, HeldRow DEF IInv, ClaimIsExclusive
  <2>3. outbox'[worker[v].row.id] = outbox[worker[v].row.id]
    BY <1>10, <2>1, <2>2
  <2> QED
    BY <2>1, <2>2, <2>3
<1>15. SentMeansAccepted'
  BY <1>7, <1>10 DEF IInv, SentMeansAccepted, markSent, History
<1> QED
  BY <1>11, <1>12, <1>13, <1>14, <1>15 DEF IInv

(* A dead worker's claim passes to nobody that still works.                *)
LEMMA AbandonStep ==
    ASSUME IInv, NEW w \in Worker, Abandon(w), UNCHANGED History, faults' \in 0..MaxFault
    PROVE  IInv'
<1>1. TypeOK
  BY DEF IInv
<1> DEFINE r(m) == [outbox[m] EXCEPT !.claimedBy = Dead]
<1>2. ASSUME NEW m \in Message
      PROVE  /\ r(m) \in Row /\ r(m).claimedBy = Dead
             /\ r(m).status = outbox[m].status
  <2>1. outbox[m] \in Row
    BY <1>1 DEF TypeOK
  <2> QED
    BY <2>1 DEF Row
<1>3. outbox' = [m \in Message |-> IF outbox[m].claimedBy = w THEN r(m) ELSE outbox[m]]
  BY DEF Abandon
<1>4. worker' = [worker EXCEPT ![w] = Idle]
  BY DEF Abandon
<1> HIDE DEF r
<1>5. \A m \in Message :
        outbox'[m] = IF outbox[m].claimedBy = w THEN r(m) ELSE outbox[m]
  BY <1>3
<1>6. worker'[w] = Idle /\ \A v \in Worker : v # w => worker'[v] = worker[v]
  BY <1>1, <1>4 DEF TypeOK
<1>7. TypeOK'
  <2>1. worker' \in [Worker -> Frame]
    BY <1>1, <1>4, IdleIsAFrame DEF TypeOK
  <2>2. outbox' \in [Message -> Row]
    BY <1>1, <1>2, <1>3 DEF TypeOK
  <2>3. \A m \in Message : outbox'[m].status = "PROCESSING" <=> outbox'[m].claimedBy # None
    BY <1>1, <1>2, <1>5, Names DEF TypeOK
  <2> QED
    BY <1>1, <2>1, <2>2, <2>3 DEF History, TypeOK
<1>8. ClaimsAreHeld'
  BY <1>2, <1>5, <1>6, Names DEF IInv, ClaimsAreHeld
<1>9. HoldersKnowTheirRow' /\ MarkersWereAnswered'
  BY <1>6, IdleIsAFrame DEF IInv, HoldersKnowTheirRow, MarkersWereAnswered, Holding, History
<1>10. ClaimIsExclusive'
  <2> SUFFICES ASSUME NEW v \in Worker, worker'[v].at \in Holding, ~worker'[v].lapsed
               PROVE  outbox'[worker'[v].row.id].claimedBy = v
    BY DEF ClaimIsExclusive
  <2>1. v # w /\ worker'[v] = worker[v]
    BY <1>6, IdleIsAFrame DEF Holding
  <2>2. worker[v].row.id \in Message /\ outbox[worker[v].row.id].claimedBy = v
    BY <2>1, HeldRow DEF IInv, ClaimIsExclusive
  <2> QED
    BY <1>5, <2>1, <2>2
<1>11. SentMeansAccepted'
  BY <1>2, <1>5 DEF IInv, SentMeansAccepted, History
<1> QED
  BY <1>7, <1>8, <1>9, <1>10, <1>11 DEF IInv

(* A batch lapses with all it has claimed.                                 *)
LEMMA LapseStep ==
    ASSUME IInv, NEW w \in Worker, Lapse(w) PROVE IInv'
<1>1. TypeOK /\ worker[w] \in Frame
  BY DEF IInv, TypeOK
<1> DEFINE f == [worker[w] EXCEPT !.lapsed = TRUE]
           r(m) == [outbox[m] EXCEPT !.lapsed = TRUE]
<1>2. ASSUME NEW m \in Message
      PROVE  /\ r(m) \in Row /\ r(m).lapsed = TRUE
             /\ r(m).status = outbox[m].status /\ r(m).claimedBy = outbox[m].claimedBy
  <2>1. outbox[m] \in Row
    BY <1>1 DEF TypeOK
  <2> QED
    BY <2>1 DEF Row
<1>3. /\ f \in Frame /\ f.at = worker[w].at
      /\ f.row = worker[w].row /\ f.lapsed = TRUE
  BY <1>1 DEF Frame
<1>4. worker' = [worker EXCEPT ![w] = f]
  BY DEF Lapse
<1>5. outbox' = [m \in Message |-> IF outbox[m].claimedBy = w THEN r(m) ELSE outbox[m]]
  BY DEF Lapse
<1> HIDE DEF f, r
<1>6. \A m \in Message :
        outbox'[m] = IF outbox[m].claimedBy = w THEN r(m) ELSE outbox[m]
  BY <1>5
<1>7. worker'[w] = f /\ \A v \in Worker : v # w => worker'[v] = worker[v]
  BY <1>1, <1>4 DEF TypeOK
<1>8. TypeOK'
  <2>1. worker' \in [Worker -> Frame]
    BY <1>1, <1>3, <1>4 DEF TypeOK
  <2>2. outbox' \in [Message -> Row]
    BY <1>1, <1>2, <1>5 DEF TypeOK
  <2>3. \A m \in Message : outbox'[m].status = "PROCESSING" <=> outbox'[m].claimedBy # None
    BY <1>1, <1>2, <1>6 DEF TypeOK
  <2>4. faults' \in 0..MaxFault
    BY <1>1, OutboxAssumption DEF Lapse, Fault, TypeOK
  <2> QED
    BY <1>1, <2>1, <2>2, <2>3, <2>4 DEF Lapse, History, TypeOK
<1>9. ClaimsAreHeld'
  <2> SUFFICES ASSUME NEW n \in Message, NEW v \in Worker, outbox'[n].claimedBy = v
               PROVE  /\ worker'[v].at \in Holding
                      /\ worker'[v].row.id = n
                      /\ outbox'[n].lapsed = worker'[v].lapsed
    BY DEF ClaimsAreHeld
  <2>1. outbox[n].claimedBy = v
    BY <1>2, <1>6
  <2>2. /\ worker[v].at \in Holding /\ worker[v].row.id = n
        /\ outbox[n].lapsed = worker[v].lapsed
    BY <2>1 DEF IInv, ClaimsAreHeld
  <2> QED
    BY <1>2, <1>3, <1>6, <1>7, <2>1, <2>2
<1>10. HoldersKnowTheirRow' /\ MarkersWereAnswered'
  BY <1>3, <1>7 DEF IInv, HoldersKnowTheirRow, MarkersWereAnswered, Lapse, History
<1>11. ClaimIsExclusive'
  <2> SUFFICES ASSUME NEW v \in Worker, worker'[v].at \in Holding, ~worker'[v].lapsed
               PROVE  outbox'[worker'[v].row.id].claimedBy = v
    BY DEF ClaimIsExclusive
  <2>1. v # w /\ worker'[v] = worker[v]
    BY <1>3, <1>7
  <2>2. worker[v].row.id \in Message /\ outbox[worker[v].row.id].claimedBy = v
    BY <2>1, HeldRow DEF IInv, ClaimIsExclusive
  <2> QED
    BY <1>2, <1>6, <2>1, <2>2
<1>12. SentMeansAccepted'
  BY <1>2, <1>6 DEF IInv, SentMeansAccepted, Lapse, History
<1> QED
  BY <1>8, <1>9, <1>10, <1>11, <1>12 DEF IInv

(* So does the claim of a dead one.                                        *)
LEMMA LapseDeadStep == ASSUME IInv, LapseDead PROVE IInv'
<1>1. TypeOK
  BY DEF IInv
<1>2. PICK m \in Message :
        /\ outbox[m].claimedBy = Dead
        /\ outbox' = [outbox EXCEPT ![m] = [outbox[m] EXCEPT !.lapsed = TRUE]]
  BY DEF LapseDead
<1> DEFINE r == [outbox[m] EXCEPT !.lapsed = TRUE]
<1>3. outbox[m] \in Row
  BY <1>1 DEF TypeOK
<1>4. /\ r \in Row /\ r.claimedBy = Dead /\ r.status = outbox[m].status
  BY <1>2, <1>3 DEF Row
<1> HIDE DEF r
<1>5. outbox'[m] = r /\ \A n \in Message : n # m => outbox'[n] = outbox[n]
  BY <1>1, <1>2 DEF TypeOK, r
<1>6. outbox[m].status = "PROCESSING"
  BY <1>1, <1>2, Names DEF TypeOK
<1>7. outbox' \in [Message -> Row]
  BY <1>1, <1>2, <1>4 DEF TypeOK, r
<1>8. TypeOK'
  BY <1>1, <1>4, <1>5, <1>6, <1>7, Names DEF LapseDead, History, TypeOK
<1> QED
  BY <1>2, <1>4, <1>5, <1>6, <1>8, QuietStep, Names DEF LapseDead, History

-----------------------------------------------------------------------------
(* Accounting.  A worker that is about to call the provider is a call that *)
(* the row has already been charged for.                                   *)
Senders(m) == {w \in Worker : worker[w].at = "send" /\ worker[w].row.id = m}

Charged(m) == IF outbox[m].status = "PROCESSING" THEN 1 ELSE 0

CallsAreCharged ==
    \A m \in Message :
       sends[m] + Cardinality(Senders(m))
          <= outbox[m].attempts + recovered[m] + Charged(m)

(* The owner of a row knows its attempts.                                  *)
OwnersAreCurrent ==
    \A w \in Worker :
       worker[w].at \in Holding /\ outbox[worker[w].row.id].claimedBy = w =>
          outbox[worker[w].row.id].attempts = worker[w].row.attempts

Accounts == CallsAreCharged /\ OwnersAreCurrent

(* The numbers of the accounts.                                            *)
LEMMA Numbers ==
    ASSUME TypeOK, NEW m \in Message
    PROVE  /\ sends[m] \in Nat
           /\ outbox[m].attempts \in Nat
           /\ recovered[m] \in Nat
           /\ Charged(m) \in {0, 1}
           /\ IsFiniteSet(Senders(m))
           /\ Cardinality(Senders(m)) \in Nat
<1>1. outbox[m] \in Row /\ sends[m] \in Nat /\ recovered[m] \in Nat
  BY DEF TypeOK
<1>2. outbox[m].attempts \in Nat
  BY <1>1, OutboxAssumption DEF Row
<1>3. IsFiniteSet(Senders(m))
  <2>1. Senders(m) \in SUBSET Worker
    BY DEF Senders
  <2> QED
    BY <2>1, FS_Subset, OutboxAssumption
<1> QED
  BY <1>1, <1>2, <1>3, FS_CardinalityType DEF Charged

(* No row is claimed, and none loses its charge but to a recovery.         *)
RowsKeepAccounts ==
    \A m \in Message :
       /\ outbox'[m].attempts = outbox[m].attempts
       /\ recovered'[m] + Charged(m)' >= recovered[m] + Charged(m)
       /\ \A w \in Worker : outbox'[m].claimedBy = w => outbox[m].claimedBy = w

(* Who holds a row has held it, and no sender is new.                      *)
HoldersKeepRows ==
    \A w \in Worker :
       \/ worker'[w].at \notin Holding
       \/ /\ worker[w].at \in Holding
          /\ worker'[w].row = worker[w].row
          /\ worker[w].row.id \in Message
          /\ worker'[w].at = "send" => worker[w].at = "send"

(* A step that calls nobody, claims nothing and counts every recovery      *)
(* keeps the accounts.                                                     *)
LEMMA QuietAccounts ==
    ASSUME TypeOK, TypeOK', Accounts, UNCHANGED sends,
           RowsKeepAccounts, HoldersKeepRows
    PROVE  Accounts'
<1>1. ASSUME NEW m \in Message
      PROVE  (sends[m] + Cardinality(Senders(m))
                 <= outbox[m].attempts + recovered[m] + Charged(m))'
  <2>1. Senders(m)' \in SUBSET Senders(m)
    BY DEF Senders, Holding, HoldersKeepRows
  <2>2. Cardinality(Senders(m)') <= Cardinality(Senders(m))
    BY <2>1, Numbers, FS_Subset
  <2>3. Cardinality(Senders(m)') \in Nat
    BY <2>1, Numbers, FS_Subset, FS_CardinalityType
  <2>4. sends[m] + Cardinality(Senders(m)) <= outbox[m].attempts + recovered[m] + Charged(m)
    BY DEF Accounts, CallsAreCharged
  <2>5. /\ recovered'[m] \in Nat /\ Charged(m)' \in {0, 1}
        /\ sends'[m] = sends[m] /\ outbox'[m].attempts = outbox[m].attempts
        /\ recovered'[m] + Charged(m)' >= recovered[m] + Charged(m)
    BY DEF TypeOK, Charged, RowsKeepAccounts
  <2> HIDE DEF Senders, Charged
  <2> QED
    BY <2>2, <2>3, <2>4, <2>5, Numbers
<1>2. CallsAreCharged'
  BY <1>1 DEF CallsAreCharged
<1>3. OwnersAreCurrent'
  BY DEF Accounts, OwnersAreCurrent, RowsKeepAccounts, HoldersKeepRows
<1> QED
  BY <1>2, <1>3 DEF Accounts

(* So it is when only workers move that hold nothing afterwards.           *)
LEMMA RestersKeepRows ==
    ASSUME IInv, NEW w \in Worker, NEW f, f.at \notin Holding,
           worker' = [worker EXCEPT ![w] = f]
    PROVE  HoldersKeepRows
<1>1. worker'[w] = f /\ \A v \in Worker : v # w => worker'[v] = worker[v]
  BY DEF IInv, TypeOK
<1> QED
  BY <1>1, HeldRow DEF HoldersKeepRows

(* So it is when no row changes.                                           *)
LEMMA SameRowsKeepAccounts ==
    ASSUME IInv, UNCHANGED <<outbox, recovered>>
    PROVE  RowsKeepAccounts
BY Numbers DEF IInv, RowsKeepAccounts, Charged

(* The start: nothing has been sent, nobody is at work.                    *)
LEMMA AccountsStart == Init => Accounts
<1> SUFFICES ASSUME Init PROVE Accounts
  OBVIOUS
<1>1. \A w \in Worker : worker[w].at = "idle"
  BY IdleIsAFrame DEF Init
<1>2. \A m \in Message : Senders(m) = {}
  BY <1>1 DEF Senders
<1>3. \A m \in Message : /\ outbox[m].attempts = 0
                         /\ sends[m] = 0 /\ recovered[m] = 0
  BY DEF Init, NoRow
<1>4. CallsAreCharged
  BY <1>2, <1>3, FS_EmptySet DEF CallsAreCharged, Charged
<1>5. OwnersAreCurrent
  BY <1>1 DEF OwnersAreCurrent, Holding
<1> QED
  BY <1>4, <1>5 DEF Accounts

(* A claim charges the row and makes one sender of it.                     *)
LEMMA ClaimAccounts ==
    ASSUME IInv, IInv', Accounts, NEW w \in Worker, claim(w)
    PROVE  Accounts'
<1>1. TypeOK /\ TypeOK' /\ worker[w] \in Frame /\ worker[w].at = "next"
  BY DEF IInv, TypeOK, claim, At
<1>2. worker[w].todo \in SUBSET Snapshot
  BY <1>1 DEF Frame
<1>3. worker[w].at \notin Holding
  BY <1>1 DEF Holding
<1>4. PICK row \in worker[w].todo :
        \/ /\ Unchanged(row)
           /\ outbox' = [outbox EXCEPT ![row.id] =
                [@ EXCEPT !.status = "PROCESSING", !.claimedBy = w,
                          !.lapsed = worker[w].lapsed]]
           /\ worker' = [worker EXCEPT ![w] =
                [@ EXCEPT !.at = "send", !.row = row, !.todo = worker[w].todo \ {row}]]
        \/ /\ ~Unchanged(row)
           /\ worker' = [worker EXCEPT ![w].todo = worker[w].todo \ {row}]
           /\ UNCHANGED outbox
  BY DEF claim
<1>5. row \in Snapshot /\ row.id \in Message
  BY <1>2 DEF Snapshot
<1>6. UNCHANGED <<sends, recovered>>
  BY DEF claim, History
<1>7. CASE Unchanged(row)
  <2> DEFINE m == row.id
  <2>1. /\ outbox' = [outbox EXCEPT ![m] =
                [@ EXCEPT !.status = "PROCESSING", !.claimedBy = w,
                          !.lapsed = worker[w].lapsed]]
        /\ worker' = [worker EXCEPT ![w] =
                [@ EXCEPT !.at = "send", !.row = row, !.todo = worker[w].todo \ {row}]]
    BY <1>4, <1>7
  <2>2. outbox[m] \in Row /\ outbox[m].status \in Waiting /\ outbox[m].attempts = row.attempts
    BY <1>1, <1>5, <1>7 DEF TypeOK, Unchanged, Snapshot
  <2>3. /\ outbox'[m].status = "PROCESSING" /\ outbox'[m].attempts = outbox[m].attempts
        /\ \A n \in Message : n # m => outbox'[n] = outbox[n]
    BY <1>1, <1>5, <2>1, <2>2 DEF TypeOK, Row
  <2>4. /\ worker'[w].at = "send" /\ worker'[w].row = row
        /\ \A v \in Worker : v # w => worker'[v] = worker[v]
    BY <1>1, <2>1 DEF TypeOK, Frame
  <2>5. Senders(m)' = Senders(m) \cup {w} /\ w \notin Senders(m)
    BY <1>1, <2>4 DEF Senders
  <2>6. \A n \in Message : n # m => Senders(n)' = Senders(n)
    BY <1>1, <2>4 DEF Senders
  <2>7. Cardinality(Senders(m)') = Cardinality(Senders(m)) + 1
    BY <1>1, <1>5, <2>5, Numbers, FS_AddElement
  <2>8. Charged(m) = 0 /\ Charged(m)' = 1 /\ \A n \in Message : n # m => Charged(n)' = Charged(n)
    BY <2>2, <2>3 DEF Charged, Waiting
  <2>9. CallsAreCharged'
    <3> SUFFICES ASSUME NEW n \in Message
                 PROVE  sends[n] + Cardinality(Senders(n)')
                          <= outbox'[n].attempts + recovered[n] + Charged(n)'
      BY <1>6 DEF CallsAreCharged
    <3>1. sends[n] + Cardinality(Senders(n)) <= outbox[n].attempts + recovered[n] + Charged(n)
      BY DEF Accounts, CallsAreCharged
    <3>2. CASE n = m
      BY <1>1, <2>3, <2>7, <2>8, <3>1, <3>2, Numbers
    <3>3. CASE n # m
      BY <2>3, <2>6, <2>8, <3>1, <3>3
    <3> QED
      BY <3>2, <3>3
  <2>10. OwnersAreCurrent'
    <3> SUFFICES ASSUME NEW v \in Worker, worker'[v].at \in Holding,
                        outbox'[worker'[v].row.id].claimedBy = v
                 PROVE  outbox'[worker'[v].row.id].attempts = worker'[v].row.attempts
      BY DEF OwnersAreCurrent
    <3>1. CASE v = w
      BY <2>2, <2>3, <2>4, <3>1
    <3>2. CASE v # w
      <4>1. worker'[v] = worker[v] /\ worker[v].row.id \in Message
        BY <2>4, <3>2, HeldRow
      <4>2. outbox'[m].claimedBy = w
        BY <1>1, <1>5, <2>1, <2>2 DEF TypeOK, Row
      <4>3. worker[v].row.id # m
        BY <3>2, <4>1, <4>2
      <4> QED
        BY <2>3, <4>1, <4>3 DEF Accounts, OwnersAreCurrent
    <3> QED
      BY <3>1, <3>2
  <2> QED
    BY <2>9, <2>10 DEF Accounts
<1>8. CASE ~Unchanged(row)
  <2>1. /\ worker' = [worker EXCEPT ![w].todo = worker[w].todo \ {row}]
        /\ UNCHANGED outbox
    BY <1>4, <1>8
  <2>2. /\ worker'[w].at = "next"
        /\ \A v \in Worker : v # w => worker'[v] = worker[v]
    BY <1>1, <2>1 DEF TypeOK, Frame
  <2>3. HoldersKeepRows
    BY <2>2, HeldRow DEF Holding, HoldersKeepRows
  <2>4. RowsKeepAccounts
    BY <1>6, <2>1, SameRowsKeepAccounts
  <2> QED
    BY <1>1, <1>6, <2>3, <2>4, QuietAccounts
<1> QED
  BY <1>7, <1>8

(* A call uses up what its claim was charged for.                          *)
LEMMA SendAccounts ==
    ASSUME IInv, IInv', Accounts, NEW w \in Worker, send(w)
    PROVE  Accounts'
<1>1. TypeOK /\ TypeOK' /\ worker[w] \in Frame /\ worker[w].at = "send"
  BY DEF IInv, TypeOK, send, At
<1>2. worker[w].at \in Holding /\ worker[w].row.id \in Message
  BY <1>1, HeldRow DEF Holding
<1> PICK m \in Message : m = worker[w].row.id
  BY <1>2
<1>3. UNCHANGED <<outbox, recovered>> /\ sends' = [sends EXCEPT ![m] = sends[m] + 1]
  BY DEF send
<1>4. PICK at \in {"sent", "failed"} : worker' = [worker EXCEPT ![w].at = at]
  BY DEF send, Goto
<1>5. /\ worker'[w].at = at /\ worker'[w].row = worker[w].row
      /\ \A v \in Worker : v # w => worker'[v] = worker[v]
  BY <1>1, <1>4 DEF TypeOK, Frame
<1>6. Senders(m)' = Senders(m) \ {w} /\ w \in Senders(m)
  BY <1>1, <1>5 DEF Senders
<1>7. \A n \in Message : n # m => Senders(n)' = Senders(n)
  BY <1>5 DEF Senders
<1>8. Cardinality(Senders(m)') = Cardinality(Senders(m)) - 1
  BY <1>1, <1>2, <1>6, Numbers, FS_RemoveElement
<1>9. /\ sends'[m] = sends[m] + 1
      /\ \A n \in Message : n # m => sends'[n] = sends[n]
  BY <1>1, <1>2, <1>3 DEF TypeOK
<1>10. CallsAreCharged'
  <2> SUFFICES ASSUME NEW n \in Message
               PROVE  sends'[n] + Cardinality(Senders(n)')
                        <= outbox[n].attempts + recovered[n] + Charged(n)
    BY <1>3 DEF CallsAreCharged, Charged
  <2>1. sends[n] + Cardinality(Senders(n)) <= outbox[n].attempts + recovered[n] + Charged(n)
    BY DEF Accounts, CallsAreCharged
  <2>2. CASE n = m
    BY <1>1, <1>8, <1>9, <2>1, <2>2, Numbers
  <2>3. CASE n # m
    BY <1>7, <1>9, <2>1, <2>3
  <2> QED
    BY <2>2, <2>3
<1>11. OwnersAreCurrent'
  BY <1>2, <1>3, <1>5 DEF Accounts, OwnersAreCurrent
<1> QED
  BY <1>10, <1>11 DEF Accounts

(* A mark that finds its claim exchanges the charge for an attempt.        *)
LEMMA MarkSentAccounts ==
    ASSUME IInv, IInv', Accounts, NEW w \in Worker, markSent(w)
    PROVE  Accounts'
<1>1. TypeOK /\ TypeOK' /\ worker[w] \in Frame /\ worker[w].at = "sent"
  BY DEF IInv, TypeOK, markSent, At
<1>2. worker[w].at \in Holding /\ worker[w].row.id \in Message
  BY <1>1, HeldRow DEF Holding
<1>3. /\ worker'[w].at = "next"
      /\ \A v \in Worker : v # w => worker'[v] = worker[v]
  BY <1>1 DEF markSent, TypeOK, Frame
<1>4. UNCHANGED <<sends, recovered>>
  BY DEF markSent, History
<1>5. HoldersKeepRows
  BY <1>3, HeldRow DEF Holding, HoldersKeepRows
<1>6. CASE Owns(w) /\ Marked(w)
  <2> PICK m \in Message : m = worker[w].row.id
    BY <1>2
  <2>1. /\ outbox'[m].status = "SENT" /\ outbox'[m].claimedBy = None
        /\ outbox'[m].attempts = worker[w].row.attempts + 1
        /\ \A n \in Message : n # m => outbox'[n] = outbox[n]
    BY <1>1, <1>2, <1>6 DEF TypeOK, Marked
  <2>2. outbox[m].status = "PROCESSING" /\ outbox[m].attempts = worker[w].row.attempts
    BY <1>2, <1>6 DEF Owns, Accounts, OwnersAreCurrent
  <2>3. \A n \in Message : Senders(n)' = Senders(n)
    BY <1>1, <1>3 DEF Senders
  <2>4. Charged(m) = 1 /\ Charged(m)' = 0 /\ \A n \in Message : n # m => Charged(n)' = Charged(n)
    BY <2>1, <2>2 DEF Charged
  <2>5. CallsAreCharged'
    <3> SUFFICES ASSUME NEW n \in Message
                 PROVE  sends[n] + Cardinality(Senders(n))
                          <= outbox'[n].attempts + recovered[n] + Charged(n)'
      BY <1>4, <2>3 DEF CallsAreCharged
    <3>1. sends[n] + Cardinality(Senders(n)) <= outbox[n].attempts + recovered[n] + Charged(n)
      BY DEF Accounts, CallsAreCharged
    <3>2. CASE n = m
      BY <1>1, <2>1, <2>2, <2>4, <3>1, <3>2, Numbers
    <3>3. CASE n # m
      BY <2>1, <2>4, <3>1, <3>3
    <3> QED
      BY <3>2, <3>3
  <2>6. OwnersAreCurrent'
    <3> SUFFICES ASSUME NEW v \in Worker, worker'[v].at \in Holding,
                        outbox'[worker'[v].row.id].claimedBy = v
                 PROVE  outbox'[worker'[v].row.id].attempts = worker'[v].row.attempts
      BY DEF OwnersAreCurrent
    <3>1. worker'[v] = worker[v] /\ worker[v].row.id \in Message
      BY <1>3, HeldRow DEF Holding
    <3>2. worker[v].row.id # m
      BY <2>1, <3>1, Names
    <3> QED
      BY <2>1, <3>1, <3>2 DEF Accounts, OwnersAreCurrent
  <2> QED
    BY <2>5, <2>6 DEF Accounts
<1>7. CASE UNCHANGED outbox
  <2>1. RowsKeepAccounts
    BY <1>4, <1>7, SameRowsKeepAccounts
  <2> QED
    BY <1>1, <1>4, <1>5, <2>1, QuietAccounts
<1> QED
  BY <1>6, <1>7 DEF markSent

(* A row that a worker gives back, or that leaves the batch for good, was  *)
(* either not charged or is counted as recovered.                          *)
LEMMA StatusMoves ==
    ASSUME IInv, IInv', Accounts, NEW w \in Worker,
           StartJob(w) \/ recoverExpiredClaims(w) \/ Finish(w)
    PROVE  RowsKeepAccounts
<1> SUFFICES ASSUME NEW m \in Message
             PROVE  /\ outbox'[m].attempts = outbox[m].attempts
                    /\ recovered'[m] + Charged(m)' >= recovered[m] + Charged(m)
                    /\ \A v \in Worker : outbox'[m].claimedBy = v => outbox[m].claimedBy = v
  BY DEF RowsKeepAccounts
<1>1. TypeOK /\ outbox[m] \in Row
  BY DEF IInv, TypeOK
<1>2. recovered[m] \in Nat /\ Charged(m) \in {0, 1}
  BY <1>1, Numbers
<1>3. CASE StartJob(w)
  <2>1. UNCHANGED recovered
    BY <1>3 DEF StartJob, History
  <2>2. CASE m \in Retired /\ outbox[m].status \in Waiting
    <3>1. outbox'[m] = [outbox[m] EXCEPT !.status = "PERMANENTLY_FAILED"]
      BY <1>3, <2>2 DEF StartJob
    <3>2. /\ outbox'[m].attempts = outbox[m].attempts
          /\ outbox'[m].claimedBy = outbox[m].claimedBy
      BY <1>1, <3>1 DEF Row
    <3>3. Charged(m) = 0
      BY <2>2 DEF Charged, Waiting
    <3>4. Charged(m)' \in {0, 1}
      BY DEF Charged
    <3> QED
      BY <1>2, <2>1, <3>2, <3>3, <3>4
  <2>3. CASE ~(m \in Retired /\ outbox[m].status \in Waiting)
    <3>1. outbox'[m] = outbox[m]
      BY <1>3, <2>3 DEF StartJob
    <3> QED
      BY <1>2, <2>1, <3>1 DEF Charged
  <2> QED
    BY <2>2, <2>3
<1>4. CASE recoverExpiredClaims(w)
  <2>1. recovered'[m] = recovered[m] + IF Expired(m) THEN 1 ELSE 0
    BY <1>4 DEF recoverExpiredClaims
  <2>2. CASE Expired(m)
    <3>1. outbox'[m] = [outbox[m] EXCEPT !.status = "FAILED", !.claimedBy = None,
                                         !.lapsed = FALSE]
      BY <1>4, <2>2 DEF recoverExpiredClaims
    <3>2. outbox'[m].attempts = outbox[m].attempts /\ outbox'[m].claimedBy = None
      BY <1>1, <3>1 DEF Row
    <3>3. Charged(m)' \in {0, 1}
      BY DEF Charged
    <3> QED
      BY <1>2, <2>1, <2>2, <3>2, <3>3, Names
  <2>3. CASE ~Expired(m)
    <3>1. outbox'[m] = outbox[m]
      BY <1>4, <2>3 DEF recoverExpiredClaims
    <3> QED
      BY <1>2, <2>1, <2>3, <3>1 DEF Charged
  <2> QED
    BY <2>2, <2>3
<1>5. CASE Finish(w)
  <2>1. UNCHANGED recovered
    BY <1>5 DEF Finish, History
  <2> DEFINE Chosen == /\ worker[w].job
                       /\ outbox[m].status = "FAILED"
                       /\ outbox[m].attempts >= MaxAttempts
  <2>2. CASE Chosen
    <3>1. outbox'[m] = [outbox[m] EXCEPT !.status = "PERMANENTLY_FAILED"]
      BY <1>5, <2>2 DEF Finish
    <3>2. /\ outbox'[m].attempts = outbox[m].attempts
          /\ outbox'[m].claimedBy = outbox[m].claimedBy
      BY <1>1, <3>1 DEF Row
    <3>3. Charged(m) = 0
      BY <2>2 DEF Charged
    <3>4. Charged(m)' \in {0, 1}
      BY DEF Charged
    <3> QED
      BY <1>2, <2>1, <3>2, <3>3, <3>4
  <2>3. CASE ~Chosen
    <3>1. outbox'[m] = outbox[m]
      BY <1>5, <2>3 DEF Finish
    <3> QED
      BY <1>2, <2>1, <3>1 DEF Charged
  <2> QED
    BY <2>2, <2>3
<1> QED
  BY <1>3, <1>4, <1>5

(* A new row is charged for nothing.                                       *)
LEMMA CreateAccounts ==
    ASSUME IInv, IInv', NEW m \in Message, Create(m), UNCHANGED recovered
    PROVE  RowsKeepAccounts
<1>1. TypeOK /\ outbox[m] \in Row
  BY DEF IInv, TypeOK
<1>2. outbox'[m] = [outbox[m] EXCEPT !.status = "PENDING"]
  BY <1>1 DEF Create, IInv, TypeOK
<1>3. outbox'[m].attempts = outbox[m].attempts /\ outbox'[m].claimedBy = outbox[m].claimedBy
  BY <1>1, <1>2 DEF Row
<1>4. Charged(m) = 0 /\ Charged(m)' \in {0, 1}
  BY DEF Charged, Create, Created
<1>5. \A n \in Message : n # m => outbox'[n] = outbox[n]
  BY <1>1, CreateShape
<1>6. \A n \in Message : n # m => Charged(n)' = Charged(n)
  BY <1>5 DEF Charged
<1>7. \A n \in Message : recovered[n] \in Nat /\ Charged(n) \in {0, 1}
  BY <1>1, Numbers
<1>8. \A n \in Message : recovered'[n] + Charged(n)' >= recovered[n] + Charged(n)
  BY <1>4, <1>6, <1>7
<1> QED
  BY <1>3, <1>5, <1>8 DEF RowsKeepAccounts

(* What a dead worker had claimed stays charged.                           *)
LEMMA AbandonAccounts ==
    ASSUME IInv, IInv', Accounts, NEW w \in Worker, Abandon(w), UNCHANGED History
    PROVE  Accounts'
<1>1. TypeOK /\ TypeOK'
  BY DEF IInv
<1>2. UNCHANGED <<sends, recovered>>
  BY DEF History
<1>3. HoldersKeepRows
  BY IdleIsAFrame, RestersKeepRows DEF Abandon, Holding
<1>4. ASSUME NEW m \in Message
      PROVE  /\ outbox'[m].attempts = outbox[m].attempts
             /\ outbox'[m].status = outbox[m].status
             /\ \A v \in Worker : outbox'[m].claimedBy = v => outbox[m].claimedBy = v
  <2>1. outbox[m] \in Row
    BY <1>1 DEF TypeOK
  <2>2. outbox'[m] = IF outbox[m].claimedBy = w THEN [outbox[m] EXCEPT !.claimedBy = Dead]
                     ELSE outbox[m]
    BY DEF Abandon
  <2> QED
    BY <2>1, <2>2, Names DEF Row
<1>5. RowsKeepAccounts
  BY <1>1, <1>2, <1>4, Numbers DEF RowsKeepAccounts, Charged
<1> QED
  BY <1>1, <1>2, <1>3, <1>5, QuietAccounts

(* A claim that lapses is a charge still.                                  *)
LEMMA LapseAccounts ==
    ASSUME IInv, IInv', Accounts, NEW w \in Worker, Lapse(w)
    PROVE  Accounts'
<1>1. TypeOK /\ TypeOK' /\ worker[w] \in Frame
  BY DEF IInv, TypeOK
<1>2. UNCHANGED <<sends, recovered>>
  BY DEF Lapse, History
<1>3. /\ worker'[w].at = worker[w].at /\ worker'[w].row = worker[w].row
      /\ \A v \in Worker : v # w => worker'[v] = worker[v]
  BY <1>1 DEF Lapse, TypeOK, Frame
<1>4. HoldersKeepRows
  BY <1>3, HeldRow DEF HoldersKeepRows
<1>5. ASSUME NEW m \in Message
      PROVE  /\ outbox'[m].attempts = outbox[m].attempts
             /\ outbox'[m].status = outbox[m].status
             /\ outbox'[m].claimedBy = outbox[m].claimedBy
  <2>1. outbox[m] \in Row
    BY <1>1 DEF TypeOK
  <2>2. outbox'[m] = IF outbox[m].claimedBy = w THEN [outbox[m] EXCEPT !.lapsed = TRUE]
                     ELSE outbox[m]
    BY DEF Lapse
  <2> QED
    BY <2>1, <2>2 DEF Row
<1>6. RowsKeepAccounts
  BY <1>1, <1>2, <1>5, Numbers DEF RowsKeepAccounts, Charged
<1> QED
  BY <1>1, <1>2, <1>4, <1>6, QuietAccounts

(* So is that of a dead worker.                                            *)
LEMMA LapseDeadAccounts ==
    ASSUME IInv, IInv', Accounts, LapseDead
    PROVE  Accounts'
<1>1. TypeOK /\ TypeOK' /\ UNCHANGED <<sends, recovered, worker>>
  BY DEF IInv, LapseDead, History
<1>2. HoldersKeepRows
  BY <1>1, HeldRow DEF HoldersKeepRows
<1>3. ASSUME NEW m \in Message
      PROVE  /\ outbox'[m].attempts = outbox[m].attempts
             /\ outbox'[m].status = outbox[m].status
             /\ outbox'[m].claimedBy = outbox[m].claimedBy
  <2>1. outbox[m] \in Row
    BY <1>1 DEF TypeOK
  <2>2. outbox'[m] = outbox[m] \/ outbox'[m] = [outbox[m] EXCEPT !.lapsed = TRUE]
    BY <1>1 DEF LapseDead, TypeOK
  <2> QED
    BY <2>1, <2>2 DEF Row
<1>4. RowsKeepAccounts
  BY <1>1, <1>3, Numbers DEF RowsKeepAccounts, Charged
<1> QED
  BY <1>1, <1>2, <1>4, QuietAccounts

-----------------------------------------------------------------------------
(* Every step of every worker preserves the invariant.                     *)
LEMMA Steps == IInv /\ [Next]_vars => IInv'
<1> SUFFICES ASSUME IInv, [Next]_vars PROVE IInv'
  OBVIOUS
<1>1. CASE Queue
  BY <1>1, QueueStep
<1>2. CASE LapseDead
  BY <1>2, LapseDeadStep
<1>3. ASSUME NEW w \in Worker, Reemail(w) \/ StartJob(w) PROVE IInv'
  BY <1>3, ReemailStep, StartJobStep
<1>4. ASSUME NEW w \in Worker, Work(w) PROVE IInv'
  <2>1. CASE markFailed(w)
    BY <2>1, AbandonStep DEF markFailed, IInv, TypeOK
  <2> QED
    BY <1>4, <2>1, RecoverStep, ListStep, ClaimStep, SendStep, MarkSentStep, FinishStep
    DEF Work
<1>5. ASSUME NEW w \in Worker, MarkSentFails(w) \/ Lapse(w) PROVE IInv'
  BY <1>5, MarkSentFailsStep, LapseStep
<1>6. ASSUME NEW w \in Worker, Crash(w) PROVE IInv'
  <2>1. faults' \in 0..MaxFault
    BY <1>6, OutboxAssumption DEF Crash, Fault, IInv, TypeOK
  <2> QED
    BY <1>6, <2>1, AbandonStep DEF Crash
<1>7. CASE UNCHANGED vars
  BY <1>7 DEF vars, IInv, TypeOK, ClaimsAreHeld, HoldersKnowTheirRow, ClaimIsExclusive,
              MarkersWereAnswered, SentMeansAccepted
<1> QED
  BY <1>1, <1>2, <1>3, <1>4, <1>5, <1>6, <1>7 DEF Next

(* Every step keeps the accounts.                                          *)
LEMMA AccountsSteps == IInv /\ Accounts /\ [Next]_vars => Accounts'
<1> SUFFICES ASSUME IInv, Accounts, [Next]_vars PROVE Accounts'
  OBVIOUS
<1>1. IInv' /\ TypeOK /\ TypeOK'
  BY Steps DEF IInv
<1>2. \A w \in Worker : worker[w] \in Frame
  BY <1>1 DEF TypeOK
<1>3. CASE Queue
  <2>1. RowsKeepAccounts
    BY <1>1, <1>3, CreateAccounts DEF Queue, History
  <2>2. UNCHANGED <<sends, worker>>
    BY <1>3 DEF Queue, History
  <2>3. HoldersKeepRows
    BY <2>2, HeldRow DEF HoldersKeepRows
  <2> QED
    BY <1>1, <2>1, <2>2, <2>3, QuietAccounts
<1>4. ASSUME NEW w \in Worker, Reemail(w) PROVE Accounts'
  <2>1. RowsKeepAccounts
    BY <1>1, <1>4, CreateAccounts DEF Reemail, History
  <2>2. worker' = [worker EXCEPT ![w] = [worker[w] EXCEPT !.at = "recover"]]
    BY <1>4 DEF Reemail, Goto
  <2>3. [worker[w] EXCEPT !.at = "recover"].at \notin Holding
    BY <1>2 DEF Frame, Holding
  <2>4. HoldersKeepRows
    BY <2>2, <2>3, RestersKeepRows
  <2> QED
    BY <1>1, <1>4, <2>1, <2>4, QuietAccounts DEF Reemail, History
<1>5. ASSUME NEW w \in Worker, StartJob(w) \/ recoverExpiredClaims(w) \/ Finish(w)
      PROVE  Accounts'
  <2>1. RowsKeepAccounts
    BY <1>1, <1>5, StatusMoves
  <2>2. PICK f : worker' = [worker EXCEPT ![w] = f] /\ f.at \notin Holding
    <3> DEFINE starts == [worker[w] EXCEPT !.at = "recover", !.job = TRUE]
               lists == [worker[w] EXCEPT !.at = "list", !.lapsed = FALSE]
    <3>1. /\ starts.at \notin Holding
          /\ lists.at \notin Holding
          /\ Idle.at \notin Holding
      BY <1>2, IdleIsAFrame DEF Frame, Holding
    <3>2. \/ worker' = [worker EXCEPT ![w] = starts]
          \/ worker' = [worker EXCEPT ![w] = lists]
          \/ worker' = [worker EXCEPT ![w] = Idle]
      BY <1>5 DEF StartJob, recoverExpiredClaims, Finish
    <3> HIDE DEF starts, lists
    <3> QED
      BY <3>1, <3>2
  <2>3. HoldersKeepRows
    BY <2>2, RestersKeepRows
  <2>4. UNCHANGED sends
    BY <1>5 DEF StartJob, recoverExpiredClaims, Finish, History
  <2> QED
    BY <1>1, <2>1, <2>3, <2>4, QuietAccounts
<1>6. ASSUME NEW w \in Worker, listDispatchable(w) \/ MarkSentFails(w) PROVE Accounts'
  <2>1. UNCHANGED <<outbox, sends, recovered>>
    BY <1>6 DEF listDispatchable, MarkSentFails, History
  <2>2. CASE listDispatchable(w)
    <3>1. worker'[w].at = "next" /\ \A v \in Worker : v # w => worker'[v] = worker[v]
      BY <1>1, <1>2, <2>2 DEF listDispatchable, TypeOK, Frame
    <3> QED
      BY <1>1, <2>1, <3>1, HeldRow, SameRowsKeepAccounts, QuietAccounts
      DEF HoldersKeepRows, Holding
  <2>3. CASE MarkSentFails(w)
    <3>1. /\ worker'[w].at = "failed" /\ worker'[w].row = worker[w].row
          /\ worker[w].at \in Holding
          /\ \A v \in Worker : v # w => worker'[v] = worker[v]
      BY <1>1, <1>2, <2>3 DEF MarkSentFails, Goto, At, TypeOK, Frame, Holding
    <3>2. HoldersKeepRows
      BY <3>1, HeldRow DEF HoldersKeepRows
    <3> QED
      BY <1>1, <2>1, <3>2, SameRowsKeepAccounts, QuietAccounts
  <2> QED
    BY <1>6, <2>2, <2>3
<1>7. ASSUME NEW w \in Worker, claim(w) \/ send(w) \/ markSent(w) PROVE Accounts'
  BY <1>1, <1>7, ClaimAccounts, SendAccounts, MarkSentAccounts
<1>8. ASSUME NEW w \in Worker, markFailed(w) \/ Crash(w) PROVE Accounts'
  BY <1>1, <1>8, AbandonAccounts DEF markFailed, Crash
<1>9. ASSUME NEW w \in Worker, Lapse(w) PROVE Accounts'
  BY <1>1, <1>9, LapseAccounts
<1>10. CASE LapseDead
  BY <1>1, <1>10, LapseDeadAccounts
<1>11. CASE UNCHANGED vars
  <2>1. UNCHANGED <<outbox, sends, recovered, worker>>
    BY <1>11 DEF vars
  <2>2. HoldersKeepRows
    BY <2>1, HeldRow DEF HoldersKeepRows
  <2> QED
    BY <1>1, <2>1, <2>2, SameRowsKeepAccounts, QuietAccounts
<1> QED
  BY <1>3, <1>4, <1>5, <1>6, <1>7, <1>8, <1>9, <1>10, <1>11 DEF Next, Work

(* The queue with leases                                                   *)

(* A message of a living type whose delivery was begun.                    *)
Underway(m) ==
    m \notin Retired /\ outbox[m].status \in {"PROCESSING", "FAILED", "SENT"}

NowUnderway(m) ==
    m \notin Retired /\ outbox'[m].status \in {"PROCESSING", "FAILED", "SENT"}

(* A snapshot of a row that was never delivered.                           *)
First(snapshot) ==
    snapshot.attempts = 0 /\ snapshot.id \notin Retired

(* However old, a list names rows of living types before their delivery.   *)
ListsAreFirst ==
    \A w \in Worker : \A snapshot \in worker[w].todo : First(snapshot)

(* So does a holder, whose row does not fall back, whoever has it by now.  *)
HoldersAreFirst ==
    \A w \in Worker : worker[w].at \in Holding =>
        First(worker[w].row) /\ Underway(worker[w].row.id)

TakenAreUnderway ==
    \A m \in accepted : Underway(m)

(* Nobody claims a row of a retired type.                                  *)
RetiredAreUnclaimed ==
    \A m \in Retired : outbox[m].status \in {"PENDING", "PERMANENTLY_FAILED"}

(* What the refinement needs beyond the inductive invariant.               *)
DInv ==
    /\ IInv
    /\ AttemptsCountDeliveries
    /\ ListsAreFirst
    /\ HoldersAreFirst
    /\ TakenAreUnderway
    /\ RetiredAreUnclaimed

(* The moves of a row: only a mark counts an attempt.                      *)
RowMoves(m) ==
    LET from == outbox[m].status
        to == outbox'[m].status
        moves == \/ from = to
                 \/ from = "absent" /\ to = "PENDING"
                 \/ m \in Retired /\ from \in Waiting /\ to = "PERMANENTLY_FAILED"
                 \/ from = "PROCESSING" /\ to = "FAILED"
                 \/ m \notin Retired /\ from \in Waiting /\ to = "PROCESSING"
    IN  \/ moves /\ outbox'[m].attempts = outbox[m].attempts
        \/ from = "PROCESSING" /\ to = "SENT" /\ outbox'[m].attempts = 1

(* Rows that only make such moves keep their attempts right, and what is   *)
(* under way stays so.                                                     *)
LEMMA MovesKeep ==
    ASSUME DInv, \A m \in Message : RowMoves(m)
    PROVE  /\ AttemptsCountDeliveries' /\ RetiredAreUnclaimed'
           /\ \A m \in Message : Underway(m) => NowUnderway(m)
<1> SUFFICES ASSUME NEW m \in Message
             PROVE  /\ outbox'[m].attempts = IF outbox'[m].status = "SENT" THEN 1 ELSE 0
                    /\ outbox'[m].status = "PERMANENTLY_FAILED" => m \in Retired
                    /\ m \in Retired => outbox'[m].status \in {"PENDING", "PERMANENTLY_FAILED"}
                    /\ Underway(m) => NowUnderway(m)
  BY OutboxAssumption DEF AttemptsCountDeliveries, RetiredAreUnclaimed, Retired, Message
<1>1. outbox[m] \in Row BY DEF DInv, IInv, TypeOK
<1>2. /\ outbox[m].attempts = IF outbox[m].status = "SENT" THEN 1 ELSE 0
      /\ outbox[m].status = "PERMANENTLY_FAILED" => m \in Retired
      /\ m \in Retired => outbox[m].status \in {"PENDING", "PERMANENTLY_FAILED"}
  BY DEF DInv, AttemptsCountDeliveries, RetiredAreUnclaimed
<1>3. RowMoves(m) OBVIOUS
<1> QED BY <1>1, <1>2, <1>3 DEF RowMoves, Underway, NowUnderway, Waiting

(* The invariant follows a step from its rows, its lists and its holders.  *)
LEMMA DeliveryKept ==
    ASSUME DInv, IInv', \A m \in Message : RowMoves(m),
           \A w \in Worker : \A snapshot \in worker'[w].todo : First(snapshot),
           \A w \in Worker : worker'[w].at \in Holding =>
              \/ worker[w].at \in Holding /\ worker'[w].row = worker[w].row
              \/ First(worker'[w].row) /\ NowUnderway(worker'[w].row.id),
           \A m \in accepted' : m \in accepted \/ NowUnderway(m)
    PROVE  DInv'
<1>1. /\ AttemptsCountDeliveries' /\ RetiredAreUnclaimed'
      /\ \A m \in Message : Underway(m) => NowUnderway(m)
  BY MovesKeep
<1>2. ListsAreFirst' BY DEF ListsAreFirst, First
<1>3. HoldersAreFirst'
  <2> SUFFICES ASSUME NEW w \in Worker, worker'[w].at \in Holding
               PROVE  First(worker'[w].row) /\ NowUnderway(worker'[w].row.id)
    BY DEF HoldersAreFirst, First, Underway, NowUnderway
  <2>1. CASE worker[w].at \in Holding /\ worker'[w].row = worker[w].row
    <3>1. First(worker[w].row) /\ Underway(worker[w].row.id)
      BY <2>1 DEF DInv, HoldersAreFirst
    <3>2. worker[w].row.id \in Message BY <2>1, HeldRow DEF DInv
    <3>3. NowUnderway(worker[w].row.id) BY <1>1, <3>1, <3>2
    <3> QED BY <2>1, <3>1, <3>3
  <2> QED BY <2>1
<1>4. TakenAreUnderway'
  <2> SUFFICES ASSUME NEW m \in accepted' PROVE NowUnderway(m)
    BY DEF TakenAreUnderway, Underway, NowUnderway
  <2>1. CASE m \in accepted
    BY <1>1, <2>1 DEF DInv, TakenAreUnderway, IInv, TypeOK
  <2> QED BY <2>1
<1> QED BY <1>1, <1>2, <1>3, <1>4 DEF DInv

(* A step that moves no holder and adds to no list.                        *)
LEMMA RestersDeliver ==
    ASSUME DInv, IInv', \A m \in Message : RowMoves(m), UNCHANGED accepted,
           NEW w \in Worker,
           \A v \in Worker : v # w => worker'[v] = worker[v],
           worker'[w].todo \subseteq worker[w].todo,
           \/ worker'[w].at \notin Holding
           \/ worker[w].at \in Holding /\ worker'[w].row = worker[w].row
    PROVE  DInv'
<1>1. \A v \in Worker : \A snapshot \in worker'[v].todo : First(snapshot)
  BY DEF DInv, ListsAreFirst
<1>2. \A v \in Worker : worker'[v].at \in Holding =>
         worker[v].at \in Holding /\ worker'[v].row = worker[v].row
  OBVIOUS
<1> QED BY <1>1, <1>2, DeliveryKept

-----------------------------------------------------------------------------
(* The phase of a message, by its row.                                     *)
PhaseMap ==
    \A m \in Message :
        /\ outbox[m].status = "absent" => deliveryPhase[m] = "absent"
        /\ outbox[m].status = "PENDING" => deliveryPhase[m] = "fresh"
        /\ outbox[m].status = "FAILED" => deliveryPhase[m] = "back"
        /\ outbox[m].status = "SENT" => deliveryPhase[m] = "sent"
        /\ outbox[m].status = "PERMANENTLY_FAILED" => deliveryPhase[m] = "dropped"
        /\ outbox[m].status = "PROCESSING" /\ outbox[m].lapsed => deliveryPhase[m] = "lapsed"
        /\ outbox[m].status = "PROCESSING" /\ ~outbox[m].lapsed => deliveryPhase[m] = "held"

LEMMA Phases == PhaseMap /\ PhaseMap'
<1>1. PhaseMap BY DEF PhaseMap, deliveryPhase, PhaseOf
<1>2. PhaseMap' BY DEF PhaseMap, deliveryPhase, PhaseOf
<1> QED BY <1>1, <1>2

LEMMA PhaseFunction ==
    /\ deliveryPhase = [m \in Message |-> deliveryPhase[m]]
    /\ deliveryPhase' = [m \in Message |-> deliveryPhase'[m]]
<1>1. deliveryPhase = [m \in Message |-> deliveryPhase[m]]
  BY DEF deliveryPhase
<1>2. deliveryPhase' = [m \in Message |-> deliveryPhase'[m]]
  BY DEF deliveryPhase
<1> QED BY <1>1, <1>2

(* A message whose row keeps its status, and its lapse while claimed, does *)
(* not move.                                                               *)
LEMMA PhaseKept ==
    ASSUME TypeOK, NEW m \in Message, outbox'[m].status = outbox[m].status,
           outbox[m].status = "PROCESSING" => outbox'[m].lapsed = outbox[m].lapsed
    PROVE  deliveryPhase'[m] = deliveryPhase[m]
<1>1. outbox[m].status \in Status BY DEF TypeOK, Row
<1> QED BY <1>1, Phases DEF PhaseMap, Status, Waiting, Final

(* Steps that move messages together.                                      *)
LEMMA MovesTogether ==
    ASSUME NEW M \in SUBSET Message, NEW from, NEW to, UNCHANGED accepted,
           \A m \in M : deliveryPhase[m] = from /\ deliveryPhase'[m] = to,
           \A m \in Message \ M : deliveryPhase'[m] = deliveryPhase[m]
    PROVE  Delivery!Move(M, from, to)
<1>1. deliveryPhase' = [m \in Message |-> IF m \in M THEN to ELSE deliveryPhase[m]]
  BY PhaseFunction
<1> QED BY <1>1 DEF Delivery!Move

(* A step that changes no row stutters.                                    *)
LEMMA RowsStutter ==
    ASSUME UNCHANGED <<outbox, accepted>>
    PROVE  UNCHANGED Delivery!vars
BY DEF Delivery!vars, deliveryPhase

(* Rows that keep all the phases tell.                                     *)
LEMMA PhasesStutter ==
    ASSUME UNCHANGED accepted, \A m \in Message : deliveryPhase'[m] = deliveryPhase[m]
    PROVE  UNCHANGED Delivery!vars
<1>1. deliveryPhase' = deliveryPhase BY PhaseFunction
<1> QED BY <1>1 DEF Delivery!vars
(* Nothing is under way at the start.                                      *)
LEMMA DeliveryStarts == Init => DInv /\ Delivery!Init
<1> SUFFICES ASSUME Init PROVE DInv /\ Delivery!Init
  OBVIOUS
<1>1. \A m \in Message : /\ outbox[m].status = IF m \in Retired THEN "PENDING" ELSE "absent"
                         /\ outbox[m].attempts = 0
  BY DEF Init, NoRow
<1>2. AttemptsCountDeliveries BY <1>1 DEF AttemptsCountDeliveries
<1>3. ListsAreFirst /\ HoldersAreFirst
  BY DEF Init, Idle, ListsAreFirst, HoldersAreFirst, Holding
<1>4. TakenAreUnderway BY DEF Init, TakenAreUnderway
<1>a. RetiredAreUnclaimed
  BY <1>1, OutboxAssumption DEF RetiredAreUnclaimed, Retired, Message
<1>5. deliveryPhase = [m \in Message |-> IF m \in Retired THEN "fresh" ELSE "absent"]
  BY <1>1, Phases, PhaseFunction DEF PhaseMap
<1>6. Delivery!Init BY <1>5 DEF Delivery!Init, Init
<1> QED BY <1>2, <1>3, <1>4, <1>a, <1>6, Starts DEF DInv

(* A new row becomes a fresh message.                                      *)
LEMMA CreateDelivers ==
    ASSUME DInv, NEW m \in Message, Create(m), UNCHANGED accepted
    PROVE  /\ \A n \in Message : RowMoves(n)
           /\ Delivery!Next
<1>1. TypeOK /\ outbox[m] \in Row BY DEF DInv, IInv, TypeOK
<1>2. outbox' = [outbox EXCEPT ![m] = [outbox[m] EXCEPT !.status = "PENDING"]]
  BY DEF Create
<1>3. /\ outbox[m].status = "absent" /\ outbox'[m].status = "PENDING"
      /\ outbox'[m].attempts = outbox[m].attempts
  BY <1>1, <1>2 DEF Create, Created, Row, TypeOK
<1>4. \A n \in Message : n # m => outbox'[n] = outbox[n]
  BY <1>1, CreateShape
<1>5. \A n \in Message : RowMoves(n) BY <1>3, <1>4 DEF RowMoves
<1>6. deliveryPhase[m] = "absent" /\ deliveryPhase'[m] = "fresh"
  BY <1>3, Phases DEF PhaseMap
<1>7. \A n \in Message : n # m => deliveryPhase'[n] = deliveryPhase[n]
  BY <1>1, <1>4, PhaseKept
<1>8. Delivery!Move({m}, "absent", "fresh") BY <1>6, <1>7, MovesTogether
<1> QED BY <1>5, <1>8 DEF Delivery!Next

LEMMA QueueDelivers ==
    ASSUME DInv, IInv', Queue
    PROVE  DInv' /\ Delivery!Next
<1>1. PICK m \in Message : Create(m) BY DEF Queue
<1>2. UNCHANGED <<worker, accepted>> BY DEF Queue, History
<1>3. (\A n \in Message : RowMoves(n)) /\ Delivery!Next BY <1>1, <1>2, CreateDelivers
<1>4. \A v \in Worker : \A snapshot \in worker'[v].todo : First(snapshot)
  BY <1>2 DEF DInv, ListsAreFirst
<1> QED BY <1>2, <1>3, <1>4, DeliveryKept

LEMMA ReemailDelivers ==
    ASSUME DInv, IInv', NEW w \in Worker, Reemail(w)
    PROVE  DInv' /\ Delivery!Next
<1>1. PICK m \in Message : Create(m) BY DEF Reemail
<1>2. UNCHANGED accepted BY DEF Reemail, History
<1>3. (\A n \in Message : RowMoves(n)) /\ Delivery!Next BY <1>1, <1>2, CreateDelivers
<1>4. worker \in [Worker -> Frame] BY DEF DInv, IInv, TypeOK
<1>5. /\ worker'[w].at \notin Holding
      /\ worker'[w].todo = worker[w].todo
      /\ \A v \in Worker : v # w => worker'[v] = worker[v]
  BY <1>4 DEF Reemail, Goto, Frame, Holding
<1> QED BY <1>2, <1>3, <1>5, RestersDeliver

(* The job drops the retired messages that wait.                           *)
LEMMA StartJobDelivers ==
    ASSUME DInv, IInv', NEW w \in Worker, StartJob(w)
    PROVE  DInv' /\ Delivery!Next
<1>1. TypeOK BY DEF DInv, IInv
<1> DEFINE M == {m \in Retired : outbox[m].status = "PENDING"}
<1>2. Retired \subseteq Message BY OutboxAssumption DEF Retired, Message
<1>3. UNCHANGED accepted BY DEF StartJob, History
<1>4. ASSUME NEW m \in M
      PROVE  /\ outbox[m].status = "PENDING"
             /\ outbox'[m].status = "PERMANENTLY_FAILED"
             /\ outbox'[m].attempts = outbox[m].attempts
  <2>1. outbox[m] \in Row /\ m \in Message BY <1>1, <1>2 DEF TypeOK
  <2>2. outbox'[m] = [outbox[m] EXCEPT !.status = "PERMANENTLY_FAILED"]
    BY <1>2 DEF StartJob, Waiting
  <2> QED BY <2>1, <2>2 DEF Row
<1>5. ASSUME NEW m \in Message, m \notin M PROVE outbox'[m] = outbox[m]
  BY <1>5 DEF StartJob, DInv, RetiredAreUnclaimed, Waiting
<1>6. \A m \in Message : RowMoves(m) BY <1>4, <1>5 DEF RowMoves, Waiting
<1>7. Delivery!Move(M, "fresh", "dropped")
  <2>1. \A m \in M : deliveryPhase[m] = "fresh" /\ deliveryPhase'[m] = "dropped"
    BY <1>2, <1>4, Phases DEF PhaseMap
  <2>2. \A m \in Message \ M : deliveryPhase'[m] = deliveryPhase[m]
    BY <1>1, <1>5, PhaseKept
  <2> QED BY <1>2, <1>3, <2>1, <2>2, MovesTogether
<1>8. /\ worker'[w].at \notin Holding
      /\ worker'[w].todo = worker[w].todo
      /\ \A v \in Worker : v # w => worker'[v] = worker[v]
  BY <1>1 DEF StartJob, TypeOK, Frame, Holding
<1> QED BY <1>3, <1>6, <1>7, <1>8, RestersDeliver DEF Delivery!Next

(* A recovery takes lapsed claims back.                                    *)
LEMMA RecoverDelivers ==
    ASSUME DInv, IInv', NEW w \in Worker, recoverExpiredClaims(w)
    PROVE  DInv' /\ Delivery!Next
<1>1. TypeOK BY DEF DInv, IInv
<1> DEFINE M == {m \in Message : Expired(m)}
<1>2. UNCHANGED accepted BY DEF recoverExpiredClaims
<1>3. ASSUME NEW m \in M
      PROVE  /\ outbox[m].status = "PROCESSING" /\ outbox[m].lapsed
             /\ outbox'[m].status = "FAILED"
             /\ outbox'[m].attempts = outbox[m].attempts
  <2>1. outbox[m] \in Row BY <1>1 DEF TypeOK
  <2>2. outbox'[m] = [outbox[m] EXCEPT !.status = "FAILED", !.claimedBy = None, !.lapsed = FALSE]
    BY DEF recoverExpiredClaims
  <2> QED BY <2>1, <2>2 DEF Row, Expired
<1>4. ASSUME NEW m \in Message, m \notin M PROVE outbox'[m] = outbox[m]
  BY <1>4 DEF recoverExpiredClaims
<1>5. \A m \in Message : RowMoves(m) BY <1>3, <1>4 DEF RowMoves
<1>6. Delivery!Move(M, "lapsed", "back")
  <2>1. \A m \in M : deliveryPhase[m] = "lapsed" /\ deliveryPhase'[m] = "back"
    BY <1>3, Phases DEF PhaseMap
  <2>2. \A m \in Message \ M : deliveryPhase'[m] = deliveryPhase[m]
    BY <1>1, <1>4, PhaseKept
  <2> QED BY <1>2, <2>1, <2>2, MovesTogether
<1>7. /\ worker'[w].at \notin Holding
      /\ worker'[w].todo = worker[w].todo
      /\ \A v \in Worker : v # w => worker'[v] = worker[v]
  BY <1>1 DEF recoverExpiredClaims, TypeOK, Frame, Holding
<1>8. M \in SUBSET Message OBVIOUS
<1> QED BY <1>2, <1>5, <1>6, <1>7, <1>8, RestersDeliver DEF Delivery!Next

(* The list holds rows of living types that were never delivered.          *)
LEMMA ListDelivers ==
    ASSUME DInv, IInv', NEW w \in Worker, listDispatchable(w)
    PROVE  DInv' /\ UNCHANGED Delivery!vars
<1>1. TypeOK /\ worker[w] \in Frame BY DEF DInv, IInv, TypeOK
<1>2. UNCHANGED <<outbox, accepted>> BY DEF listDispatchable, History
<1> DEFINE snapshot(m) == [id |-> m, status |-> outbox[m].status,
                           attempts |-> outbox[m].attempts]
           listed == Oldest(Dispatchable, IF worker[w].job THEN Batch ELSE 1)
<1>3. ASSUME NEW m \in listed PROVE First(snapshot(m))
  BY DEF Oldest, Dispatchable, First, DInv, AttemptsCountDeliveries, Waiting
<1>4. worker' = [worker EXCEPT ![w] =
         [worker[w] EXCEPT !.at = "next", !.todo = {snapshot(m) : m \in listed}]]
  BY DEF listDispatchable
<1> HIDE DEF snapshot, listed
<1>5. /\ worker'[w].at \notin Holding
      /\ worker'[w].todo = {snapshot(m) : m \in listed}
      /\ \A v \in Worker : v # w => worker'[v] = worker[v]
  BY <1>1, <1>4 DEF TypeOK, Frame, Holding
<1>6. \A v \in Worker : \A s \in worker'[v].todo : First(s)
  BY <1>3, <1>5 DEF DInv, ListsAreFirst
<1>7. \A m \in Message : RowMoves(m) BY <1>2 DEF RowMoves
<1> QED BY <1>2, <1>5, <1>6, <1>7, DeliveryKept, RowsStutter

(* A batch claims a fresh row or one that was taken back.                  *)
LEMMA ClaimDelivers ==
    ASSUME DInv, IInv', NEW w \in Worker, claim(w)
    PROVE  DInv' /\ [Delivery!Next]_(Delivery!vars)
<1>1. TypeOK /\ worker[w] \in Frame BY DEF DInv, IInv, TypeOK
<1>2. UNCHANGED accepted BY DEF claim, History
<1>3. PICK row \in worker[w].todo :
        \/ /\ Unchanged(row)
           /\ outbox' = [outbox EXCEPT ![row.id] =
                [@ EXCEPT !.status = "PROCESSING", !.claimedBy = w,
                          !.lapsed = worker[w].lapsed]]
           /\ worker' = [worker EXCEPT ![w] =
                [@ EXCEPT !.at = "send", !.row = row, !.todo = worker[w].todo \ {row}]]
        \/ /\ worker' = [worker EXCEPT ![w].todo = worker[w].todo \ {row}]
           /\ UNCHANGED outbox
  BY DEF claim
<1>4. /\ row \in Snapshot /\ row.id \in Message /\ row.status \in Waiting
      /\ First(row) /\ worker[w].lapsed \in BOOLEAN
  BY <1>1 DEF Frame, Snapshot, DInv, ListsAreFirst
<1>5. CASE /\ Unchanged(row)
           /\ outbox' = [outbox EXCEPT ![row.id] =
                [@ EXCEPT !.status = "PROCESSING", !.claimedBy = w,
                          !.lapsed = worker[w].lapsed]]
           /\ worker' = [worker EXCEPT ![w] =
                [@ EXCEPT !.at = "send", !.row = row, !.todo = worker[w].todo \ {row}]]
  <2> DEFINE m == row.id
  <2>1. outbox[m] \in Row /\ outbox[m].status \in Waiting /\ m \notin Retired
    BY <1>1, <1>4, <1>5 DEF TypeOK, Unchanged, First
  <2>2. outbox'[m] = [outbox[m] EXCEPT !.status = "PROCESSING", !.claimedBy = w,
                                       !.lapsed = worker[w].lapsed]
    BY <1>1, <1>4, <1>5 DEF TypeOK
  <2>3. /\ outbox'[m].status = "PROCESSING" /\ outbox'[m].lapsed \in BOOLEAN
        /\ outbox'[m].attempts = outbox[m].attempts
    BY <1>4, <2>1, <2>2 DEF Row
  <2>4. \A n \in Message : n # m => outbox'[n] = outbox[n]
    BY <1>1, <1>4, <1>5 DEF TypeOK
  <2>5. \A n \in Message : RowMoves(n) BY <2>1, <2>3, <2>4 DEF RowMoves
  <2>6. /\ worker'[w].todo = worker[w].todo \ {row} /\ worker'[w].row = row
        /\ \A v \in Worker : v # w => worker'[v] = worker[v]
    BY <1>1, <1>5 DEF TypeOK, Frame
  <2>7. First(worker'[w].row) /\ NowUnderway(worker'[w].row.id)
    BY <1>4, <2>1, <2>3, <2>6 DEF NowUnderway
  <2>8. \A v \in Worker : \A s \in worker'[v].todo : First(s)
    BY <2>6 DEF DInv, ListsAreFirst
  <2>9. DInv' BY <1>2, <2>5, <2>6, <2>7, <2>8, DeliveryKept
  <2>10. deliveryPhase[m] \in {"fresh", "back"} /\ deliveryPhase'[m] \in {"held", "lapsed"}
    BY <1>4, <2>1, <2>3, Phases DEF PhaseMap, Waiting
  <2>11. \A n \in Message : n # m => deliveryPhase'[n] = deliveryPhase[n]
    BY <1>1, <2>4, PhaseKept
  <2>12. deliveryPhase' = [deliveryPhase EXCEPT ![m] = deliveryPhase'[m]]
    BY <1>4, <2>11, PhaseFunction
  <2>13. Delivery!Claim(m) BY <1>2, <2>1, <2>10, <2>12 DEF Delivery!Claim
  <2> QED BY <1>4, <2>9, <2>13 DEF Delivery!Next
<1>6. CASE /\ worker' = [worker EXCEPT ![w].todo = worker[w].todo \ {row}]
           /\ UNCHANGED outbox
  <2>1. /\ worker'[w].todo = worker[w].todo \ {row}
        /\ worker'[w].at = worker[w].at /\ worker'[w].row = worker[w].row
        /\ \A v \in Worker : v # w => worker'[v] = worker[v]
    BY <1>1, <1>6 DEF TypeOK, Frame
  <2>2. \A m \in Message : RowMoves(m) BY <1>6 DEF RowMoves
  <2> QED BY <1>2, <1>6, <2>1, <2>2, RestersDeliver, RowsStutter
<1> QED BY <1>3, <1>5, <1>6
(* The provider takes a message whose delivery was begun.                  *)
LEMMA SendDelivers ==
    ASSUME DInv, IInv', NEW w \in Worker, send(w)
    PROVE  DInv' /\ [Delivery!Next]_(Delivery!vars)
<1>1. TypeOK /\ worker[w] \in Frame /\ worker[w].at \in Holding
  BY DEF DInv, IInv, TypeOK, send, At, Holding
<1> DEFINE m == worker[w].row.id
<1>2. m \in Message /\ Underway(m) BY <1>1, HeldRow DEF DInv, HoldersAreFirst
<1>3. UNCHANGED outbox /\ accepted' \in {accepted, accepted \cup {m}} BY DEF send
<1>4. UNCHANGED deliveryPhase BY <1>3 DEF deliveryPhase
<1>5. DInv'
  <2>1. \A n \in Message : RowMoves(n) BY <1>3 DEF RowMoves
  <2>2. /\ worker'[w].todo = worker[w].todo /\ worker'[w].row = worker[w].row
        /\ \A v \in Worker : v # w => worker'[v] = worker[v]
    BY <1>1 DEF send, Goto, TypeOK, Frame
  <2>3. \A v \in Worker : \A s \in worker'[v].todo : First(s)
    BY <2>2 DEF DInv, ListsAreFirst
  <2>4. NowUnderway(m) BY <1>2, <1>3 DEF Underway, NowUnderway
  <2>5. \A n \in accepted' : n \in accepted \/ NowUnderway(n) BY <1>3, <2>4
  <2>6. \A v \in Worker : worker'[v].at \in Holding =>
           worker[v].at \in Holding /\ worker'[v].row = worker[v].row
    BY <1>1, <2>2
  <2> QED BY <2>1, <2>3, <2>5, <2>6, DeliveryKept
<1>6. CASE accepted' = accepted BY <1>3, <1>5, <1>6, RowsStutter
<1>7. CASE accepted' = accepted \cup {m}
  <2>1. deliveryPhase[m] \in {"held", "lapsed", "back", "sent"}
    <3>1. outbox[m].lapsed \in BOOLEAN BY <1>1, <1>2 DEF TypeOK, Row
    <3> QED BY <1>2, <3>1, Phases DEF PhaseMap, Underway
  <2>2. Delivery!Take(m) BY <1>4, <1>7, <2>1 DEF Delivery!Take
  <2> QED BY <1>2, <1>5, <2>2 DEF Delivery!Next
<1> QED BY <1>3, <1>6, <1>7

(* A mark completes the claim of its worker, lapsed or not, or nothing.    *)
LEMMA MarkSentDelivers ==
    ASSUME DInv, IInv', NEW w \in Worker, markSent(w)
    PROVE  DInv' /\ [Delivery!Next]_(Delivery!vars)
<1>1. TypeOK /\ worker[w] \in Frame /\ worker[w].at = "sent"
  BY DEF DInv, IInv, TypeOK, markSent, At
<1>2. worker[w].at \in Holding BY <1>1 DEF Holding
<1> DEFINE m == worker[w].row.id
<1>3. m \in Message /\ First(worker[w].row) /\ m \in accepted
  BY <1>1, <1>2, HeldRow DEF DInv, HoldersAreFirst, IInv, MarkersWereAnswered
<1>4. UNCHANGED accepted BY DEF markSent, History
<1>5. /\ worker'[w].todo = worker[w].todo /\ worker'[w].at \notin Holding
      /\ \A v \in Worker : v # w => worker'[v] = worker[v]
  BY <1>1 DEF markSent, TypeOK, Frame, Holding
<1>6. CASE Owns(w) /\ Marked(w)
  <2>1. outbox[m].status = "PROCESSING" /\ outbox[m].lapsed \in BOOLEAN
    BY <1>1, <1>3, <1>6 DEF Owns, TypeOK, Row
  <2>2. outbox'[m] = [status |-> "SENT", attempts |-> worker[w].row.attempts + 1,
                      claimedBy |-> None, lapsed |-> FALSE]
    BY <1>1, <1>3, <1>6 DEF Marked, TypeOK
  <2>3. outbox'[m].status = "SENT" /\ outbox'[m].attempts = 1
    BY <1>3, <2>2 DEF First
  <2>4. \A n \in Message : n # m => outbox'[n] = outbox[n]
    BY <1>1, <1>3, <1>6 DEF Marked, TypeOK
  <2>5. \A n \in Message : RowMoves(n) BY <2>1, <2>3, <2>4 DEF RowMoves
  <2>6. DInv' BY <1>4, <1>5, <2>5, RestersDeliver
  <2>7. deliveryPhase[m] \in {"held", "lapsed"} /\ deliveryPhase'[m] = "sent"
    BY <1>3, <2>1, <2>3, Phases DEF PhaseMap
  <2>8. \A n \in Message : n # m => deliveryPhase'[n] = deliveryPhase[n]
    BY <1>1, <2>4, PhaseKept
  <2>9. deliveryPhase' = [deliveryPhase EXCEPT ![m] = "sent"]
    BY <1>3, <2>7, <2>8, PhaseFunction
  <2>10. Delivery!Complete(m) BY <1>3, <1>4, <2>7, <2>9 DEF Delivery!Complete
  <2> QED BY <1>3, <2>6, <2>10 DEF Delivery!Next
<1>7. CASE UNCHANGED outbox
  <2>1. \A n \in Message : RowMoves(n) BY <1>7 DEF RowMoves
  <2> QED BY <1>4, <1>5, <1>7, <2>1, RestersDeliver, RowsStutter
<1> QED BY <1>6, <1>7 DEF markSent

LEMMA MarkSentFailsDelivers ==
    ASSUME DInv, IInv', NEW w \in Worker, MarkSentFails(w)
    PROVE  DInv' /\ UNCHANGED Delivery!vars
<1>1. TypeOK /\ worker[w] \in Frame /\ worker[w].at \in Holding
  BY DEF DInv, IInv, TypeOK, MarkSentFails, At, Holding
<1>2. UNCHANGED <<outbox, accepted>> BY DEF MarkSentFails, History
<1>3. /\ worker'[w].todo = worker[w].todo /\ worker'[w].row = worker[w].row
      /\ \A v \in Worker : v # w => worker'[v] = worker[v]
  BY <1>1 DEF MarkSentFails, Goto, TypeOK, Frame
<1>4. \A m \in Message : RowMoves(m) BY <1>2 DEF RowMoves
<1> QED BY <1>1, <1>2, <1>3, <1>4, RestersDeliver, RowsStutter

(* A dead dispatch leaves its messages where they are.                     *)
LEMMA AbandonDelivers ==
    ASSUME DInv, IInv', NEW w \in Worker, Abandon(w), UNCHANGED accepted
    PROVE  DInv' /\ UNCHANGED Delivery!vars
<1>1. TypeOK BY DEF DInv, IInv
<1>2. ASSUME NEW m \in Message
      PROVE  /\ outbox'[m].status = outbox[m].status
             /\ outbox'[m].attempts = outbox[m].attempts
             /\ outbox'[m].lapsed = outbox[m].lapsed
  <2>1. outbox[m] \in Row BY <1>1 DEF TypeOK
  <2>2. outbox'[m] = IF outbox[m].claimedBy = w THEN [outbox[m] EXCEPT !.claimedBy = Dead]
                     ELSE outbox[m]
    BY DEF Abandon
  <2> QED BY <2>1, <2>2 DEF Row
<1>3. \A m \in Message : RowMoves(m) BY <1>2 DEF RowMoves
<1>4. /\ worker'[w].todo = {} /\ worker'[w].at \notin Holding
      /\ \A v \in Worker : v # w => worker'[v] = worker[v]
  BY <1>1 DEF Abandon, TypeOK, Idle, Holding
<1>5. \A m \in Message : deliveryPhase'[m] = deliveryPhase[m]
  BY <1>1, <1>2, PhaseKept
<1> QED BY <1>3, <1>4, <1>5, RestersDeliver, PhasesStutter

(* The job's last statement finds nothing to give up: no row that waits    *)
(* has an attempt.                                                         *)
LEMMA FinishDelivers ==
    ASSUME DInv, IInv', NEW w \in Worker, Finish(w)
    PROVE  DInv' /\ UNCHANGED Delivery!vars
<1>1. TypeOK BY DEF DInv, IInv
<1>2. UNCHANGED accepted BY DEF Finish, History
<1>3. ASSUME NEW m \in Message PROVE outbox'[m] = outbox[m]
  <2>1. outbox[m].status = "FAILED" => ~(outbox[m].attempts >= MaxAttempts)
    BY OutboxAssumption DEF DInv, AttemptsCountDeliveries
  <2> QED BY <2>1 DEF Finish
<1>4. \A m \in Message : RowMoves(m) BY <1>3 DEF RowMoves
<1>5. /\ worker'[w].todo = {} /\ worker'[w].at \notin Holding
      /\ \A v \in Worker : v # w => worker'[v] = worker[v]
  BY <1>1 DEF Finish, TypeOK, Idle, Holding
<1>6. \A m \in Message : deliveryPhase'[m] = deliveryPhase[m]
  BY <1>1, <1>3, PhaseKept
<1> QED BY <1>2, <1>4, <1>5, <1>6, RestersDeliver, PhasesStutter

(* A batch lapses: its claims were held, for none of them had lapsed.      *)
LEMMA LapseDelivers ==
    ASSUME DInv, IInv', NEW w \in Worker, Lapse(w)
    PROVE  DInv' /\ Delivery!Next
<1>1. TypeOK /\ worker[w] \in Frame BY DEF DInv, IInv, TypeOK
<1> DEFINE M == {m \in Message : outbox[m].claimedBy = w}
<1>2. UNCHANGED accepted BY DEF Lapse, History
<1>3. ASSUME NEW m \in M
      PROVE  /\ outbox[m].status = "PROCESSING" /\ ~outbox[m].lapsed
             /\ outbox'[m].status = "PROCESSING" /\ outbox'[m].lapsed
             /\ outbox'[m].attempts = outbox[m].attempts
  <2>1. outbox[m] \in Row /\ outbox[m].status = "PROCESSING"
    BY <1>1, Names DEF TypeOK
  <2>2. ~outbox[m].lapsed BY DEF Lapse, DInv, IInv, ClaimsAreHeld
  <2>3. outbox'[m] = [outbox[m] EXCEPT !.lapsed = TRUE] BY DEF Lapse
  <2> QED BY <2>1, <2>2, <2>3 DEF Row
<1>4. ASSUME NEW m \in Message, m \notin M PROVE outbox'[m] = outbox[m]
  BY <1>4 DEF Lapse
<1>5. \A m \in Message : RowMoves(m) BY <1>3, <1>4 DEF RowMoves
<1>6. Delivery!Move(M, "held", "lapsed")
  <2>1. \A m \in M : deliveryPhase[m] = "held" /\ deliveryPhase'[m] = "lapsed"
    BY <1>3, Phases DEF PhaseMap
  <2>2. \A m \in Message \ M : deliveryPhase'[m] = deliveryPhase[m]
    BY <1>1, <1>4, PhaseKept
  <2> QED BY <1>2, <2>1, <2>2, MovesTogether
<1>7. /\ worker'[w].todo = worker[w].todo /\ worker'[w].row = worker[w].row
      /\ worker'[w].at = worker[w].at
      /\ \A v \in Worker : v # w => worker'[v] = worker[v]
  BY <1>1 DEF Lapse, TypeOK, Frame
<1>8. M \in SUBSET Message OBVIOUS
<1> QED BY <1>2, <1>5, <1>6, <1>7, <1>8, RestersDeliver DEF Delivery!Next

LEMMA LapseDeadDelivers ==
    ASSUME DInv, IInv', LapseDead
    PROVE  DInv' /\ Delivery!Next
<1>1. TypeOK /\ UNCHANGED <<accepted, worker>> BY DEF DInv, IInv, LapseDead, History
<1>2. PICK m \in Message :
        /\ outbox[m].claimedBy = Dead
        /\ ~outbox[m].lapsed
        /\ outbox' = [outbox EXCEPT ![m].lapsed = TRUE]
  BY DEF LapseDead
<1>3. outbox[m] \in Row /\ outbox[m].status = "PROCESSING"
  BY <1>1, <1>2, Names DEF TypeOK
<1>4. outbox'[m] = [outbox[m] EXCEPT !.lapsed = TRUE] BY <1>1, <1>2 DEF TypeOK
<1>5. /\ outbox'[m].status = "PROCESSING" /\ outbox'[m].lapsed
      /\ outbox'[m].attempts = outbox[m].attempts
  BY <1>3, <1>4 DEF Row
<1>6. \A n \in Message : n # m => outbox'[n] = outbox[n] BY <1>1, <1>2 DEF TypeOK
<1>7. \A n \in Message : RowMoves(n) BY <1>3, <1>5, <1>6 DEF RowMoves
<1>8. deliveryPhase[m] = "held" /\ deliveryPhase'[m] = "lapsed"
  BY <1>2, <1>3, <1>5, Phases DEF PhaseMap
<1>9. \A n \in Message : n # m => deliveryPhase'[n] = deliveryPhase[n]
  BY <1>1, <1>6, PhaseKept
<1>10. Delivery!Move({m}, "held", "lapsed") BY <1>1, <1>8, <1>9, MovesTogether
<1>11. \A v \in Worker : \A s \in worker'[v].todo : First(s)
  BY <1>1 DEF DInv, ListsAreFirst
<1>12. DInv' BY <1>1, <1>7, <1>11, DeliveryKept
<1>13. {m} \in SUBSET Message OBVIOUS
<1> QED BY <1>10, <1>12, <1>13 DEF Delivery!Next

(* Every step of the outbox is a step of the queue with leases, or none.   *)
LEMMA StepDelivers ==
    ASSUME DInv, [Next]_vars
    PROVE  DInv' /\ [Delivery!Next]_(Delivery!vars)
<1>1. IInv' BY Steps DEF DInv
<1>2. CASE Queue BY <1>1, <1>2, QueueDelivers
<1>3. CASE LapseDead BY <1>1, <1>3, LapseDeadDelivers
<1>4. ASSUME NEW w \in Worker,
             Reemail(w) \/ StartJob(w) \/ recoverExpiredClaims(w) \/ Lapse(w)
      PROVE  DInv' /\ Delivery!Next
  BY <1>1, <1>4, ReemailDelivers, StartJobDelivers, RecoverDelivers, LapseDelivers
<1>5. ASSUME NEW w \in Worker, listDispatchable(w) \/ MarkSentFails(w) \/ Finish(w)
      PROVE  DInv' /\ UNCHANGED Delivery!vars
  BY <1>1, <1>5, ListDelivers, MarkSentFailsDelivers, FinishDelivers
<1>6. ASSUME NEW w \in Worker, claim(w) \/ send(w) \/ markSent(w)
      PROVE  DInv' /\ [Delivery!Next]_(Delivery!vars)
  BY <1>1, <1>6, ClaimDelivers, SendDelivers, MarkSentDelivers
<1>7. ASSUME NEW w \in Worker, markFailed(w) \/ Crash(w)
      PROVE  DInv' /\ UNCHANGED Delivery!vars
  BY <1>1, <1>7, AbandonDelivers DEF markFailed, Crash, History
<1>8. CASE UNCHANGED vars
  <2>1. UNCHANGED <<outbox, accepted, worker>> BY <1>8 DEF vars
  <2>2. \A m \in Message : RowMoves(m) BY <2>1 DEF RowMoves
  <2>3. \A v \in Worker : \A s \in worker'[v].todo : First(s)
    BY <2>1 DEF DInv, ListsAreFirst
  <2>4. DInv' BY <1>1, <2>1, <2>2, <2>3, DeliveryKept
  <2> QED BY <2>1, <2>4, RowsStutter
<1> QED BY <1>2, <1>3, <1>4, <1>5, <1>6, <1>7, <1>8 DEF Next, Work

-----------------------------------------------------------------------------
(* The inductive invariant holds in every reachable state, for any number  *)
(* of workers, messages, attempts and faults.                              *)
THEOREM Invariant == Spec => []IInv
BY Starts, Steps, PTL DEF Spec

(* Rows and workers keep their types, and exactly the rows in PROCESSING   *)
(* carry a claim (claim, recoverExpiredClaims, markSent, markFailed).      *)
THEOREM TypesHold == Spec => []TypeOK
<1>1. IInv => TypeOK
  BY DEF IInv
<1> QED
  BY <1>1, Invariant, PTL

(* A worker owns the row it works on until its batch has lapsed: nobody    *)
(* recovers or marks it (recoverExpiredClaims against claim).              *)
THEOREM ClaimsExclude == Spec => []ClaimIsExclusive
<1>1. IInv => ClaimIsExclusive
  BY DEF IInv
<1> QED
  BY <1>1, Invariant, PTL

(* No message is marked SENT that the provider has not taken, whichever    *)
(* worker marks it, and after whatever crashes (send and markSent).        *)
THEOREM SentIsTaken == Spec => []SentMeansAccepted
<1>1. IInv => SentMeansAccepted
  BY DEF IInv
<1> QED
  BY <1>1, Invariant, PTL

(* The provider is called no more often than the row's attempts and its    *)
(* recovered claims explain: no batch sends a row it does not hold.        *)
THEOREM CallsAccounted == Spec => []SendsAreAccounted
<1>1. Init => IInv /\ Accounts
  BY Starts, AccountsStart
<1>2. IInv /\ Accounts /\ [Next]_vars => (IInv /\ Accounts)'
  BY Steps, AccountsSteps
<1>3. IInv /\ Accounts => SendsAreAccounted
  <2> SUFFICES ASSUME IInv, Accounts, NEW m \in Message
               PROVE  sends[m] <= outbox[m].attempts + recovered[m] + Charged(m)
    BY DEF SendsAreAccounted, Charged
  <2>1. sends[m] + Cardinality(Senders(m)) <= outbox[m].attempts + recovered[m] + Charged(m)
    BY DEF Accounts, CallsAreCharged
  <2> QED
    BY <2>1, Numbers DEF IInv
<1> QED
  BY <1>1, <1>2, <1>3, PTL DEF Spec

(* What the refinement needs holds in every reachable state.               *)
THEOREM DeliveryInvariant == Spec => []DInv
<1>1. Init => DInv BY DeliveryStarts
<1>2. DInv /\ [Next]_vars => DInv' BY StepDelivers
<1> QED BY <1>1, <1>2, PTL DEF Spec

(* The attempts of a row count its delivery and nothing else, so the       *)
(* attempt limit gives no message up (markSent and markFailed).            *)
THEOREM AttemptsAreDeliveries == Spec => []AttemptsCountDeliveries
<1>1. DInv => AttemptsCountDeliveries BY DEF DInv
<1> QED BY <1>1, DeliveryInvariant, PTL

(* The outbox implements the queue with leases: only lapsed claims are     *)
(* taken back, only taken messages become SENT, and SENT is for ever, for  *)
(* any number of workers, messages, attempts and faults.                   *)
THEOREM DeliveryImplemented == Spec => ImplementsDelivery
<1>1. Init => Delivery!Init BY DeliveryStarts
<1>2. DInv /\ [Next]_vars => [Delivery!Next]_(Delivery!vars) BY StepDelivers
<1> QED
  BY <1>1, <1>2, DeliveryInvariant, PTL DEF Spec, ImplementsDelivery, Delivery!Spec
=============================================================================
