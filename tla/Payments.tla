------------------------------ MODULE Payments ------------------------------
(***************************************************************************)
(* Settlement of orders from the payment provider's webhooks:              *)
(* apps/web/payments/webhook-ingestion.ts and webhook-processing.ts, the   *)
(* transaction of settlement-transaction.ts with the entitlements, claim   *)
(* codes and licences it writes, the retries of the payments.operations    *)
(* job and of administrators, cancellation, and the commerce lifecycle     *)
(* job that expires orders and releases offer reservations.                *)
(*                                                                         *)
(* A handler's work is several database calls: the claim of the event, the *)
(* read of its status, the reclaim of a failed one, ONE serializable       *)
(* transaction with every commercial effect, and the record of a failure.  *)
(* Each is a step; a transaction that PostgreSQL aborts is Abort.          *)
(*                                                                         *)
(* The provider delivers an event it has emitted any number of times and   *)
(* in any order.  An order has one checkout that can settle, the row of    *)
(* PaymentCheckoutAttempt, hence one capture.                              *)
(***************************************************************************)
EXTENDS Naturals, FiniteSets

CONSTANTS
    Process,         \* requests and job executions running at a time
    Order, Payment, Event,
    Kind,            \* type of an event
    OrderOf,         \* the order an event refers to
    PaymentOf,       \* its externalPaymentId
    Matching,        \* events whose mode, reference, amount, currency match
    Gift,            \* orders with fulfillmentMode CLAIM_CODE
    Renews,          \* the order whose subscription an order pays for
    Discounted,      \* orders that redeem the limited offer
    MaxRedemptions,  \* DiscountOffer.maximumRedemptions
    Incidents,       \* which incidents happen in this instance
    MaxIncident      \* bound: how many of them happen

EventKind == {"paid", "failed", "refunded", "unknown"}

(* An aborted transaction, a process that dies, an event id sent again     *)
(* with another content, an administrator who closes the case.             *)
IncidentKind == {"abort", "crash", "replay", "acknowledge"}

ASSUME PaymentsAssumption ==
    /\ IsFiniteSet(Order)
    /\ Kind \in [Event -> EventKind]
    /\ OrderOf \in [Event -> Order]
    /\ PaymentOf \in [Event -> Payment]
    /\ Matching \subseteq Event
    /\ Gift \subseteq Order
    /\ Renews \in [Order -> Order]
    /\ \A o \in Order : Renews[Renews[o]] = Renews[o]
    /\ \A o \in Gift : Renews[o] = o
    /\ Discounted \subseteq Order
    /\ MaxRedemptions \in Nat
    /\ Incidents \subseteq IncidentKind
    /\ MaxIncident \in Nat
    /\ \A d, e \in Event :
          PaymentOf[d] = PaymentOf[e] => OrderOf[d] = OrderOf[e]
    /\ \A d, e \in Event :
          Kind[d] = "paid" /\ Kind[e] = "paid" /\ OrderOf[d] = OrderOf[e]
             => PaymentOf[d] = PaymentOf[e]

VARIABLES
    order,       \* Order.status
    invoice,     \* Invoice.status
    redemption,  \* OfferRedemption.status
    payment,     \* Payment.status
    settled,     \* payments with a PaymentSettlementFact
    right,       \* Entitlement "commerce:<order>:<item>"
    code,        \* ClaimCode.status
    claimed,     \* Entitlement "claim:<code>"
    access,      \* licence, subscription and its paid periods
    hook,        \* WebhookEvent rows
    emitted,     \* events the provider sends
    acked,       \* history: events answered with success
    frame,       \* where each process is in its handler
    incidents    \* history: incidents so far

commerce == <<order, invoice, redemption>>
money == <<payment, settled>>
grants == <<right, code, claimed, access>>
vars == <<order, invoice, redemption, payment, settled, right, code,
          claimed, access, hook, emitted, acked, frame, incidents>>

None == "none"

OrderStatus == {"NONE", "PENDING", "PAID", "CANCELLED", "REFUNDED"}
InvoiceStatus == {"NONE", "DRAFT", "FINAL", "VOID"}
RedemptionStatus == {"NONE", "RESERVED", "APPLIED", "RELEASED", "REFUNDED"}
PaymentStatus == {"NONE", "PAID", "FAILED", "REFUNDED"}
RightStatus == {"NONE", "ACTIVE", "REVOKED"}
CodeStatus == {"NONE", "AVAILABLE", "CLAIMED", "REVOKED"}

(* The license and the subscription of an order; periods counts the        *)
(* billing intervals granted on it.                                        *)
Access == [license : {"NONE", "ACTIVE", "REVOKED"},
           subscription : {"NONE", "ACTIVE", "CANCELLED"},
           periods : Nat]

ErrorCode == {None, "RETRYABLE", "PROCESSING_FAILED", "MISMATCH",
              "RECONCILIATION_REQUIRED", "REFUND_CONFLICT",
              "REPLAY_CONFLICT", "UNSUPPORTED"}
Hook == [status : {"NONE", "RECEIVED", "PROCESSED", "FAILED", "IGNORED"},
         code : ErrorCode,
         resolution : {"OPEN", "RESOLVED", "ACKNOWLEDGED"}]

Idle == [at |-> "idle", event |-> None, via |-> None, code |-> None]
Frame == {Idle} \cup
         [at : {"existing", "reclaim", "process", "fail"}, event : Event,
          via : {"webhook", "retry"}, code : ErrorCode]

-----------------------------------------------------------------------------
Init ==
    /\ order = [o \in Order |-> "NONE"]
    /\ invoice = [o \in Order |-> "NONE"]
    /\ redemption = [o \in Order |-> "NONE"]
    /\ payment = [p \in Payment |-> "NONE"]
    /\ settled = {}
    /\ right = [o \in Order |-> "NONE"]
    /\ code = [o \in Order |-> "NONE"]
    /\ claimed = [o \in Order |-> "NONE"]
    /\ access = [o \in Order |-> [license |-> "NONE",
                                  subscription |-> "NONE", periods |-> 0]]
    /\ hook = [e \in Event |-> [status |-> "NONE", code |-> None,
                                resolution |-> "OPEN"]]
    /\ emitted = {}
    /\ acked = {}
    /\ frame = [p \in Process |-> Idle]
    /\ incidents = 0

Incident(kind) ==
    /\ kind \in Incidents
    /\ incidents < MaxIncident
    /\ incidents' = incidents + 1

-----------------------------------------------------------------------------
(* Customers, administrators of orders and the commerce lifecycle job.     *)

(* Reserved, applied and refunded redemptions consume the offer's limit.   *)
Redeemed == {o \in Order : redemption[o] \in {"RESERVED", "APPLIED", "REFUNDED"}}

(* The renewal checkout asks only that the subscription exists: one that a *)
(* refund cancelled can be renewed too.                                    *)
Renewable(r) == access[r].subscription # "NONE"

PlaceOrder(o) ==
    /\ order[o] = "NONE"
    /\ Renews[o] # o => Renewable(Renews[o])
    /\ o \in Discounted => Cardinality(Redeemed) < MaxRedemptions
    /\ order' = [order EXCEPT ![o] = "PENDING"]
    /\ invoice' = [invoice EXCEPT ![o] = "DRAFT"]
    /\ redemption' = [redemption EXCEPT
                        ![o] = IF o \in Discounted THEN "RESERVED" ELSE "NONE"]
    /\ UNCHANGED <<money, grants, hook, emitted, acked, frame, incidents>>

CancelOrder(o) ==
    /\ order[o] = "PENDING"
    /\ order' = [order EXCEPT ![o] = "CANCELLED"]
    /\ UNCHANGED <<invoice, redemption, money, grants, hook, emitted,
                   acked, frame, incidents>>

(* Mutant: every old reservation is released, whatever became of it.       *)
ReleasedAny(o) == "RELEASED"

Released(o) == IF redemption[o] = "RESERVED" THEN "RELEASED" ELSE redemption[o]

(* O is the set of orders created, and reserved, more than a day ago.      *)
commerceLifecycle(O) ==
    /\ order' = [o \in Order |-> IF o \in O /\ order[o] = "PENDING"
                                 THEN "CANCELLED" ELSE order[o]]
    /\ redemption' = [o \in Order |-> IF o \in O THEN Released(o)
                                                  ELSE redemption[o]]
    /\ UNCHANGED <<invoice, money, grants, hook, emitted, acked, frame, incidents>>

-----------------------------------------------------------------------------
(* The provider.                                                           *)

(* The hosted checkout stays payable after a local cancellation; a refund  *)
(* needs a capture.                                                        *)
Emit(e) ==
    /\ e \notin emitted
    /\ order[OrderOf[e]] # "NONE"
    /\ Kind[e] = "refunded" =>
          \E d \in emitted : Kind[d] = "paid" /\ PaymentOf[d] = PaymentOf[e]
    /\ emitted' = emitted \cup {e}
    /\ UNCHANGED <<commerce, money, grants, hook, acked, frame, incidents>>

-----------------------------------------------------------------------------
(* ingestPaymentWebhook()                                                  *)

Goto(p, at, e, via, c) ==
    frame' = [frame EXCEPT ![p] = [at |-> at, event |-> e, via |-> via, code |-> c]]

At(p, at) == frame[p].at = at

(* The serializable claim: the insert of the row, or the find of it.       *)
Deliver(p, e) ==
    /\ At(p, "idle")
    /\ e \in emitted
    /\ IF hook[e].status = "NONE"
       THEN /\ hook' = [hook EXCEPT ![e].status = "RECEIVED"]
            /\ Goto(p, "process", e, "webhook", None)
       ELSE /\ Goto(p, "existing", e, "webhook", None)
            /\ UNCHANGED hook
    /\ UNCHANGED <<commerce, money, grants, emitted, acked, incidents>>

(* An existing event is processed again only when it has FAILED; every     *)
(* other status is answered as a duplicate.                                *)
FindExisting(p) ==
    LET e == frame[p].event IN
    /\ At(p, "existing")
    /\ IF hook[e].status = "FAILED"
       THEN Goto(p, "reclaim", e, "webhook", None) /\ UNCHANGED acked
       ELSE frame' = [frame EXCEPT ![p] = Idle] /\ acked' = acked \cup {e}
    /\ UNCHANGED <<commerce, money, grants, hook, emitted, incidents>>

(* The update to RECEIVED is by id: the status it was decided on may have  *)
(* changed since.                                                          *)
Reclaim(p) ==
    LET e == frame[p].event IN
    /\ At(p, "reclaim")
    /\ hook' = [hook EXCEPT ![e].status = "RECEIVED", ![e].code = None]
    /\ Goto(p, "process", e, frame[p].via, None)
    /\ UNCHANGED <<commerce, money, grants, emitted, acked, incidents>>

(* A signed event with a known id and another fingerprint: only the row's  *)
(* error code and resolution change, and the provider gets a conflict.     *)
ConflictingReplay(e) ==
    /\ e \in emitted
    /\ hook[e].status # "NONE"
    /\ Incident("replay")
    /\ hook' = [hook EXCEPT ![e].code = "REPLAY_CONFLICT",
                            ![e].resolution = "OPEN"]
    /\ UNCHANGED <<commerce, money, grants, emitted, acked, frame>>

-----------------------------------------------------------------------------
(* retryStoredWebhook(), from the payments.operations job or by hand.      *)

(* Mutant: the job retries only what the provider was unavailable for.     *)
ListedByOutage(e) ==
    hook[e].status = "FAILED" /\ hook[e].resolution = "OPEN" /\ hook[e].code = None

Listed(e) ==
    /\ hook[e].status = "FAILED"
    /\ hook[e].resolution = "OPEN"
    /\ hook[e].code = "RETRYABLE"

StartRetry(p, e) ==
    /\ At(p, "idle")
    /\ hook[e].status = "FAILED"
    /\ Goto(p, "reclaim", e, "retry", None)
    /\ UNCHANGED <<commerce, money, grants, hook, emitted, acked, incidents>>

paymentOperations(p, e) == Listed(e) /\ StartRetry(p, e)

AdminRetry(p, e) == StartRetry(p, e)

AdminAcknowledge(e) ==
    /\ hook[e].status # "NONE"
    /\ Incident("acknowledge")
    /\ hook' = [hook EXCEPT ![e].resolution = "ACKNOWLEDGED"]
    /\ UNCHANGED <<commerce, money, grants, emitted, acked, frame>>

-----------------------------------------------------------------------------
(* processVerifiedEvent(): the guards of its transaction.                  *)

(* Mutant: a refunded order can be settled again.                          *)
SettleableAgain(o) ==
    \/ order[o] \in {"PENDING", "PAID", "REFUNDED"}
    \/ order[o] = "CANCELLED"

(* Order, invoice and redemption together admit a paid settlement.         *)
Settleable(o) ==
    \/ /\ order[o] \in {"PENDING", "CANCELLED"} /\ invoice[o] = "DRAFT"
       /\ \/ redemption[o] \in {"NONE", "RESERVED", "APPLIED"}
          \/ order[o] = "CANCELLED" /\ redemption[o] = "RELEASED"
    \/ /\ order[o] = "PAID" /\ invoice[o] = "FINAL"
       /\ redemption[o] \in {"NONE", "RESERVED", "APPLIED"}

(* The fact's insert has a unique index on the payment: only the event     *)
(* that creates it is fulfilled (paymentSettlementDisposition CREATED).    *)
FirstSettlementAlways(e) == TRUE

FirstSettlement(e) == PaymentOf[e] \notin settled

(* License.orderItemId is unique: a second license aborts the transaction. *)
LicenseTaken(o) == Renews[o] = o /\ access[o].license # "NONE"

(* Mutant: a refund that finds nothing to refund is acknowledged.          *)
RejectionLenient(e) ==
    IF e \notin Matching THEN "MISMATCH"
    ELSE IF Kind[e] = "paid" /\ ~Settleable(OrderOf[e])
         THEN "RECONCILIATION_REQUIRED" ELSE None

(* What makes the transaction throw, None when it commits.                 *)
Rejection(e) ==
    LET o == OrderOf[e] IN
    CASE e \notin Matching -> "MISMATCH"
      [] e \in Matching /\ Kind[e] = "paid" /\ ~Settleable(o) ->
            "RECONCILIATION_REQUIRED"
      [] e \in Matching /\ Kind[e] = "paid" /\ Settleable(o)
            /\ o \notin Gift /\ FirstSettlement(e) /\ LicenseTaken(o) ->
            "PROCESSING_FAILED"
      [] e \in Matching /\ Kind[e] = "refunded"
            /\ order[o] \notin {"PAID", "REFUNDED"} -> "REFUND_CONFLICT"
      [] OTHER -> None

(* The transaction of event e is about to commit in process p; its last    *)
(* write marks the event.                                                  *)
Commits(p, kind) ==
    LET e == frame[p].event IN
    /\ At(p, "process")
    /\ Kind[e] = kind
    /\ Rejection(e) = None
    /\ hook' = [hook EXCEPT ![e] = [status |-> "PROCESSED", code |-> None,
                                    resolution |-> "RESOLVED"]]
    /\ acked' = IF frame[p].via = "webhook" THEN acked \cup {e} ELSE acked
    /\ frame' = [frame EXCEPT ![p] = Idle]
    /\ UNCHANGED <<claimed, emitted, incidents>>

(* fulfillOrderLicensing(): a new license and subscription, or one more    *)
(* period on the renewed one, whose licenses become ACTIVE again.          *)
Fulfilled(o) ==
    [access EXCEPT ![Renews[o]] =
        [license |-> "ACTIVE", subscription |-> "ACTIVE",
         periods |-> @.periods + 1]]

(* A refund revokes the licenses of the order and of the subscription it   *)
(* renewed, and cancels the subscription.                                  *)
Revoked(o) ==
    [access EXCEPT ![Renews[o]] =
        [license |-> IF @.license = "NONE" THEN "NONE" ELSE "REVOKED",
         subscription |-> IF @.subscription = "NONE" THEN "NONE" ELSE "CANCELLED",
         periods |-> @.periods]]

-----------------------------------------------------------------------------
(* processVerifiedEvent(): its outcomes.                                   *)

processPaidEvent(p) ==
    LET e == frame[p].event
        o == OrderOf[e] IN
    /\ Commits(p, "paid")
    /\ order' = [order EXCEPT ![o] = "PAID"]
    /\ invoice' = [invoice EXCEPT ![o] = "FINAL"]
    /\ redemption' = [redemption EXCEPT
                        ![o] = IF @ = "NONE" THEN "NONE" ELSE "APPLIED"]
    /\ payment' = [payment EXCEPT ![PaymentOf[e]] = "PAID"]
    /\ settled' = settled \cup {PaymentOf[e]}
    /\ IF o \in Gift
       THEN /\ code' = [code EXCEPT ![o] = IF @ = "NONE" THEN "AVAILABLE" ELSE @]
            /\ UNCHANGED <<right, access>>
       ELSE /\ right' = [right EXCEPT ![o] = IF @ = "NONE" THEN "ACTIVE" ELSE @]
            /\ access' = IF FirstSettlement(e) THEN Fulfilled(o) ELSE access
            /\ UNCHANGED code

RecordsFailure(e) == order[OrderOf[e]] \in {"PENDING", "CANCELLED"}

processFailedEvent(p) ==
    LET e == frame[p].event IN
    /\ Commits(p, "failed")
    /\ payment' = IF RecordsFailure(e)
                  THEN [payment EXCEPT ![PaymentOf[e]] = "FAILED"] ELSE payment
    /\ UNCHANGED <<order, invoice, redemption, settled, right, code, access>>

processRefundedEvent(p) ==
    LET e == frame[p].event
        o == OrderOf[e] IN
    /\ Commits(p, "refunded")
    /\ IF order[o] = "PAID"
       THEN /\ order' = [order EXCEPT ![o] = "REFUNDED"]
            /\ invoice' = [invoice EXCEPT ![o] = "VOID"]
            /\ redemption' = [redemption EXCEPT
                                ![o] = IF @ = "NONE" THEN "NONE" ELSE "REFUNDED"]
            /\ payment' = [payment EXCEPT ![PaymentOf[e]] = "REFUNDED"]
            /\ code' = [code EXCEPT ![o] = IF @ = "AVAILABLE" THEN "REVOKED" ELSE @]
            /\ right' = [right EXCEPT ![o] = IF @ = "ACTIVE" THEN "REVOKED" ELSE @]
            /\ access' = Revoked(o)
       ELSE UNCHANGED <<order, invoice, redemption, payment, code, right, access>>
    /\ UNCHANGED settled

(* An event of a type the host does not know is stored and acknowledged.   *)
IgnoreUnknown(p) ==
    LET e == frame[p].event IN
    /\ At(p, "process")
    /\ e \in Matching /\ Kind[e] = "unknown"
    /\ hook' = [hook EXCEPT ![e] = [status |-> "IGNORED", code |-> "UNSUPPORTED",
                                    resolution |-> "ACKNOWLEDGED"]]
    /\ acked' = IF frame[p].via = "webhook" THEN acked \cup {e} ELSE acked
    /\ frame' = [frame EXCEPT ![p] = Idle]
    /\ UNCHANGED <<commerce, money, grants, emitted, incidents>>

Throw(p) ==
    LET e == frame[p].event IN
    /\ At(p, "process")
    /\ Rejection(e) # None
    /\ Goto(p, "fail", e, frame[p].via, Rejection(e))
    /\ UNCHANGED <<commerce, money, grants, hook, emitted, acked, incidents>>

(* PostgreSQL aborts the serializable transaction.  Within the settlement  *)
(* capability that is retryable; at the host's own statements or at the    *)
(* commit it is P2034, which only the webhook maps to the retryable code.  *)
AbortCode(via) ==
    IF via = "webhook" THEN {"RETRYABLE"} ELSE {"RETRYABLE", "PROCESSING_FAILED"}

Abort(p) ==
    /\ At(p, "process")
    /\ Incident("abort")
    /\ \E c \in AbortCode(frame[p].via) : Goto(p, "fail", frame[p].event, frame[p].via, c)
    /\ UNCHANGED <<commerce, money, grants, hook, emitted, acked>>

(* Mutant: the code is written where the resolution belongs.               *)
FailedRowSwapped(c) == [status |-> "FAILED", code |-> "OPEN", resolution |-> c]

FailedRow(c) == [status |-> "FAILED", code |-> c, resolution |-> "OPEN"]

(* A transaction of its own, by event id: it overwrites whatever another   *)
(* process made of the event in the meantime.                              *)
recordFailure(p) ==
    /\ At(p, "fail")
    /\ hook' = [hook EXCEPT ![frame[p].event] = FailedRow(frame[p].code)]
    /\ frame' = [frame EXCEPT ![p] = Idle]
    /\ UNCHANGED <<commerce, money, grants, emitted, acked, incidents>>

(* The process dies, or loses the database, anywhere in its handler.       *)
Crash(p) ==
    /\ ~At(p, "idle")
    /\ Incident("crash")
    /\ frame' = [frame EXCEPT ![p] = Idle]
    /\ UNCHANGED <<commerce, money, grants, hook, emitted, acked>>

-----------------------------------------------------------------------------
(* consumeClaimCode(): the receiver of a gift redeems its code.            *)

(* Mutant: a code that a refund revoked can still be redeemed.             *)
ClaimableOnce(o) == code[o] \in {"AVAILABLE", "REVOKED"}

Claimable(o) == code[o] = "AVAILABLE"

consumeClaimCode(o) ==
    /\ Claimable(o)
    /\ ~LicenseTaken(o)
    /\ code' = [code EXCEPT ![o] = "CLAIMED"]
    /\ claimed' = [claimed EXCEPT ![o] = "ACTIVE"]
    /\ access' = Fulfilled(o)
    /\ UNCHANGED <<commerce, money, right, hook, emitted, acked, frame, incidents>>

Handle(p) ==
    \/ FindExisting(p) \/ Reclaim(p)
    \/ processPaidEvent(p) \/ processFailedEvent(p) \/ processRefundedEvent(p)
    \/ IgnoreUnknown(p) \/ Throw(p) \/ recordFailure(p)

Next ==
    \/ \E o \in Order : PlaceOrder(o) \/ CancelOrder(o) \/ consumeClaimCode(o)
    \/ \E O \in SUBSET Order : commerceLifecycle(O)
    \/ \E e \in Event : Emit(e) \/ ConflictingReplay(e) \/ AdminAcknowledge(e)
    \/ \E p \in Process, e \in Event :
          Deliver(p, e) \/ paymentOperations(p, e) \/ AdminRetry(p, e)
    \/ \E p \in Process : Handle(p) \/ Abort(p) \/ Crash(p)

Spec == Init /\ [][Next]_vars

(* A running handler goes on; the provider sends an event until an answer  *)
(* is a success; each tick of payments.operations retries, in receivedAt   *)
(* order, the events it lists, whatever else the server is doing.          *)
FairSpec ==
    /\ Spec
    /\ \A p \in Process : WF_vars(Handle(p))
    /\ \A e \in Event :
          SF_vars(\E p \in Process : e \notin acked /\ Deliver(p, e))
    /\ \A e \in Event : SF_vars(\E p \in Process : paymentOperations(p, e))

-----------------------------------------------------------------------------
(* Properties                                                              *)

(* Every row and every handler's local state is well formed.               *)
TypeOK ==
    /\ order \in [Order -> OrderStatus]
    /\ invoice \in [Order -> InvoiceStatus]
    /\ redemption \in [Order -> RedemptionStatus]
    /\ payment \in [Payment -> PaymentStatus]
    /\ settled \subseteq Payment
    /\ right \in [Order -> RightStatus]
    /\ code \in [Order -> CodeStatus]
    /\ claimed \in [Order -> RightStatus]
    /\ access \in [Order -> Access]
    /\ hook \in [Event -> Hook]
    /\ emitted \subseteq Event
    /\ acked \subseteq Event
    /\ frame \in [Process -> Frame]
    /\ incidents \in 0..MaxIncident

PaymentsOf(o) == {PaymentOf[e] : e \in {d \in Event : Kind[d] = "paid" /\ OrderOf[d] = o}}

(* Order, invoice, redemption, payment and settlement fact always tell the *)
(* same story, although three jobs and a webhook write them.               *)
CommerceAgrees ==
    \A o \in Order :
        /\ order[o] \in {"NONE", "PENDING", "CANCELLED"} =>
              /\ invoice[o] = IF order[o] = "NONE" THEN "NONE" ELSE "DRAFT"
              /\ redemption[o] \notin {"APPLIED", "REFUNDED"}
              /\ \A p \in PaymentsOf(o) : p \notin settled /\ payment[p] # "PAID"
        /\ order[o] = "PAID" =>
              /\ invoice[o] = "FINAL"
              /\ redemption[o] = IF o \in Discounted THEN "APPLIED" ELSE "NONE"
              /\ \A p \in PaymentsOf(o) : p \in settled /\ payment[p] = "PAID"
        /\ order[o] = "REFUNDED" =>
              /\ invoice[o] = "VOID"
              /\ redemption[o] = IF o \in Discounted THEN "REFUNDED" ELSE "NONE"
              /\ \A p \in PaymentsOf(o) : p \in settled /\ payment[p] = "REFUNDED"

(* A subscription is extended exactly once for each order that was paid    *)
(* for it (a gift: once its code is claimed), however often its event is   *)
(* delivered, retried and processed side by side.                          *)
PeriodsArePaidOnce ==
    \A r \in Order :
        access[r].periods =
            Cardinality({o \in Order :
                /\ Renews[o] = r
                /\ IF o \in Gift THEN code[o] = "CLAIMED"
                                 ELSE order[o] \in {"PAID", "REFUNDED"}})

(* Licenses and subscriptions are active only while an order that paid for *)
(* them stands: no order of events lets access outlive the last refund.    *)
AccessIsPaid ==
    \A r \in Order :
        "ACTIVE" \in {access[r].license, access[r].subscription} =>
            \E o \in Order : Renews[o] = r /\ order[o] = "PAID"

(* An event marked PROCESSED has had its effect on the order, although     *)
(* another handler of it may have failed, retried or been answered before. *)
ProcessedMeansApplied ==
    \A e \in Event :
        hook[e].status = "PROCESSED" =>
            /\ Kind[e] = "paid" => order[OrderOf[e]] \in {"PAID", "REFUNDED"}
            /\ Kind[e] = "refunded" => order[OrderOf[e]] = "REFUNDED"

(* Orders, invoices and the buyers' rights follow the promised lifecycle.  *)
Lifecycle == INSTANCE OrderLifecycle
             WITH Owned <- Order \ Gift, status <- order,
                  rights <- {o \in Order : right[o] = "ACTIVE"}

ImplementsLifecycle == Lifecycle!Spec

(* The administrator has the case: closed, or failed for good and listed.  *)
Escalated(e) ==
    \/ hook[e].resolution = "ACKNOWLEDGED"
    \/ hook[e].status = "FAILED"
       /\ hook[e].code \in {"PROCESSING_FAILED", "REPLAY_CONFLICT"}

(* A capture whose event matches settles its order, however transactions   *)
(* are aborted as long as no process crashes; only what the administrators *)
(* have on their list may stay behind.                                     *)
CapturesSettle ==
    \A e \in Event :
        (e \in emitted /\ Kind[e] = "paid" /\ e \in Matching)
            ~> (order[OrderOf[e]] \in {"PAID", "REFUNDED"} \/ Escalated(e))
=============================================================================
