--------------------------- MODULE PaymentsProofs ---------------------------
(***************************************************************************)
(* Proofs about Payments for any orders, events, offers, renewals, gifts,  *)
(* processes and incidents: its types, that order, invoice, redemption,    *)
(* payment and settlement fact tell the same story, that a PROCESSED event *)
(* was applied, that every period is paid once and access by somebody, and *)
(* that Payments implements OrderLifecycle.                                *)
(*                                                                         *)
(* The inductive invariant ties everything to the status of the order: its *)
(* invoice, redemption, right and code, and the payment of its capture.    *)
(* A refund, whose payment must be the one its order was settled by, needs *)
(* to know where events come from: the provider refunds what it captured.  *)
(***************************************************************************)
EXTENDS Payments, FiniteSetTheorems, TLAPS

(* Invoice, redemption, right and code of an order follow its status.      *)
OrderTellsAll(o) ==
    /\ order[o] = "NONE" => invoice[o] = "NONE" /\ redemption[o] = "NONE"
    /\ order[o] \in {"PENDING", "CANCELLED"} => invoice[o] = "DRAFT"
    /\ order[o] = "PAID" => invoice[o] = "FINAL"
    /\ order[o] = "REFUNDED" => invoice[o] = "VOID"
    /\ o \notin Discounted => redemption[o] = "NONE"
    /\ o \in Discounted =>
          /\ order[o] = "PENDING" => redemption[o] = "RESERVED"
          /\ order[o] = "CANCELLED" => redemption[o] \in {"RESERVED", "RELEASED"}
          /\ order[o] = "PAID" => redemption[o] = "APPLIED"
          /\ order[o] = "REFUNDED" => redemption[o] = "REFUNDED"
    /\ o \in Gift => right[o] = "NONE"
    /\ o \notin Gift =>
          /\ order[o] \in {"NONE", "PENDING", "CANCELLED"} => right[o] = "NONE"
          /\ order[o] = "PAID" => right[o] = "ACTIVE"
          /\ order[o] = "REFUNDED" => right[o] = "REVOKED"
          /\ code[o] = "NONE"
    /\ code[o] = "AVAILABLE" => order[o] = "PAID"
    /\ code[o] = "CLAIMED" => order[o] \in {"PAID", "REFUNDED"}

OrdersTellAll == \A o \in Order : OrderTellsAll(o)

(* The payment of a capture follows the status of its order.               *)
CaptureAgrees(e) ==
    /\ PaymentOf[e] \in settled <=> order[OrderOf[e]] \in {"PAID", "REFUNDED"}
    /\ order[OrderOf[e]] = "PAID" => payment[PaymentOf[e]] = "PAID"
    /\ order[OrderOf[e]] = "REFUNDED" => payment[PaymentOf[e]] = "REFUNDED"
    /\ order[OrderOf[e]] \notin {"PAID", "REFUNDED"} => payment[PaymentOf[e]] # "PAID"

Captures == {e \in Event : Kind[e] = "paid"}

CapturesAgree == \A e \in Captures : CaptureAgrees(e)

(* Events that are stored or handled were emitted, refunds after the       *)
(* capture of the same payment.                                            *)
EventsWereEmitted ==
    /\ \A p \in Process : frame[p].at # "idle" => frame[p].event \in emitted
    /\ \A e \in Event : hook[e].status # "NONE" => e \in emitted
    /\ \A e \in emitted : Kind[e] = "refunded" =>
          \E d \in Captures : PaymentOf[d] = PaymentOf[e]

(* The inductive invariant.                                                *)
PInv ==
    /\ TypeOK
    /\ OrdersTellAll
    /\ CapturesAgree
    /\ EventsWereEmitted
    /\ ProcessedMeansApplied

-----------------------------------------------------------------------------
(* Where a process is when it works on an event.                           *)
LEMMA Busy ==
    ASSUME PInv, NEW p \in Process, frame[p].at # "idle"
    PROVE  /\ frame[p].event \in Event /\ frame[p].event \in emitted
           /\ frame[p].via \in {"webhook", "retry"}
           /\ frame[p].code \in ErrorCode
<1>1. frame[p] \in Frame /\ frame[p] # Idle /\ frame[p].event \in emitted
  BY DEF PInv, TypeOK, EventsWereEmitted, Idle
<1> QED
  BY <1>1 DEF Frame

(* A call that goes to another place with an event that was emitted.       *)
LEMMA GotoShape ==
    ASSUME PInv, NEW p \in Process, NEW at \in {"existing", "reclaim", "process", "fail"},
           NEW e \in Event, NEW via \in {"webhook", "retry"}, NEW c \in ErrorCode,
           Goto(p, at, e, via, c)
    PROVE  /\ frame' \in [Process -> Frame]
           /\ frame'[p].event = e
           /\ \A q \in Process : q # p => frame'[q] = frame[q]
<1>1. [at |-> at, event |-> e, via |-> via, code |-> c] \in Frame
  BY DEF Frame
<1> QED
  BY <1>1 DEF Goto, PInv, TypeOK

(* A call that ends.                                                       *)
LEMMA IdleShape ==
    ASSUME PInv, NEW p \in Process, frame' = [frame EXCEPT ![p] = Idle]
    PROVE  /\ frame' \in [Process -> Frame]
           /\ frame'[p].at = "idle"
           /\ \A q \in Process : q # p => frame'[q] = frame[q]
BY DEF Frame, Idle, PInv, TypeOK

(* A step that touches nothing of commerce, money and grants.              *)
LEMMA PlumbingStep ==
    ASSUME PInv, UNCHANGED <<commerce, money, grants>>,
           hook' \in [Event -> Hook], emitted' \subseteq Event, acked' \subseteq Event,
           frame' \in [Process -> Frame], incidents' \in 0..MaxIncident,
           EventsWereEmitted',
           \A e \in Event : hook'[e].status = "PROCESSED" => hook[e].status = "PROCESSED"
    PROVE  PInv'
<1>1. UNCHANGED <<order, invoice, redemption, payment, settled, right, code, claimed, access>>
  BY DEF commerce, money, grants
<1>2. TypeOK'
  BY <1>1 DEF PInv, TypeOK
<1>3. OrdersTellAll'
  BY <1>1 DEF PInv, OrdersTellAll, OrderTellsAll
<1>4. CapturesAgree'
  BY <1>1 DEF PInv, CapturesAgree, CaptureAgrees, Captures
<1>5. ProcessedMeansApplied'
  BY <1>1 DEF PInv, ProcessedMeansApplied
<1> QED
  BY <1>2, <1>3, <1>4, <1>5 DEF PInv

(* An incident is one of few.                                              *)
LEMMA IncidentShape ==
    ASSUME PInv, NEW kind, Incident(kind)
    PROVE  incidents' \in 0..MaxIncident
BY PaymentsAssumption DEF Incident, PInv, TypeOK

(* The row of an event may change in any way but to PROCESSED, if it was   *)
(* emitted; and so may the call that works on it.                          *)
LEMMA RowMove ==
    ASSUME PInv, NEW p \in Process, NEW e \in emitted, NEW row \in Hook,
           UNCHANGED <<commerce, money, grants, emitted>>,
           hook' = [hook EXCEPT ![e] = row],
           row.status = "PROCESSED" => hook[e].status = "PROCESSED",
           acked' \subseteq Event,
           frame' \in [Process -> Frame], incidents' \in 0..MaxIncident,
           frame'[p].at # "idle" => frame'[p].event = e,
           \A q \in Process : q # p => frame'[q] = frame[q]
    PROVE  PInv'
<1>1. e \in Event /\ emitted \subseteq Event /\ hook \in [Event -> Hook]
  BY DEF PInv, TypeOK
<1>2. hook' \in [Event -> Hook] /\ hook'[e] = row
      /\ \A d \in Event : d # e => hook'[d] = hook[d]
  BY <1>1
<1>3. EventsWereEmitted'
  <2>1. \A q \in Process : frame'[q].at # "idle" => frame'[q].event \in emitted
    BY DEF PInv, EventsWereEmitted
  <2>2. \A d \in Event : hook'[d].status # "NONE" => d \in emitted
    BY <1>2 DEF PInv, EventsWereEmitted
  <2> QED
    BY <2>1, <2>2 DEF PInv, EventsWereEmitted, Captures
<1> QED
  BY <1>1, <1>2, <1>3, PlumbingStep

(* The call alone moves.                                                   *)
LEMMA CallMove ==
    ASSUME PInv, NEW p \in Process,
           UNCHANGED <<commerce, money, grants, hook, emitted>>,
           acked' \subseteq Event,
           frame' \in [Process -> Frame], incidents' \in 0..MaxIncident,
           frame'[p].at # "idle" => frame'[p].event \in emitted,
           \A q \in Process : q # p => frame'[q] = frame[q]
    PROVE  PInv'
<1>1. EventsWereEmitted'
  BY DEF PInv, EventsWereEmitted, Captures
<1> QED
  BY <1>1, PlumbingStep DEF PInv, TypeOK

-----------------------------------------------------------------------------
(* The initial state, and the steps that only move rows and calls.         *)
LEMMA InitPInv == Init => PInv
<1> SUFFICES ASSUME Init PROVE PInv
  OBVIOUS
<1>1. TypeOK
  <2>1. /\ order \in [Order -> OrderStatus] /\ invoice \in [Order -> InvoiceStatus]
        /\ redemption \in [Order -> RedemptionStatus]
        /\ payment \in [Payment -> PaymentStatus] /\ settled \subseteq Payment
    BY DEF Init, OrderStatus, InvoiceStatus, RedemptionStatus, PaymentStatus
  <2>2. /\ right \in [Order -> RightStatus] /\ code \in [Order -> CodeStatus]
        /\ claimed \in [Order -> RightStatus] /\ access \in [Order -> Access]
    BY DEF Init, RightStatus, CodeStatus, Access
  <2>3. /\ hook \in [Event -> Hook] /\ emitted \subseteq Event /\ acked \subseteq Event
        /\ frame \in [Process -> Frame] /\ incidents \in 0..MaxIncident
    BY PaymentsAssumption DEF Init, Hook, ErrorCode, Frame
  <2> QED
    BY <2>1, <2>2, <2>3 DEF TypeOK
<1>2. OrdersTellAll
  BY DEF Init, OrdersTellAll, OrderTellsAll
<1>3. CapturesAgree
  BY PaymentsAssumption DEF Init, CapturesAgree, CaptureAgrees, Captures
<1>4. EventsWereEmitted
  BY DEF Init, EventsWereEmitted, Idle
<1>5. ProcessedMeansApplied
  BY DEF Init, ProcessedMeansApplied
<1> QED
  BY <1>1, <1>2, <1>3, <1>4, <1>5 DEF PInv

(* The provider refunds a payment it has captured.                         *)
LEMMA EmitStep == ASSUME PInv, NEW e \in Event, Emit(e) PROVE PInv'
<1>1. emitted' = emitted \cup {e} /\ hook' = hook /\ frame' = frame
      /\ UNCHANGED <<commerce, money, grants, acked, incidents>>
  BY DEF Emit
<1>2. Kind[e] = "refunded" => \E d \in Captures : PaymentOf[d] = PaymentOf[e]
  BY DEF Emit, Captures, PInv, TypeOK
<1>3. EventsWereEmitted'
  <2>1. \A q \in Process : frame'[q].at # "idle" => frame'[q].event \in emitted'
    BY <1>1 DEF PInv, EventsWereEmitted
  <2>2. \A d \in Event : hook'[d].status # "NONE" => d \in emitted'
    BY <1>1 DEF PInv, EventsWereEmitted
  <2>3. \A d \in emitted' : Kind[d] = "refunded" =>
           \E f \in Captures : PaymentOf[f] = PaymentOf[d]
    BY <1>1, <1>2 DEF PInv, EventsWereEmitted
  <2> QED
    BY <2>1, <2>2, <2>3 DEF EventsWereEmitted, Captures
<1> QED
  BY <1>1, <1>3, PlumbingStep DEF PInv, TypeOK

(* A new event is stored and processed, a known one looked up.             *)
LEMMA DeliverStep ==
    ASSUME PInv, NEW p \in Process, NEW e \in Event, Deliver(p, e) PROVE PInv'
<1>1. e \in emitted /\ UNCHANGED <<commerce, money, grants, emitted, acked, incidents>>
  BY DEF Deliver
<1>2. hook \in [Event -> Hook] /\ acked \subseteq Event /\ incidents \in 0..MaxIncident
  BY DEF PInv, TypeOK
<1>3. CASE hook[e].status = "NONE"
  <2> DEFINE row == [hook[e] EXCEPT !.status = "RECEIVED"]
  <2>1. hook' = [hook EXCEPT ![e] = row] /\ row \in Hook /\ row.status = "RECEIVED"
    BY <1>2, <1>3 DEF Deliver, Hook
  <2>2. Goto(p, "process", e, "webhook", None)
    BY <1>3 DEF Deliver
  <2>3. /\ frame' \in [Process -> Frame] /\ frame'[p].event = e
        /\ \A q \in Process : q # p => frame'[q] = frame[q]
    BY <2>2, GotoShape DEF ErrorCode
  <2> HIDE DEF row
  <2> QED
    BY <1>1, <1>2, <2>1, <2>3, RowMove
<1>4. CASE hook[e].status # "NONE"
  <2>1. Goto(p, "existing", e, "webhook", None) /\ hook' = hook
    BY <1>4 DEF Deliver
  <2>2. /\ frame' \in [Process -> Frame] /\ frame'[p].event = e
        /\ \A q \in Process : q # p => frame'[q] = frame[q]
    BY <2>1, GotoShape DEF ErrorCode
  <2> QED
    BY <1>1, <1>2, <2>1, <2>2, CallMove
<1> QED
  BY <1>3, <1>4

LEMMA FindExistingStep ==
    ASSUME PInv, NEW p \in Process, FindExisting(p) PROVE PInv'
<1> DEFINE e == frame[p].event
<1>1. frame[p].at = "existing"
      /\ UNCHANGED <<commerce, money, grants, hook, emitted, incidents>>
  BY DEF FindExisting, At
<1>2. e \in Event /\ e \in emitted
  BY <1>1, Busy
<1>3. acked \subseteq Event /\ incidents \in 0..MaxIncident
  BY DEF PInv, TypeOK
<1>4. CASE hook[e].status = "FAILED"
  <2>1. Goto(p, "reclaim", e, "webhook", None) /\ acked' = acked
    BY <1>4 DEF FindExisting
  <2>2. /\ frame' \in [Process -> Frame] /\ frame'[p].event = e
        /\ \A q \in Process : q # p => frame'[q] = frame[q]
    BY <1>2, <2>1, GotoShape DEF ErrorCode
  <2> HIDE DEF e
  <2> QED
    BY <1>1, <1>2, <1>3, <2>1, <2>2, CallMove
<1>5. CASE hook[e].status # "FAILED"
  <2>1. frame' = [frame EXCEPT ![p] = Idle] /\ acked' = acked \cup {e}
    BY <1>5 DEF FindExisting
  <2>2. /\ frame' \in [Process -> Frame] /\ frame'[p].at = "idle"
        /\ \A q \in Process : q # p => frame'[q] = frame[q]
    BY <2>1, IdleShape
  <2> HIDE DEF e
  <2> QED
    BY <1>1, <1>2, <1>3, <2>1, <2>2, CallMove
<1> QED
  BY <1>4, <1>5

LEMMA ReclaimStep ==
    ASSUME PInv, NEW p \in Process, Reclaim(p) PROVE PInv'
<1> DEFINE e == frame[p].event
           row == [hook[e] EXCEPT !.status = "RECEIVED", !.code = None]
<1>1. frame[p].at = "reclaim"
      /\ UNCHANGED <<commerce, money, grants, emitted, acked, incidents>>
  BY DEF Reclaim, At
<1>2. e \in Event /\ e \in emitted /\ frame[p].via \in {"webhook", "retry"}
  BY <1>1, Busy
<1>3. hook \in [Event -> Hook] /\ acked \subseteq Event /\ incidents \in 0..MaxIncident
  BY DEF PInv, TypeOK
<1>4. hook' = [hook EXCEPT ![e] = row] /\ row \in Hook /\ row.status = "RECEIVED"
  <2>1. hook[e] \in Hook
    BY <1>2, <1>3
  <2>2. row \in Hook /\ row.status = "RECEIVED"
    BY <2>1 DEF Hook, ErrorCode
  <2>3. hook' = [hook EXCEPT ![e].status = "RECEIVED", ![e].code = None]
    BY DEF Reclaim
  <2>4. hook' = [hook EXCEPT ![e] = row]
    BY <1>2, <1>3, <2>1, <2>3 DEF Hook
  <2> QED
    BY <2>2, <2>4
<1>5. Goto(p, "process", e, frame[p].via, None)
  BY DEF Reclaim
<1>6. /\ frame' \in [Process -> Frame] /\ frame'[p].event = e
      /\ \A q \in Process : q # p => frame'[q] = frame[q]
  BY <1>2, <1>5, GotoShape DEF ErrorCode
<1> HIDE DEF e, row
<1> QED
  BY <1>1, <1>2, <1>3, <1>4, <1>6, RowMove

(* The row alone changes: no call moves.                                   *)
LEMMA RowOnly ==
    ASSUME PInv, NEW e \in Event, hook[e].status # "NONE", NEW row \in Hook,
           UNCHANGED <<commerce, money, grants, emitted, acked, frame>>,
           hook' = [hook EXCEPT ![e] = row], row.status = hook[e].status,
           incidents' \in 0..MaxIncident
    PROVE  PInv'
<1>1. hook \in [Event -> Hook] /\ acked \subseteq Event /\ frame \in [Process -> Frame]
      /\ emitted \subseteq Event
  BY DEF PInv, TypeOK
<1>2. hook' \in [Event -> Hook] /\ hook'[e] = row
      /\ \A d \in Event : d # e => hook'[d] = hook[d]
  BY <1>1
<1>3. EventsWereEmitted'
  <2>1. \A d \in Event : hook'[d].status # "NONE" => d \in emitted
    BY <1>2 DEF PInv, EventsWereEmitted
  <2> QED
    BY <2>1 DEF PInv, EventsWereEmitted, Captures
<1> QED
  BY <1>1, <1>2, <1>3, PlumbingStep

LEMMA ConflictingReplayStep ==
    ASSUME PInv, NEW e \in Event, ConflictingReplay(e) PROVE PInv'
<1> DEFINE row == [hook[e] EXCEPT !.code = "REPLAY_CONFLICT", !.resolution = "OPEN"]
<1>1. hook[e] \in Hook /\ hook \in [Event -> Hook]
  BY DEF PInv, TypeOK
<1>2. hook' = [hook EXCEPT ![e] = row] /\ row \in Hook /\ row.status = hook[e].status
  BY <1>1 DEF ConflictingReplay, Hook, ErrorCode
<1>3. incidents' \in 0..MaxIncident
  BY IncidentShape DEF ConflictingReplay
<1> HIDE DEF row
<1> QED
  BY <1>2, <1>3, RowOnly DEF ConflictingReplay

LEMMA AdminAcknowledgeStep ==
    ASSUME PInv, NEW e \in Event, AdminAcknowledge(e) PROVE PInv'
<1> DEFINE row == [hook[e] EXCEPT !.resolution = "ACKNOWLEDGED"]
<1>1. hook[e] \in Hook /\ hook \in [Event -> Hook]
  BY DEF PInv, TypeOK
<1>2. hook' = [hook EXCEPT ![e] = row] /\ row \in Hook /\ row.status = hook[e].status
  BY <1>1 DEF AdminAcknowledge, Hook
<1>3. incidents' \in 0..MaxIncident
  BY IncidentShape DEF AdminAcknowledge
<1> HIDE DEF row
<1> QED
  BY <1>2, <1>3, RowOnly DEF AdminAcknowledge

LEMMA StartRetryStep ==
    ASSUME PInv, NEW p \in Process, NEW e \in Event, StartRetry(p, e) PROVE PInv'
<1>1. UNCHANGED <<commerce, money, grants, hook, emitted, acked, incidents>>
      /\ Goto(p, "reclaim", e, "retry", None)
  BY DEF StartRetry
<1>2. e \in emitted /\ acked \subseteq Event /\ incidents \in 0..MaxIncident
  BY DEF StartRetry, PInv, EventsWereEmitted, TypeOK
<1>3. /\ frame' \in [Process -> Frame] /\ frame'[p].event = e
      /\ \A q \in Process : q # p => frame'[q] = frame[q]
  BY <1>1, GotoShape DEF ErrorCode
<1> QED
  BY <1>1, <1>2, <1>3, CallMove

LEMMA IgnoreUnknownStep ==
    ASSUME PInv, NEW p \in Process, IgnoreUnknown(p) PROVE PInv'
<1> DEFINE e == frame[p].event
           row == [status |-> "IGNORED", code |-> "UNSUPPORTED",
                   resolution |-> "ACKNOWLEDGED"]
<1>1. frame[p].at = "process" /\ frame' = [frame EXCEPT ![p] = Idle]
      /\ UNCHANGED <<commerce, money, grants, emitted, incidents>>
  BY DEF IgnoreUnknown, At
<1>2. e \in Event /\ e \in emitted
  BY <1>1, Busy
<1>3. acked \subseteq Event /\ incidents \in 0..MaxIncident
  BY DEF PInv, TypeOK
<1>4. hook' = [hook EXCEPT ![e] = row] /\ row \in Hook /\ row.status = "IGNORED"
  BY DEF IgnoreUnknown, Hook, ErrorCode
<1>5. acked' \subseteq Event
  BY <1>2, <1>3 DEF IgnoreUnknown
<1>6. /\ frame' \in [Process -> Frame] /\ frame'[p].at = "idle"
      /\ \A q \in Process : q # p => frame'[q] = frame[q]
  BY <1>1, IdleShape
<1> HIDE DEF e, row
<1> QED
  BY <1>1, <1>2, <1>3, <1>4, <1>5, <1>6, RowMove

LEMMA ThrowStep ==
    ASSUME PInv, NEW p \in Process, Throw(p) PROVE PInv'
<1> DEFINE e == frame[p].event
<1>1. frame[p].at = "process" /\ Goto(p, "fail", e, frame[p].via, Rejection(e))
      /\ UNCHANGED <<commerce, money, grants, hook, emitted, acked, incidents>>
  BY DEF Throw, At
<1>2. e \in Event /\ e \in emitted /\ frame[p].via \in {"webhook", "retry"}
  BY <1>1, Busy
<1>3. Rejection(e) \in ErrorCode
  BY DEF Rejection, ErrorCode
<1>4. acked \subseteq Event /\ incidents \in 0..MaxIncident
  BY DEF PInv, TypeOK
<1>5. /\ frame' \in [Process -> Frame] /\ frame'[p].event = e
      /\ \A q \in Process : q # p => frame'[q] = frame[q]
  BY <1>1, <1>2, <1>3, GotoShape
<1> HIDE DEF e
<1> QED
  BY <1>1, <1>2, <1>4, <1>5, CallMove

LEMMA AbortStep ==
    ASSUME PInv, NEW p \in Process, Abort(p) PROVE PInv'
<1> DEFINE e == frame[p].event
<1>1. frame[p].at = "process"
      /\ UNCHANGED <<commerce, money, grants, hook, emitted, acked>>
  BY DEF Abort, At
<1>2. e \in Event /\ e \in emitted /\ frame[p].via \in {"webhook", "retry"}
  BY <1>1, Busy
<1>3. PICK c \in {"RETRYABLE", "PROCESSING_FAILED"} : Goto(p, "fail", e, frame[p].via, c)
  BY <1>1 DEF Abort, AbortCode
<1>4. incidents' \in 0..MaxIncident /\ acked \subseteq Event
  BY IncidentShape DEF Abort, PInv, TypeOK
<1>5. /\ frame' \in [Process -> Frame] /\ frame'[p].event = e
      /\ \A q \in Process : q # p => frame'[q] = frame[q]
  BY <1>2, <1>3, GotoShape DEF ErrorCode
<1> HIDE DEF e
<1> QED
  BY <1>1, <1>2, <1>4, <1>5, CallMove

LEMMA RecordFailureStep ==
    ASSUME PInv, NEW p \in Process, recordFailure(p) PROVE PInv'
<1> DEFINE e == frame[p].event
           row == FailedRow(frame[p].code)
<1>1. frame[p].at = "fail" /\ frame' = [frame EXCEPT ![p] = Idle]
      /\ hook' = [hook EXCEPT ![e] = row]
      /\ UNCHANGED <<commerce, money, grants, emitted, acked, incidents>>
  BY DEF recordFailure, At
<1>2. e \in Event /\ e \in emitted /\ frame[p].code \in ErrorCode
  BY <1>1, Busy
<1>3. acked \subseteq Event /\ incidents \in 0..MaxIncident
  BY DEF PInv, TypeOK
<1>4. row \in Hook /\ row.status = "FAILED"
  BY <1>2 DEF FailedRow, Hook
<1>5. /\ frame' \in [Process -> Frame] /\ frame'[p].at = "idle"
      /\ \A q \in Process : q # p => frame'[q] = frame[q]
  BY <1>1, IdleShape
<1> HIDE DEF e, row
<1> QED
  BY <1>1, <1>2, <1>3, <1>4, <1>5, RowMove

LEMMA CrashStep ==
    ASSUME PInv, NEW p \in Process, Crash(p) PROVE PInv'
<1>1. frame' = [frame EXCEPT ![p] = Idle]
      /\ UNCHANGED <<commerce, money, grants, hook, emitted, acked>>
  BY DEF Crash
<1>2. incidents' \in 0..MaxIncident /\ acked \subseteq Event
  BY IncidentShape DEF Crash, PInv, TypeOK
<1>3. /\ frame' \in [Process -> Frame] /\ frame'[p].at = "idle"
      /\ \A q \in Process : q # p => frame'[q] = frame[q]
  BY <1>1, IdleShape
<1> QED
  BY <1>1, <1>2, <1>3, CallMove

-----------------------------------------------------------------------------
(* Customers and the commerce lifecycle job.                               *)

(* Steps outside the webhook keep where events came from.                  *)
LEMMA EventsStay ==
    ASSUME PInv, UNCHANGED <<hook, emitted, frame>>
    PROVE  EventsWereEmitted'
BY DEF PInv, EventsWereEmitted, Captures

LEMMA PlaceOrderStep ==
    ASSUME PInv, NEW o \in Order, PlaceOrder(o) PROVE PInv'
<1>1. /\ order[o] = "NONE"
      /\ order' = [order EXCEPT ![o] = "PENDING"]
      /\ invoice' = [invoice EXCEPT ![o] = "DRAFT"]
      /\ redemption' = [redemption EXCEPT
                          ![o] = IF o \in Discounted THEN "RESERVED" ELSE "NONE"]
      /\ UNCHANGED <<payment, settled, right, code, claimed, access, hook,
                     emitted, acked, frame, incidents>>
  BY DEF PlaceOrder, money, grants
<1>2. TypeOK'
  BY <1>1 DEF PInv, TypeOK, OrderStatus, InvoiceStatus, RedemptionStatus
<1>3. OrdersTellAll'
  <2> SUFFICES ASSUME NEW x \in Order PROVE OrderTellsAll(x)'
    BY DEF OrdersTellAll
  <2>1. OrderTellsAll(x)
    BY DEF PInv, OrdersTellAll
  <2>2. CASE x = o
    BY <1>1, <2>1, <2>2 DEF OrderTellsAll, PInv, TypeOK
  <2>3. CASE x # o
    BY <1>1, <2>1, <2>3 DEF OrderTellsAll, PInv, TypeOK
  <2> QED
    BY <2>2, <2>3
<1>4. CapturesAgree'
  BY <1>1, PaymentsAssumption DEF PInv, TypeOK, CapturesAgree, CaptureAgrees, Captures
<1>5. ProcessedMeansApplied'
  BY <1>1, PaymentsAssumption DEF PInv, TypeOK, ProcessedMeansApplied
<1> QED
  BY <1>1, <1>2, <1>3, <1>4, <1>5, EventsStay DEF PInv

LEMMA CancelOrderStep ==
    ASSUME PInv, NEW o \in Order, CancelOrder(o) PROVE PInv'
<1>1. /\ order[o] = "PENDING"
      /\ order' = [order EXCEPT ![o] = "CANCELLED"]
      /\ UNCHANGED <<invoice, redemption, payment, settled, right, code,
                     claimed, access, hook, emitted, acked, frame, incidents>>
  BY DEF CancelOrder, money, grants
<1>2. TypeOK'
  BY <1>1 DEF PInv, TypeOK, OrderStatus
<1>3. OrdersTellAll'
  BY <1>1 DEF PInv, TypeOK, OrdersTellAll, OrderTellsAll
<1>4. CapturesAgree'
  BY <1>1, PaymentsAssumption DEF PInv, TypeOK, CapturesAgree, CaptureAgrees, Captures
<1>5. ProcessedMeansApplied'
  BY <1>1, PaymentsAssumption DEF PInv, TypeOK, ProcessedMeansApplied
<1> QED
  BY <1>1, <1>2, <1>3, <1>4, <1>5, EventsStay DEF PInv

LEMMA CommerceLifecycleStep ==
    ASSUME PInv, NEW O \in SUBSET Order, commerceLifecycle(O) PROVE PInv'
<1>1. /\ order' = [o \in Order |-> IF o \in O /\ order[o] = "PENDING"
                                   THEN "CANCELLED" ELSE order[o]]
      /\ redemption' = [o \in Order |-> IF o \in O THEN Released(o)
                                                    ELSE redemption[o]]
      /\ UNCHANGED <<invoice, payment, settled, right, code, claimed, access,
                     hook, emitted, acked, frame, incidents>>
  BY DEF commerceLifecycle, money, grants
<1>2. TypeOK'
  <2>1. order' \in [Order -> OrderStatus]
    BY <1>1 DEF PInv, TypeOK, OrderStatus
  <2>2. redemption' \in [Order -> RedemptionStatus]
    BY <1>1 DEF PInv, TypeOK, RedemptionStatus, Released
  <2> QED
    BY <1>1, <2>1, <2>2 DEF PInv, TypeOK
<1>3. OrdersTellAll'
  <2> SUFFICES ASSUME NEW x \in Order PROVE OrderTellsAll(x)'
    BY DEF OrdersTellAll
  <2>1. OrderTellsAll(x)
    BY DEF PInv, OrdersTellAll
  <2> QED
    BY <1>1, <2>1 DEF OrderTellsAll, Released
<1>4. CapturesAgree'
  BY <1>1, PaymentsAssumption DEF PInv, CapturesAgree, CaptureAgrees, Captures
<1>5. ProcessedMeansApplied'
  BY <1>1, PaymentsAssumption DEF PInv, ProcessedMeansApplied
<1> QED
  BY <1>1, <1>2, <1>3, <1>4, <1>5, EventsStay DEF PInv

(* What is granted and what is revoked are licenses and subscriptions.     *)
LEMMA AccessTypes ==
    ASSUME PInv, NEW o \in Order
    PROVE  Fulfilled(o) \in [Order -> Access] /\ Revoked(o) \in [Order -> Access]
<1>1. Renews[o] \in Order /\ access \in [Order -> Access] /\ access[Renews[o]] \in Access
  BY PaymentsAssumption DEF PInv, TypeOK
<1> DEFINE old == access[Renews[o]]
           new == [license |-> "ACTIVE", subscription |-> "ACTIVE",
                   periods |-> old.periods + 1]
           gone == [license |-> IF old.license = "NONE" THEN "NONE" ELSE "REVOKED",
                    subscription |-> IF old.subscription = "NONE" THEN "NONE"
                                                                  ELSE "CANCELLED",
                    periods |-> old.periods]
<1>2. new \in Access /\ gone \in Access
  BY <1>1 DEF Access
<1>3. Fulfilled(o) = [access EXCEPT ![Renews[o]] = new]
      /\ Revoked(o) = [access EXCEPT ![Renews[o]] = gone]
  BY DEF Fulfilled, Revoked
<1> HIDE DEF new, gone
<1> QED
  BY <1>1, <1>2, <1>3

LEMMA ConsumeClaimCodeStep ==
    ASSUME PInv, NEW o \in Order, consumeClaimCode(o) PROVE PInv'
<1>1. /\ code[o] = "AVAILABLE"
      /\ code' = [code EXCEPT ![o] = "CLAIMED"]
      /\ claimed' = [claimed EXCEPT ![o] = "ACTIVE"]
      /\ access' = Fulfilled(o)
      /\ UNCHANGED <<order, invoice, redemption, payment, settled, right, hook,
                     emitted, acked, frame, incidents>>
  BY DEF consumeClaimCode, Claimable, commerce, money
<1>2. TypeOK'
  <2>1. code' \in [Order -> CodeStatus] /\ claimed' \in [Order -> RightStatus]
    BY <1>1 DEF PInv, TypeOK, CodeStatus, RightStatus
  <2>2. access' \in [Order -> Access]
    BY <1>1, AccessTypes
  <2> QED
    BY <1>1, <2>1, <2>2 DEF PInv, TypeOK
<1>3. OrdersTellAll'
  <2> SUFFICES ASSUME NEW x \in Order PROVE OrderTellsAll(x)'
    BY DEF OrdersTellAll
  <2>1. OrderTellsAll(x)
    BY DEF PInv, OrdersTellAll
  <2>2. code'[x] = IF x = o THEN "CLAIMED" ELSE code[x]
    BY <1>1 DEF PInv, TypeOK
  <2> QED
    BY <1>1, <2>1, <2>2 DEF OrderTellsAll
<1>4. CapturesAgree'
  BY <1>1 DEF PInv, CapturesAgree, CaptureAgrees, Captures
<1>5. ProcessedMeansApplied'
  BY <1>1 DEF PInv, ProcessedMeansApplied
<1> QED
  BY <1>1, <1>2, <1>3, <1>4, <1>5, EventsStay DEF PInv

-----------------------------------------------------------------------------
(* The transactions of the webhook.                                        *)

(* Whatever the event does to its order, its last write marks it.          *)
LEMMA CommitShape ==
    ASSUME PInv, NEW p \in Process, NEW kind, Commits(p, kind)
    PROVE  LET e == frame[p].event IN
           /\ e \in Event /\ e \in emitted /\ Kind[e] = kind
           /\ OrderOf[e] \in Order /\ PaymentOf[e] \in Payment
           /\ Renews[OrderOf[e]] \in Order
           /\ e \in Matching /\ Rejection(e) = None
           /\ hook' \in [Event -> Hook] /\ acked' \subseteq Event
           /\ frame' \in [Process -> Frame]
           /\ \A d \in Event : d # e => hook'[d] = hook[d]
           /\ EventsWereEmitted'
           /\ UNCHANGED <<claimed, emitted, incidents>>
<1> DEFINE e == frame[p].event
           row == [status |-> "PROCESSED", code |-> None, resolution |-> "RESOLVED"]
<1>1. /\ frame[p].at = "process" /\ Kind[e] = kind /\ Rejection(e) = None
      /\ hook' = [hook EXCEPT ![e] = row]
      /\ acked' = IF frame[p].via = "webhook" THEN acked \cup {e} ELSE acked
      /\ frame' = [frame EXCEPT ![p] = Idle]
      /\ UNCHANGED <<claimed, emitted, incidents>>
  BY DEF Commits, At
<1>2. e \in Event /\ e \in emitted
  BY <1>1, Busy
<1>3. OrderOf[e] \in Order /\ PaymentOf[e] \in Payment /\ Renews[OrderOf[e]] \in Order
  BY <1>2, PaymentsAssumption
<1>4. e \in Matching
  BY <1>1 DEF Rejection, None
<1>5. row \in Hook /\ hook \in [Event -> Hook] /\ acked \subseteq Event
  BY DEF Hook, ErrorCode, PInv, TypeOK
<1>6. /\ frame' \in [Process -> Frame] /\ frame'[p].at = "idle"
      /\ \A q \in Process : q # p => frame'[q] = frame[q]
  BY <1>1, IdleShape
<1> HIDE DEF e, row
<1>7. hook' \in [Event -> Hook] /\ acked' \subseteq Event
      /\ \A d \in Event : d # e => hook'[d] = hook[d]
  BY <1>1, <1>2, <1>5
<1>8. EventsWereEmitted'
  <2>1. \A q \in Process : frame'[q].at # "idle" => frame'[q].event \in emitted'
    BY <1>1, <1>6 DEF PInv, EventsWereEmitted
  <2>2. \A d \in Event : hook'[d].status # "NONE" => d \in emitted'
    BY <1>1, <1>2, <1>7 DEF PInv, EventsWereEmitted
  <2>3. \A d \in emitted' : Kind[d] = "refunded" =>
           \E f \in Captures : PaymentOf[f] = PaymentOf[d]
    BY <1>1 DEF PInv, EventsWereEmitted
  <2> QED
    BY <2>1, <2>2, <2>3 DEF EventsWereEmitted, Captures
<1> QED
  BY <1>1, <1>2, <1>3, <1>4, <1>6, <1>7, <1>8 DEF e

(* Captures of one payment are of one order, and conversely.               *)
LEMMA OnePayment ==
    ASSUME NEW d \in Captures, NEW e \in Event
    PROVE  /\ d \in Event /\ PaymentOf[d] \in Payment /\ OrderOf[d] \in Order
           /\ PaymentOf[d] = PaymentOf[e] => OrderOf[d] = OrderOf[e]
           /\ e \in Captures /\ OrderOf[d] = OrderOf[e] => PaymentOf[d] = PaymentOf[e]
BY PaymentsAssumption DEF Captures

LEMMA PaidStep ==
    ASSUME PInv, NEW p \in Process, processPaidEvent(p) PROVE PInv'
<1> DEFINE e == frame[p].event
           o == OrderOf[e]
<1>1. Commits(p, "paid")
  BY DEF processPaidEvent
<1>2. /\ e \in Captures /\ e \in Event /\ o \in Order /\ PaymentOf[e] \in Payment
      /\ Rejection(e) = None /\ e \in Matching
      /\ hook' \in [Event -> Hook] /\ acked' \subseteq Event
      /\ frame' \in [Process -> Frame] /\ EventsWereEmitted'
      /\ \A d \in Event : d # e => hook'[d] = hook[d]
      /\ UNCHANGED <<claimed, emitted, incidents>>
  BY <1>1, CommitShape DEF Captures
<1>3. order[o] \in {"PENDING", "CANCELLED", "PAID"}
  BY <1>2 DEF Rejection, Settleable, Captures, None
<1>4. /\ order' = [order EXCEPT ![o] = "PAID"]
      /\ invoice' = [invoice EXCEPT ![o] = "FINAL"]
      /\ redemption' = [redemption EXCEPT
                          ![o] = IF @ = "NONE" THEN "NONE" ELSE "APPLIED"]
      /\ payment' = [payment EXCEPT ![PaymentOf[e]] = "PAID"]
      /\ settled' = settled \cup {PaymentOf[e]}
  BY DEF processPaidEvent
<1>5. /\ code' = IF o \in Gift /\ code[o] = "NONE"
                 THEN [code EXCEPT ![o] = "AVAILABLE"] ELSE code
      /\ right' = IF o \notin Gift /\ right[o] = "NONE"
                  THEN [right EXCEPT ![o] = "ACTIVE"] ELSE right
      /\ access' \in {access, Fulfilled(o)}
  <2>1. CASE o \in Gift
    <3>1. code' = [code EXCEPT ![o] = IF @ = "NONE" THEN "AVAILABLE" ELSE @]
          /\ UNCHANGED <<right, access>>
      BY <2>1 DEF processPaidEvent
    <3> QED
      BY <2>1, <3>1 DEF PInv, TypeOK
  <2>2. CASE o \notin Gift
    <3>1. right' = [right EXCEPT ![o] = IF @ = "NONE" THEN "ACTIVE" ELSE @]
          /\ access' \in {access, Fulfilled(o)} /\ UNCHANGED code
      BY <2>2 DEF processPaidEvent
    <3> QED
      BY <2>2, <3>1 DEF PInv, TypeOK
  <2> QED
    BY <2>1, <2>2
<1> HIDE DEF e, o
<1>6. TypeOK'
  <2>1. /\ order' \in [Order -> OrderStatus] /\ invoice' \in [Order -> InvoiceStatus]
        /\ redemption' \in [Order -> RedemptionStatus]
    BY <1>2, <1>4 DEF PInv, TypeOK, OrderStatus, InvoiceStatus, RedemptionStatus
  <2>2. payment' \in [Payment -> PaymentStatus] /\ settled' \subseteq Payment
    BY <1>2, <1>4 DEF PInv, TypeOK, PaymentStatus
  <2>3. code' \in [Order -> CodeStatus] /\ right' \in [Order -> RightStatus]
    BY <1>2, <1>5 DEF PInv, TypeOK, CodeStatus, RightStatus
  <2>4. access' \in [Order -> Access]
    BY <1>2, <1>5, AccessTypes DEF PInv, TypeOK
  <2> QED
    BY <1>2, <2>1, <2>2, <2>3, <2>4 DEF PInv, TypeOK
<1>7. OrdersTellAll'
  <2> SUFFICES ASSUME NEW x \in Order PROVE OrderTellsAll(x)'
    BY DEF OrdersTellAll
  <2>1. OrderTellsAll(x)
    BY DEF PInv, OrdersTellAll
  <2>2. CASE x = o
    <3>1. /\ order'[x] = "PAID" /\ invoice'[x] = "FINAL"
          /\ redemption'[x] = IF redemption[x] = "NONE" THEN "NONE" ELSE "APPLIED"
          /\ code'[x] = IF x \in Gift /\ code[x] = "NONE" THEN "AVAILABLE" ELSE code[x]
          /\ right'[x] = IF x \notin Gift /\ right[x] = "NONE"
                         THEN "ACTIVE" ELSE right[x]
      BY <1>4, <1>5, <2>2 DEF PInv, TypeOK
    <3>2. order[x] \in {"PENDING", "CANCELLED", "PAID"}
      BY <1>3, <2>2 DEF o
    <3> QED
      BY <2>1, <3>1, <3>2 DEF OrderTellsAll
  <2>3. CASE x # o
    <3>1. /\ order'[x] = order[x] /\ invoice'[x] = invoice[x]
          /\ redemption'[x] = redemption[x] /\ code'[x] = code[x] /\ right'[x] = right[x]
      BY <1>4, <1>5, <2>3 DEF PInv, TypeOK
    <3> QED
      BY <2>1, <3>1 DEF OrderTellsAll
  <2> QED
    BY <2>2, <2>3
<1>8. CapturesAgree'
  <2> SUFFICES ASSUME NEW d \in Captures PROVE CaptureAgrees(d)'
    BY DEF CapturesAgree, Captures
  <2>1. CaptureAgrees(d) /\ order \in [Order -> OrderStatus]
        /\ payment \in [Payment -> PaymentStatus]
    BY DEF PInv, CapturesAgree, TypeOK
  <2>2. CASE OrderOf[d] = o
    <3>1. PaymentOf[d] = PaymentOf[e]
      BY <1>2, <2>2, OnePayment DEF o
    <3> QED
      BY <1>2, <1>4, <2>1, <2>2, <3>1 DEF CaptureAgrees
  <2>3. CASE OrderOf[d] # o
    <3>1. PaymentOf[d] # PaymentOf[e] /\ PaymentOf[d] \in Payment /\ OrderOf[d] \in Order
      BY <1>2, <2>3, OnePayment DEF o
    <3> QED
      BY <1>4, <2>1, <2>3, <3>1 DEF CaptureAgrees
  <2> QED
    BY <2>2, <2>3
<1>9. ProcessedMeansApplied'
  <2>1. \A d \in Event : d # e => hook'[d] = hook[d]
    BY <1>2
  <2>2. order'[o] = "PAID" /\ \A x \in Order : x # o => order'[x] = order[x]
    BY <1>2, <1>4 DEF PInv, TypeOK
  <2>3. \A d \in Event : OrderOf[d] \in Order
    BY PaymentsAssumption
  <2>4. Kind[e] = "paid" /\ OrderOf[e] = o /\ order[o] # "REFUNDED"
    BY <1>2, <1>3 DEF Captures, o
  <2> QED
    BY <2>1, <2>2, <2>3, <2>4 DEF PInv, ProcessedMeansApplied
<1> QED
  BY <1>2, <1>6, <1>7, <1>8, <1>9 DEF PInv

LEMMA FailedStep ==
    ASSUME PInv, NEW p \in Process, processFailedEvent(p) PROVE PInv'
<1> DEFINE e == frame[p].event
<1>1. Commits(p, "failed")
  BY DEF processFailedEvent
<1>2. /\ e \in Event /\ Kind[e] = "failed" /\ PaymentOf[e] \in Payment
      /\ hook' \in [Event -> Hook] /\ acked' \subseteq Event
      /\ frame' \in [Process -> Frame] /\ EventsWereEmitted'
      /\ \A d \in Event : d # e => hook'[d] = hook[d]
      /\ UNCHANGED <<claimed, emitted, incidents>>
  BY <1>1, CommitShape
<1>3. /\ payment' = IF RecordsFailure(e)
                    THEN [payment EXCEPT ![PaymentOf[e]] = "FAILED"] ELSE payment
      /\ UNCHANGED <<order, invoice, redemption, settled, right, code, access>>
  BY DEF processFailedEvent
<1> HIDE DEF e
<1>4. TypeOK'
  <2>1. payment' \in [Payment -> PaymentStatus]
    BY <1>2, <1>3 DEF PInv, TypeOK, PaymentStatus
  <2> QED
    BY <1>2, <1>3, <2>1 DEF PInv, TypeOK
<1>5. OrdersTellAll'
  BY <1>3 DEF PInv, OrdersTellAll, OrderTellsAll
<1>6. CapturesAgree'
  <2> SUFFICES ASSUME NEW d \in Captures PROVE CaptureAgrees(d)'
    BY DEF CapturesAgree, Captures
  <2>1. CaptureAgrees(d) /\ payment \in [Payment -> PaymentStatus]
    BY DEF PInv, CapturesAgree, TypeOK
  <2>2. PaymentOf[d] \in Payment
        /\ (PaymentOf[d] = PaymentOf[e] => OrderOf[d] = OrderOf[e])
    BY <1>2, OnePayment
  <2> QED
    BY <1>2, <1>3, <2>1, <2>2 DEF CaptureAgrees, RecordsFailure
<1>7. ProcessedMeansApplied'
  BY <1>2, <1>3 DEF PInv, ProcessedMeansApplied
<1> QED
  BY <1>2, <1>4, <1>5, <1>6, <1>7 DEF PInv

LEMMA RefundedStep ==
    ASSUME PInv, NEW p \in Process, processRefundedEvent(p) PROVE PInv'
<1> DEFINE e == frame[p].event
           o == OrderOf[e]
<1>1. Commits(p, "refunded")
  BY DEF processRefundedEvent
<1>2. /\ e \in Event /\ e \in emitted /\ Kind[e] = "refunded"
      /\ o \in Order /\ PaymentOf[e] \in Payment /\ Rejection(e) = None
      /\ e \in Matching
      /\ hook' \in [Event -> Hook] /\ acked' \subseteq Event
      /\ frame' \in [Process -> Frame] /\ EventsWereEmitted'
      /\ \A d \in Event : d # e => hook'[d] = hook[d]
      /\ UNCHANGED <<claimed, emitted, incidents>>
  BY <1>1, CommitShape
<1>3. order[o] \in {"PAID", "REFUNDED"} /\ settled' = settled
  BY <1>2 DEF processRefundedEvent, Rejection, None
<1>4. CASE order[o] = "PAID"
  <2>1. /\ order' = [order EXCEPT ![o] = "REFUNDED"]
        /\ invoice' = [invoice EXCEPT ![o] = "VOID"]
        /\ redemption' = [redemption EXCEPT
                            ![o] = IF @ = "NONE" THEN "NONE" ELSE "REFUNDED"]
        /\ payment' = [payment EXCEPT ![PaymentOf[e]] = "REFUNDED"]
        /\ code' = [code EXCEPT ![o] = IF @ = "AVAILABLE" THEN "REVOKED" ELSE @]
        /\ right' = [right EXCEPT ![o] = IF @ = "ACTIVE" THEN "REVOKED" ELSE @]
        /\ access' = Revoked(o)
    BY <1>4 DEF processRefundedEvent
  <2> HIDE DEF e, o
  <2>2. TypeOK'
    <3>1. /\ order' \in [Order -> OrderStatus] /\ invoice' \in [Order -> InvoiceStatus]
          /\ redemption' \in [Order -> RedemptionStatus]
      BY <1>2, <2>1 DEF PInv, TypeOK, OrderStatus, InvoiceStatus, RedemptionStatus
    <3>2. payment' \in [Payment -> PaymentStatus]
      BY <1>2, <2>1 DEF PInv, TypeOK, PaymentStatus
    <3>3. code' \in [Order -> CodeStatus] /\ right' \in [Order -> RightStatus]
      BY <1>2, <2>1 DEF PInv, TypeOK, CodeStatus, RightStatus
    <3>4. access' \in [Order -> Access]
      BY <1>2, <2>1, AccessTypes
    <3> QED
      BY <1>2, <1>3, <3>1, <3>2, <3>3, <3>4 DEF PInv, TypeOK
  <2>3. OrdersTellAll'
    <3> SUFFICES ASSUME NEW x \in Order PROVE OrderTellsAll(x)'
      BY DEF OrdersTellAll
    <3>1. OrderTellsAll(x)
      BY DEF PInv, OrdersTellAll
    <3>2. CASE x = o
      <4>1. /\ order'[x] = "REFUNDED" /\ invoice'[x] = "VOID"
            /\ redemption'[x] = IF redemption[x] = "NONE" THEN "NONE" ELSE "REFUNDED"
            /\ code'[x] = IF code[x] = "AVAILABLE" THEN "REVOKED" ELSE code[x]
            /\ right'[x] = IF right[x] = "ACTIVE" THEN "REVOKED" ELSE right[x]
        BY <2>1, <3>2 DEF PInv, TypeOK
      <4> QED
        BY <1>4, <3>1, <3>2, <4>1 DEF OrderTellsAll
    <3>3. CASE x # o
      <4>1. /\ order'[x] = order[x] /\ invoice'[x] = invoice[x]
            /\ redemption'[x] = redemption[x] /\ code'[x] = code[x]
            /\ right'[x] = right[x]
        BY <2>1, <3>3 DEF PInv, TypeOK
      <4> QED
        BY <3>1, <4>1 DEF OrderTellsAll
    <3> QED
      BY <3>2, <3>3
  <2>4. CapturesAgree'
    <3>1. PICK f \in Captures : PaymentOf[f] = PaymentOf[e]
      BY <1>2 DEF PInv, EventsWereEmitted
    <3> SUFFICES ASSUME NEW d \in Captures PROVE CaptureAgrees(d)'
      BY DEF CapturesAgree, Captures
    <3>2. CaptureAgrees(d) /\ order \in [Order -> OrderStatus]
          /\ payment \in [Payment -> PaymentStatus]
      BY DEF PInv, CapturesAgree, TypeOK
    <3>3. CASE OrderOf[d] = o
      <4>1. PaymentOf[d] = PaymentOf[e]
        BY <1>2, <3>1, <3>3, OnePayment DEF o
      <4> QED
        BY <1>2, <1>3, <1>4, <2>1, <3>2, <3>3, <4>1 DEF CaptureAgrees
    <3>4. CASE OrderOf[d] # o
      <4>1. PaymentOf[d] # PaymentOf[e] /\ PaymentOf[d] \in Payment
            /\ OrderOf[d] \in Order
        BY <1>2, <3>4, OnePayment DEF o
      <4> QED
        BY <1>3, <2>1, <3>2, <3>4, <4>1 DEF CaptureAgrees
    <3> QED
      BY <3>3, <3>4
  <2>5. ProcessedMeansApplied'
    <3>1. \A d \in Event : d # e => hook'[d] = hook[d]
      BY <1>2
    <3>2. order'[o] = "REFUNDED" /\ \A x \in Order : x # o => order'[x] = order[x]
      BY <1>2, <2>1 DEF PInv, TypeOK
    <3>3. \A d \in Event : OrderOf[d] \in Order
      BY PaymentsAssumption
    <3>4. OrderOf[e] = o
      BY DEF o
    <3> QED
      BY <3>1, <3>2, <3>3, <3>4 DEF PInv, ProcessedMeansApplied
  <2> QED
    BY <1>2, <2>2, <2>3, <2>4, <2>5 DEF PInv
<1>5. CASE order[o] = "REFUNDED"
  <2>1. UNCHANGED <<order, invoice, redemption, payment, code, right, access>>
    BY <1>5 DEF processRefundedEvent
  <2> HIDE DEF e, o
  <2>2. TypeOK'
    BY <1>2, <1>3, <2>1 DEF PInv, TypeOK
  <2>3. OrdersTellAll'
    BY <2>1 DEF PInv, OrdersTellAll, OrderTellsAll
  <2>4. CapturesAgree'
    BY <1>3, <2>1 DEF PInv, CapturesAgree, CaptureAgrees, Captures
  <2>5. ProcessedMeansApplied'
    BY <1>2, <1>5, <2>1 DEF PInv, ProcessedMeansApplied, o
  <2> QED
    BY <1>2, <2>2, <2>3, <2>4, <2>5 DEF PInv
<1> QED
  BY <1>3, <1>4, <1>5

-----------------------------------------------------------------------------
(* One step per action.                                                    *)
LEMMA Steps == PInv /\ [Next]_vars => PInv'
<1> SUFFICES ASSUME PInv, [Next]_vars PROVE PInv'
  OBVIOUS
<1>1. ASSUME NEW o \in Order, PlaceOrder(o) \/ CancelOrder(o) \/ consumeClaimCode(o)
      PROVE  PInv'
  BY <1>1, PlaceOrderStep, CancelOrderStep, ConsumeClaimCodeStep
<1>2. ASSUME NEW O \in SUBSET Order, commerceLifecycle(O)
      PROVE  PInv'
  BY <1>2, CommerceLifecycleStep
<1>3. ASSUME NEW e \in Event, Emit(e) \/ ConflictingReplay(e) \/ AdminAcknowledge(e)
      PROVE  PInv'
  BY <1>3, EmitStep, ConflictingReplayStep, AdminAcknowledgeStep
<1>4. ASSUME NEW p \in Process, NEW e \in Event,
             Deliver(p, e) \/ paymentOperations(p, e) \/ AdminRetry(p, e)
      PROVE  PInv'
  BY <1>4, DeliverStep, StartRetryStep DEF paymentOperations, AdminRetry
<1>5. ASSUME NEW p \in Process, FindExisting(p) \/ Reclaim(p) \/ IgnoreUnknown(p)
                                \/ Throw(p) \/ recordFailure(p)
      PROVE  PInv'
  BY <1>5, FindExistingStep, ReclaimStep, IgnoreUnknownStep, ThrowStep,
     RecordFailureStep
<1>6. ASSUME NEW p \in Process,
             processPaidEvent(p) \/ processFailedEvent(p) \/ processRefundedEvent(p)
      PROVE  PInv'
  BY <1>6, PaidStep, FailedStep, RefundedStep
<1>7. ASSUME NEW p \in Process, Abort(p) \/ Crash(p)
      PROVE  PInv'
  BY <1>7, AbortStep, CrashStep
<1>8. CASE UNCHANGED vars
  <2>1. UNCHANGED <<commerce, money, grants, hook, emitted, acked, frame, incidents>>
    BY <1>8 DEF vars, commerce, money, grants
  <2> QED
    BY <2>1, PlumbingStep, EventsStay DEF PInv, TypeOK
<1> QED
  BY <1>1, <1>2, <1>3, <1>4, <1>5, <1>6, <1>7, <1>8 DEF Next, Handle

(* Every reachable state satisfies the inductive invariant.                *)
THEOREM Invariant == Spec => []PInv
<1>1. Init => PInv
  BY InitPInv
<1>2. PInv /\ [Next]_vars => PInv'
  BY Steps
<1> QED
  BY <1>1, <1>2, PTL DEF Spec

(* Rows and handlers' local states are well formed, for every instance.    *)
THEOREM TypesHold == Spec => []TypeOK
<1>1. PInv => TypeOK
  BY DEF PInv
<1> QED
  BY <1>1, Invariant, PTL

(* Order, invoice, redemption, payment and settlement fact tell the same   *)
(* story in every reachable state: webhooks processed twice or in any      *)
(* order, cancellations and the lifecycle job leave none of them behind.   *)
THEOREM CommerceTellsOneStory == Spec => []CommerceAgrees
<1>1. PInv => CommerceAgrees
  <2> SUFFICES ASSUME PInv, NEW o \in Order
               PROVE  /\ order[o] \in {"NONE", "PENDING", "CANCELLED"} =>
                            /\ invoice[o] = IF order[o] = "NONE" THEN "NONE" ELSE "DRAFT"
                            /\ redemption[o] \notin {"APPLIED", "REFUNDED"}
                      /\ order[o] = "PAID" =>
                            /\ invoice[o] = "FINAL"
                            /\ redemption[o] = IF o \in Discounted THEN "APPLIED" ELSE "NONE"
                      /\ order[o] = "REFUNDED" =>
                            /\ invoice[o] = "VOID"
                            /\ redemption[o] = IF o \in Discounted THEN "REFUNDED" ELSE "NONE"
                      /\ \A p \in PaymentsOf(o) :
                            /\ order[o] \in {"NONE", "PENDING", "CANCELLED"} =>
                                  p \notin settled /\ payment[p] # "PAID"
                            /\ order[o] = "PAID" => p \in settled /\ payment[p] = "PAID"
                            /\ order[o] = "REFUNDED" =>
                                  p \in settled /\ payment[p] = "REFUNDED"
    BY DEF CommerceAgrees
  <2>1. OrderTellsAll(o)
    BY DEF PInv, OrdersTellAll
  <2>2. ASSUME NEW p \in PaymentsOf(o)
        PROVE  /\ p \in settled <=> order[o] \in {"PAID", "REFUNDED"}
               /\ order[o] = "PAID" => payment[p] = "PAID"
               /\ order[o] = "REFUNDED" => payment[p] = "REFUNDED"
               /\ order[o] \notin {"PAID", "REFUNDED"} => payment[p] # "PAID"
    <3>1. PICK e \in Captures : OrderOf[e] = o /\ PaymentOf[e] = p
      BY DEF PaymentsOf, Captures
    <3> QED
      BY <3>1 DEF PInv, CapturesAgree, CaptureAgrees
  <2> QED
    BY <2>1, <2>2 DEF OrderTellsAll
<1> QED
  BY <1>1, Invariant, PTL

(* The mark PROCESSED is true in every reachable state, whatever another   *)
(* handler of the same event wrote over it in the meantime.                *)
THEOREM ProcessedIsApplied == Spec => []ProcessedMeansApplied
<1>1. PInv => ProcessedMeansApplied
  BY DEF PInv
<1> QED
  BY <1>1, Invariant, PTL

-----------------------------------------------------------------------------
(* Access and periods: a second invariant over the first.                  *)

(* Only these steps touch orders, invoices, rights, codes or access.       *)
Commercial ==
    \/ \E o \in Order : PlaceOrder(o) \/ CancelOrder(o) \/ consumeClaimCode(o)
    \/ \E O \in SUBSET Order : commerceLifecycle(O)
    \/ \E p \in Process : processPaidEvent(p) \/ processRefundedEvent(p)

LEMMA CommercialOrQuiet ==
    ASSUME [Next]_vars
    PROVE  Commercial \/ UNCHANGED <<order, invoice, right, code, access>>
<1>1. ASSUME NEW e \in Event, Emit(e) \/ ConflictingReplay(e) \/ AdminAcknowledge(e)
      PROVE  UNCHANGED <<order, invoice, right, code, access>>
  BY <1>1 DEF Emit, ConflictingReplay, AdminAcknowledge, commerce, grants
<1>2. ASSUME NEW p \in Process, NEW e \in Event,
             Deliver(p, e) \/ paymentOperations(p, e) \/ AdminRetry(p, e)
      PROVE  UNCHANGED <<order, invoice, right, code, access>>
  BY <1>2 DEF Deliver, paymentOperations, AdminRetry, StartRetry, commerce, grants
<1>3. ASSUME NEW p \in Process, FindExisting(p) \/ Reclaim(p) \/ processFailedEvent(p)
                                \/ IgnoreUnknown(p)
      PROVE  UNCHANGED <<order, invoice, right, code, access>>
  BY <1>3 DEF FindExisting, Reclaim, processFailedEvent, IgnoreUnknown, commerce, grants
<1>4. ASSUME NEW p \in Process, Throw(p) \/ recordFailure(p) \/ Abort(p) \/ Crash(p)
      PROVE  UNCHANGED <<order, invoice, right, code, access>>
  BY <1>4 DEF Throw, recordFailure, Abort, Crash, commerce, grants
<1>5. CASE UNCHANGED vars
  BY <1>5 DEF vars
<1> QED
  BY <1>1, <1>2, <1>3, <1>4, <1>5 DEF Next, Handle, Commercial

(* What a committed capture writes; the rights come with the first one.    *)
Captured(o) ==
    /\ order[o] \in {"PENDING", "CANCELLED", "PAID"}
    /\ order' = [order EXCEPT ![o] = "PAID"]
    /\ invoice' = [invoice EXCEPT ![o] = "FINAL"]
    /\ o \in Gift => /\ code' = [code EXCEPT ![o] = IF @ = "NONE"
                                         THEN "AVAILABLE" ELSE @]
                     /\ UNCHANGED <<right, access>>
    /\ o \notin Gift =>
          /\ right' = [right EXCEPT ![o] = IF @ = "NONE" THEN "ACTIVE" ELSE @]
          /\ access' = IF order[o] = "PAID" THEN access ELSE Fulfilled(o)
          /\ UNCHANGED code

LEMMA PaidEffect ==
    ASSUME PInv, NEW p \in Process, processPaidEvent(p)
    PROVE  \E o \in Order : Captured(o)
<1> DEFINE e == frame[p].event
           o == OrderOf[e]
<1>1. Commits(p, "paid")
  BY DEF processPaidEvent
<1>2. /\ e \in Captures /\ o \in Order /\ e \in Matching /\ Rejection(e) = None
  BY <1>1, CommitShape DEF Captures
<1>3. order[o] \in {"PENDING", "CANCELLED", "PAID"}
  BY <1>2 DEF Rejection, Settleable, Captures, None
<1>4. FirstSettlement(e) <=> order[o] # "PAID"
  BY <1>2, <1>3 DEF PInv, CapturesAgree, CaptureAgrees, FirstSettlement
<1>5. Captured(o)
  BY <1>3, <1>4 DEF processPaidEvent, Captured
<1> QED
  BY <1>2, <1>5

(* What a committed refund takes back.                                     *)
TakenBack(o) ==
    /\ order[o] = "PAID"
    /\ order' = [order EXCEPT ![o] = "REFUNDED"]
    /\ invoice' = [invoice EXCEPT ![o] = "VOID"]
    /\ code' = [code EXCEPT ![o] = IF @ = "AVAILABLE" THEN "REVOKED" ELSE @]
    /\ right' = [right EXCEPT ![o] = IF @ = "ACTIVE" THEN "REVOKED" ELSE @]
    /\ access' = Revoked(o)

LEMMA RefundEffect ==
    ASSUME PInv, NEW p \in Process, processRefundedEvent(p)
    PROVE  \/ UNCHANGED <<order, invoice, right, code, access>>
           \/ \E o \in Order : TakenBack(o)
<1> DEFINE e == frame[p].event
           o == OrderOf[e]
<1>1. o \in Order
  BY CommitShape DEF processRefundedEvent
<1>2. CASE order[o] = "PAID"
  <2>1. TakenBack(o)
    BY <1>2 DEF processRefundedEvent, TakenBack
  <2> QED
    BY <1>1, <2>1
<1>3. CASE order[o] # "PAID"
  BY <1>3 DEF processRefundedEvent
<1> QED
  BY <1>2, <1>3

(* Access as a whole: who has it active, and how many periods.             *)
Active(r) == "ACTIVE" \in {access[r].license, access[r].subscription}

LEMMA AccessEffect ==
    ASSUME PInv, NEW o \in Order
    PROVE  /\ Renews[o] \in Order
           /\ Fulfilled(o)[Renews[o]].periods = access[Renews[o]].periods + 1
           /\ Revoked(o)[Renews[o]].periods = access[Renews[o]].periods
           /\ Revoked(o)[Renews[o]].license # "ACTIVE"
           /\ Revoked(o)[Renews[o]].subscription # "ACTIVE"
           /\ \A r \in Order : r # Renews[o] =>
                 Fulfilled(o)[r] = access[r] /\ Revoked(o)[r] = access[r]
<1>1. Renews[o] \in Order /\ access \in [Order -> Access]
  BY PaymentsAssumption DEF PInv, TypeOK
<1>2. Fulfilled(o)[Renews[o]].periods = access[Renews[o]].periods + 1
  BY <1>1 DEF Fulfilled
<1>3. Revoked(o)[Renews[o]] =
        [license |-> IF access[Renews[o]].license = "NONE" THEN "NONE" ELSE "REVOKED",
         subscription |-> IF access[Renews[o]].subscription = "NONE"
                          THEN "NONE" ELSE "CANCELLED",
         periods |-> access[Renews[o]].periods]
  BY <1>1 DEF Revoked
<1>4. \A r \in Order : r # Renews[o] =>
         Fulfilled(o)[r] = access[r] /\ Revoked(o)[r] = access[r]
  BY <1>1 DEF Fulfilled, Revoked
<1> QED
  BY <1>1, <1>2, <1>3, <1>4

LEMMA AccessStep == PInv /\ AccessIsPaid /\ [Next]_vars => AccessIsPaid'
<1> SUFFICES ASSUME PInv, AccessIsPaid, [Next]_vars, NEW r \in Order, Active(r)'
             PROVE  \E o \in Order : Renews[o] = r /\ order'[o] = "PAID"
  BY DEF AccessIsPaid, Active
<1>1. Active(r) => \E o \in Order : Renews[o] = r /\ order[o] = "PAID"
  BY DEF AccessIsPaid, Active
<1>2. order \in [Order -> OrderStatus]
  BY DEF PInv, TypeOK
<1>3. CASE UNCHANGED <<order, invoice, right, code, access>>
  BY <1>1, <1>3 DEF Active
<1>4. ASSUME NEW o \in Order, PlaceOrder(o) \/ CancelOrder(o)
      PROVE  \E x \in Order : Renews[x] = r /\ order'[x] = "PAID"
  BY <1>1, <1>2, <1>4 DEF PlaceOrder, CancelOrder, Active, grants
<1>5. ASSUME NEW o \in Order, consumeClaimCode(o)
      PROVE  \E x \in Order : Renews[x] = r /\ order'[x] = "PAID"
  <2>1. order[o] = "PAID" /\ order' = order /\ access' = Fulfilled(o)
    BY <1>5 DEF consumeClaimCode, Claimable, PInv, OrdersTellAll, OrderTellsAll, commerce
  <2> QED
    BY <1>1, <2>1, AccessEffect DEF Active
<1>6. ASSUME NEW O \in SUBSET Order, commerceLifecycle(O)
      PROVE  \E x \in Order : Renews[x] = r /\ order'[x] = "PAID"
  BY <1>1, <1>6 DEF commerceLifecycle, Active, grants
<1>7. ASSUME NEW p \in Process, processPaidEvent(p)
      PROVE  \E x \in Order : Renews[x] = r /\ order'[x] = "PAID"
  <2>1. PICK o \in Order : Captured(o)
    BY <1>7, PaidEffect
  <2>2. order' = [order EXCEPT ![o] = "PAID"] /\ access' \in {access, Fulfilled(o)}
    BY <2>1 DEF Captured
  <2> QED
    BY <1>1, <1>2, <2>2, AccessEffect DEF Active
<1>8. ASSUME NEW p \in Process, processRefundedEvent(p)
      PROVE  \E x \in Order : Renews[x] = r /\ order'[x] = "PAID"
  <2>1. CASE UNCHANGED <<order, invoice, right, code, access>>
    BY <1>1, <2>1 DEF Active
  <2>2. ASSUME NEW o \in Order, TakenBack(o)
        PROVE  \E x \in Order : Renews[x] = r /\ order'[x] = "PAID"
    BY <1>1, <1>2, <2>2, AccessEffect DEF Active, TakenBack
  <2> QED
    BY <1>8, <2>1, <2>2, RefundEffect
<1> QED
  BY <1>3, <1>4, <1>5, <1>6, <1>7, <1>8, CommercialOrQuiet DEF Commercial

(* Licenses and subscriptions are active only while some order that paid   *)
(* for them stands, whatever the order of captures, refunds and claims.    *)
THEOREM AccessIsAlwaysPaid == Spec => []AccessIsPaid
<1>1. Init => AccessIsPaid
  BY PaymentsAssumption DEF Init, AccessIsPaid
<1> QED
  BY <1>1, AccessStep, Invariant, PTL DEF Spec

(* The orders that have paid for a period of r, a gift once it is claimed. *)
Counts(o) == IF o \in Gift THEN code[o] = "CLAIMED" ELSE order[o] \in {"PAID", "REFUNDED"}

PaidFor(r) == {o \in Order : Renews[o] = r /\ Counts(o)}

(* A step counts nothing new, or one order and one period.                 *)
LEMMA SamePeriods ==
    ASSUME NEW r \in Order, access'[r].periods = access[r].periods,
           \A o \in Order : Counts(o)' <=> Counts(o)
    PROVE  access'[r].periods = access[r].periods /\ PaidFor(r)' = PaidFor(r)
BY DEF PaidFor

LEMMA OneMorePeriod ==
    ASSUME PInv, NEW r \in Order, NEW x \in Order, access' = Fulfilled(x),
           ~Counts(x), Counts(x)',
           \A o \in Order : o # x => (Counts(o)' <=> Counts(o))
    PROVE  \/ access'[r].periods = access[r].periods /\ PaidFor(r)' = PaidFor(r)
           \/ \E o \in Order \ PaidFor(r) :
                 /\ PaidFor(r)' = PaidFor(r) \cup {o}
                 /\ access'[r].periods = access[r].periods + 1
<1>1. CASE Renews[x] = r
  <2>1. x \notin PaidFor(r) /\ PaidFor(r)' = PaidFor(r) \cup {x}
    BY <1>1 DEF PaidFor
  <2>2. access'[r].periods = access[r].periods + 1
    BY <1>1, AccessEffect
  <2> QED
    BY <2>1, <2>2
<1>2. CASE Renews[x] # r
  <2>1. PaidFor(r)' = PaidFor(r)
    BY <1>2 DEF PaidFor
  <2>2. access'[r].periods = access[r].periods
    BY <1>2, AccessEffect
  <2> QED
    BY <2>1, <2>2
<1> QED
  BY <1>1, <1>2

LEMMA Tally ==
    ASSUME PInv, [Next]_vars, NEW r \in Order
    PROVE  \/ access'[r].periods = access[r].periods /\ PaidFor(r)' = PaidFor(r)
           \/ \E o \in Order \ PaidFor(r) :
                 /\ PaidFor(r)' = PaidFor(r) \cup {o}
                 /\ access'[r].periods = access[r].periods + 1
<1> DEFINE Told == \/ access'[r].periods = access[r].periods /\ PaidFor(r)' = PaidFor(r)
                   \/ \E o \in Order \ PaidFor(r) :
                         /\ PaidFor(r)' = PaidFor(r) \cup {o}
                         /\ access'[r].periods = access[r].periods + 1
<1>0. order \in [Order -> OrderStatus] /\ code \in [Order -> CodeStatus]
      /\ access \in [Order -> Access]
  BY DEF PInv, TypeOK
<1>1. CASE UNCHANGED <<order, invoice, right, code, access>>
  BY <1>1, SamePeriods DEF Counts
<1>2. ASSUME NEW o \in Order, PlaceOrder(o) \/ CancelOrder(o)
      PROVE  Told
  <2>1. \A x \in Order : Counts(x)' <=> Counts(x)
    BY <1>0, <1>2 DEF PlaceOrder, CancelOrder, Counts, grants
  <2> QED
    BY <1>2, <2>1, SamePeriods DEF PlaceOrder, CancelOrder, grants
<1>3. ASSUME NEW o \in Order, consumeClaimCode(o)
      PROVE  Told
  <2>1. /\ code[o] = "AVAILABLE" /\ o \in Gift /\ access' = Fulfilled(o)
        /\ order' = order /\ code' = [code EXCEPT ![o] = "CLAIMED"]
    BY <1>3 DEF consumeClaimCode, Claimable, PInv, OrdersTellAll, OrderTellsAll, commerce
  <2>2. ~Counts(o) /\ Counts(o)' /\ \A x \in Order : x # o => (Counts(x)' <=> Counts(x))
    BY <1>0, <2>1 DEF Counts
  <2> QED
    BY <2>1, <2>2, OneMorePeriod
<1>4. ASSUME NEW O \in SUBSET Order, commerceLifecycle(O)
      PROVE  Told
  <2>1. \A x \in Order : Counts(x)' <=> Counts(x)
    BY <1>4 DEF commerceLifecycle, Counts, grants
  <2> QED
    BY <1>4, <2>1, SamePeriods DEF commerceLifecycle, grants
<1>5. ASSUME NEW p \in Process, processPaidEvent(p)
      PROVE  Told
  <2>1. PICK o \in Order : Captured(o)
    BY <1>5, PaidEffect
  <2>2. CASE o \in Gift \/ order[o] = "PAID"
    <3>1. access' = access
      BY <2>1, <2>2 DEF Captured
    <3>2. \A x \in Order : Counts(x)' <=> Counts(x)
      BY <1>0, <2>1, <2>2 DEF Captured, Counts
    <3> QED
      BY <3>1, <3>2, SamePeriods
  <2>3. CASE o \notin Gift /\ order[o] # "PAID"
    <3>1. access' = Fulfilled(o)
      BY <2>1, <2>3 DEF Captured
    <3>2. ~Counts(o) /\ Counts(o)' /\ \A x \in Order : x # o => (Counts(x)' <=> Counts(x))
      BY <1>0, <2>1, <2>3 DEF Captured, Counts
    <3> QED
      BY <3>1, <3>2, OneMorePeriod
  <2> QED
    BY <2>2, <2>3
<1>6. ASSUME NEW p \in Process, processRefundedEvent(p)
      PROVE  Told
  <2>1. CASE UNCHANGED <<order, invoice, right, code, access>>
    BY <1>1, <2>1
  <2>2. ASSUME NEW o \in Order, TakenBack(o)
        PROVE  Told
    <3>1. \A x \in Order : Counts(x)' <=> Counts(x)
      BY <1>0, <2>2 DEF TakenBack, Counts
    <3>2. access'[r].periods = access[r].periods
      BY <2>2, AccessEffect DEF TakenBack
    <3> QED
      BY <3>1, <3>2, SamePeriods
  <2> QED
    BY <1>6, <2>1, <2>2, RefundEffect
<1> QED
  BY <1>1, <1>2, <1>3, <1>4, <1>5, <1>6, CommercialOrQuiet DEF Commercial

LEMMA PeriodsStep == PInv /\ PeriodsArePaidOnce /\ [Next]_vars => PeriodsArePaidOnce'
<1> SUFFICES ASSUME PInv, PeriodsArePaidOnce, [Next]_vars, NEW r \in Order
             PROVE  access'[r].periods = Cardinality(PaidFor(r)')
  BY DEF PeriodsArePaidOnce, PaidFor, Counts
<1>1. access[r].periods = Cardinality(PaidFor(r))
  BY DEF PeriodsArePaidOnce, PaidFor, Counts
<1>2. IsFiniteSet(PaidFor(r))
  BY PaymentsAssumption, FS_Subset DEF PaidFor
<1>3. ASSUME NEW o \in Order \ PaidFor(r), PaidFor(r)' = PaidFor(r) \cup {o},
             access'[r].periods = access[r].periods + 1
      PROVE  access'[r].periods = Cardinality(PaidFor(r)')
  BY <1>1, <1>2, <1>3, FS_AddElement
<1> QED
  BY <1>1, <1>3, Tally

(* A subscription is extended once for each order paid for it, in every    *)
(* instance and however often the event of a capture is processed.         *)
THEOREM PeriodsAreAlwaysPaidOnce == Spec => []PeriodsArePaidOnce
<1>1. Init => PeriodsArePaidOnce
  <2> SUFFICES ASSUME Init, NEW r \in Order
               PROVE  access[r].periods = Cardinality(PaidFor(r))
    BY DEF PeriodsArePaidOnce, PaidFor, Counts
  <2>1. PaidFor(r) = {}
    BY DEF Init, PaidFor, Counts
  <2>2. access[r].periods = 0
    BY DEF Init
  <2> QED
    BY <2>1, <2>2, FS_EmptySet
<1> QED
  BY <1>1, PeriodsStep, Invariant, PTL DEF Spec

-----------------------------------------------------------------------------
(* Payments implements OrderLifecycle.                                     *)

Rights == {o \in Order : right[o] = "ACTIVE"}

(* The abstract state does not move.                                       *)
Still == UNCHANGED <<order, invoice>> /\ Rights' = Rights

LEMMA PlaceRefines ==
    ASSUME PInv, NEW o \in Order, PlaceOrder(o) PROVE Lifecycle!Place(o)
BY DEF PlaceOrder, Lifecycle!Place, grants

LEMMA CancelRefines ==
    ASSUME PInv, NEW O \in SUBSET Order, \A o \in O : order[o] = "PENDING",
           order' = [o \in Order |-> IF o \in O THEN "CANCELLED" ELSE order[o]],
           UNCHANGED <<invoice, right>>
    PROVE  Lifecycle!Next
<1>1. Lifecycle!Cancel(O)
  BY DEF Lifecycle!Cancel
<1> QED
  BY <1>1 DEF Lifecycle!Next

LEMMA CapturedRefines ==
    ASSUME PInv, NEW o \in Order, Captured(o) PROVE Lifecycle!Next \/ Still
<1>1. OrderTellsAll(o) /\ right \in [Order -> RightStatus]
      /\ order \in [Order -> OrderStatus] /\ invoice \in [Order -> InvoiceStatus]
  BY DEF PInv, OrdersTellAll, TypeOK
<1>2. CASE order[o] = "PAID"
  <2>1. order' = order /\ invoice' = invoice
    BY <1>1, <1>2 DEF Captured, OrderTellsAll
  <2>2. right' = right
    BY <1>1, <1>2 DEF Captured, OrderTellsAll
  <2> QED
    BY <2>1, <2>2 DEF Still, Rights
<1>3. CASE order[o] # "PAID"
  <2>1. order[o] \in {"PENDING", "CANCELLED"}
    BY <1>3 DEF Captured
  <2>2. Rights' = Rights \cup ({o} \cap (Order \ Gift))
    BY <1>1, <2>1 DEF Captured, OrderTellsAll, Rights
  <2>3. Lifecycle!Settle(o)
    BY <2>1, <2>2 DEF Lifecycle!Settle, Captured, Rights
  <2> QED
    BY <2>3 DEF Lifecycle!Next
<1> QED
  BY <1>2, <1>3

LEMMA TakenBackRefines ==
    ASSUME PInv, NEW o \in Order, TakenBack(o) PROVE Lifecycle!Next
<1>1. right \in [Order -> RightStatus]
  BY DEF PInv, TypeOK
<1>2. Rights' = Rights \ {o}
  BY <1>1 DEF TakenBack, Rights
<1>3. Lifecycle!Refund(o)
  BY <1>2 DEF Lifecycle!Refund, TakenBack, Rights
<1> QED
  BY <1>3 DEF Lifecycle!Next

LEMMA StepRefines ==
    ASSUME PInv, [Next]_vars PROVE Lifecycle!Next \/ Still
<1>0. order \in [Order -> OrderStatus]
  BY DEF PInv, TypeOK
<1>1. CASE UNCHANGED <<order, invoice, right, code, access>>
  BY <1>1 DEF Still, Rights
<1>2. ASSUME NEW o \in Order, PlaceOrder(o)
      PROVE  Lifecycle!Next
  BY <1>2, PlaceRefines DEF Lifecycle!Next
<1>3. ASSUME NEW o \in Order, CancelOrder(o)
      PROVE  Lifecycle!Next
  <2>1. order' = [x \in Order |-> IF x \in {o} THEN "CANCELLED" ELSE order[x]]
    BY <1>0, <1>3 DEF CancelOrder
  <2> QED
    BY <1>3, <2>1, CancelRefines DEF CancelOrder, grants
<1>4. ASSUME NEW o \in Order, consumeClaimCode(o)
      PROVE  Still
  BY <1>4 DEF consumeClaimCode, commerce, Still, Rights
<1>5. ASSUME NEW O \in SUBSET Order, commerceLifecycle(O)
      PROVE  Lifecycle!Next
  <2> DEFINE P == {o \in O : order[o] = "PENDING"}
  <2>1. order' = [o \in Order |-> IF o \in P THEN "CANCELLED" ELSE order[o]]
    BY <1>5 DEF commerceLifecycle
  <2> QED
    BY <1>5, <2>1, CancelRefines DEF commerceLifecycle, grants
<1>6. ASSUME NEW p \in Process, processPaidEvent(p)
      PROVE  Lifecycle!Next \/ Still
  BY <1>6, PaidEffect, CapturedRefines
<1>7. ASSUME NEW p \in Process, processRefundedEvent(p)
      PROVE  Lifecycle!Next \/ Still
  BY <1>1, <1>7, RefundEffect, TakenBackRefines DEF Still, Rights
<1> QED
  BY <1>1, <1>2, <1>3, <1>4, <1>5, <1>6, <1>7, CommercialOrQuiet DEF Commercial

(* Orders, invoices and the buyers' rights follow the promised lifecycle:  *)
(* every step of webhooks, retries, jobs and customers is a step of it or  *)
(* moves nothing of it.                                                    *)
THEOREM LifecycleImplemented == Spec => ImplementsLifecycle
<1>1. Init => Lifecycle!Init
  BY DEF Init, Lifecycle!Init
<1>2. PInv /\ [Next]_vars => [Lifecycle!Next]_(Lifecycle!vars)
  BY StepRefines DEF Still, Rights, Lifecycle!vars
<1> QED
  BY <1>1, <1>2, Invariant, PTL DEF Spec, ImplementsLifecycle, Lifecycle!Spec
=============================================================================
