---------------------------- MODULE PendingOrders ----------------------------
(***************************************************************************)
(* What happens to an order between its creation and its payment: the      *)
(* routes and agent handlers that continue its hosted checkout or cancel   *)
(* it (app/api/orders/[id] and accounts/agent-order-authority.ts), the     *)
(* commerce lifecycle job, and the webhooks that close it.                 *)
(*                                                                         *)
(* One order: none of these looks at two.  A continuation is two           *)
(* transactions that lock the order, with the provider's call between      *)
(* them, so any number of others may run while it waits for the provider.  *)
(* A cancellation is one Serializable transaction whose snapshot is taken  *)
(* as it begins to wait for the order's lock; the other transactions run   *)
(* at the default isolation.                                               *)
(*                                                                         *)
(* The order was born with a checkout of its own, the row of               *)
(* PaymentCheckoutAttempt (`original'), the only one whose capture can     *)
(* settle it (see Payments).  The PaymentAttempt rows are those its        *)
(* continuations make, numbered by createdAt.                              *)
(***************************************************************************)
EXTENDS Naturals, FiniteSets

CONSTANTS
    Caller,       \* continuations that run at a time
    NumAttempts,  \* bound: PaymentAttempt rows
    MaxFault      \* bound: transactions that fail, processes that die

ASSUME PendingOrdersAssumption ==
    /\ NumAttempts \in Nat
    /\ MaxFault \in Nat

Attempt == 1..NumAttempts

VARIABLES
    order,     \* [status, aged]: aged means created more than a day ago
    original,  \* PaymentCheckoutAttempt.status
    attempt,   \* the PaymentAttempt rows
    caller,    \* where each continuation is
    view,      \* what the cancellation that waits for the order saw
    withdrawn, \* history: the customer cancelled the order
    beside,    \* history: attempts opened while that cancellation waited
    swept,     \* history: attempts past the cutoff when the job closed it
    lost,      \* history: attempts whose continuation died
    faults     \* history: faults so far

vars == <<order, original, attempt, caller, view, withdrawn, beside, swept, lost,
          faults>>

OpenStatus == {"CREATING", "PENDING"}

AttemptStatus == {"absent", "FAILED", "CANCELLED", "EXPIRED"} \cup OpenStatus

(* made: externalCheckoutId and checkoutUrl are set.  age: under five      *)
(* minutes, under a day, over a day.  slow: history, the row was CREATING  *)
(* for more than five minutes.                                             *)
Row == [status : AttemptStatus, made : BOOLEAN,
        age : {"young", "stale", "old"}, slow : BOOLEAN]

NoRow == [status |-> "absent", made |-> FALSE, age |-> "young", slow |-> FALSE]

Closed == {"PAID", "CANCELLED"}

Frame == [at : {"idle", "create", "finalize", "fail"}, attempt : Attempt \cup {0}]

Idle == [at |-> "idle", attempt |-> 0]

(* A snapshot, as far as a cancellation looks: whether the original        *)
(* checkout was open, and the attempts that were.                          *)
View == [on : BOOLEAN, original : BOOLEAN, rows : [Attempt -> OpenStatus \cup {"none"}]]

NoView == [on |-> FALSE, original |-> FALSE, rows |-> [a \in Attempt |-> "none"]]

Known == {a \in Attempt : view.rows[a] # "none"}

Open(a) == attempt[a].status \in OpenStatus

(* orderBy createdAt desc, take 1.                                         *)
Newest(a) == Open(a) /\ \A b \in Attempt : Open(b) => b <= a

Init ==
    /\ order = [status |-> "PENDING", aged |-> FALSE]
    /\ original = "PENDING"
    /\ attempt = [a \in Attempt |-> NoRow]
    /\ caller = [c \in Caller |-> Idle]
    /\ view = NoView
    /\ withdrawn = FALSE
    /\ beside = {}
    /\ swept = {}
    /\ lost = {}
    /\ faults = 0

History == <<withdrawn, swept, lost, faults>>

(* Notes an attempt that is opened while a cancellation waits.             *)
Opens(a) == beside' = IF view.on THEN beside \cup {a} ELSE beside

Cancellation == <<view, beside>>

-----------------------------------------------------------------------------
(* Mutant: the age of a creation is not looked at.                         *)
GivenUpAtOnce(a) == Newest(a) /\ attempt[a].status = "CREATING"

(* The newest open attempt, when its creation has had its five minutes.   *)
GivenUp(a) == Newest(a) /\ attempt[a].status = "CREATING" /\ attempt[a].age # "young"

NextRow(a) ==
    /\ attempt[a].status = "absent"
    /\ \A b \in Attempt : b < a => attempt[b].status # "absent"

(* Mutant: a creation that is given up is begun again in its own row.      *)
ContinueReuses(c) ==
    /\ caller[c] = Idle
    /\ order.status = "PENDING"
    /\ \A a \in Attempt : Newest(a) => GivenUp(a)
    /\ \E a \in Attempt :
         /\ GivenUp(a) \/ (NextRow(a) /\ \A b \in Attempt : ~Open(b))
         /\ attempt' = [attempt EXCEPT ![a] = [NoRow EXCEPT !.status = "CREATING"]]
         /\ caller' = [caller EXCEPT ![c] = [at |-> "create", attempt |-> a]]
         /\ Opens(a)
    /\ UNCHANGED <<order, original, view, History>>

(* First transaction of a continuation that asks for another checkout.     *)
(* With a stored URL it answers that URL, with a fresh creation it answers *)
(* CHECKOUT_CREATION_IN_PROGRESS, and changes nothing.                     *)
Continue(c) ==
    /\ caller[c] = Idle
    /\ order.status = "PENDING"
    /\ \A a \in Attempt : Newest(a) => GivenUp(a)
    /\ \E a \in Attempt :
         /\ NextRow(a)
         /\ attempt' = [b \in Attempt |->
              IF b = a THEN [NoRow EXCEPT !.status = "CREATING"]
              ELSE IF GivenUp(b) THEN [attempt[b] EXCEPT !.status = "FAILED"]
              ELSE attempt[b]]
         /\ caller' = [caller EXCEPT ![c] = [at |-> "create", attempt |-> a]]
         /\ Opens(a)
    /\ UNCHANGED <<order, original, view, History>>

Goto(c, at) == caller' = [caller EXCEPT ![c].at = at]

(* paymentProvider.createCheckout answers, or throws.                      *)
CreateCheckout(c) ==
    /\ caller[c].at = "create"
    /\ Goto(c, "finalize") \/ Goto(c, "fail")
    /\ UNCHANGED <<order, original, attempt, Cancellation, History>>

SetStatus(a, status) == attempt' = [attempt EXCEPT ![a].status = status]

SetMade(a, status) ==
    attempt' = [attempt EXCEPT ![a] = [@ EXCEPT !.status = status, !.made = TRUE]]

(* Mutant: the order is not read again after the provider's call.          *)
FinalizeUnread(c) ==
    /\ caller[c].at = "finalize"
    /\ SetMade(caller[c].attempt, "PENDING")
    /\ caller' = [caller EXCEPT ![c] = Idle]
    /\ UNCHANGED <<order, original, Cancellation, History>>

(* Second transaction: the order is locked and read again, the attempt is  *)
(* updated by its key whatever became of it.                               *)
Finalize(c) ==
    /\ caller[c].at = "finalize"
    /\ SetMade(caller[c].attempt,
               IF order.status = "PENDING" THEN "PENDING" ELSE "CANCELLED")
    /\ IF order.status = "PENDING" /\ ~Open(caller[c].attempt)
       THEN Opens(caller[c].attempt) ELSE UNCHANGED beside
    /\ caller' = [caller EXCEPT ![c] = Idle]
    /\ UNCHANGED <<order, original, view, History>>

(* Mutant: a failed continuation leaves its attempt as it is.              *)
FailKeepsAttempt(c) ==
    /\ caller[c].at = "fail"
    /\ caller' = [caller EXCEPT ![c] = Idle]
    /\ UNCHANGED <<order, original, attempt, Cancellation, History>>

Fail(c) ==
    /\ caller[c].at = "fail"
    /\ IF attempt[caller[c].attempt].status = "CREATING"
       THEN SetStatus(caller[c].attempt, "FAILED") ELSE UNCHANGED attempt
    /\ caller' = [caller EXCEPT ![c] = Idle]
    /\ UNCHANGED <<order, original, Cancellation, History>>

Fault == faults < MaxFault /\ faults' = faults + 1

(* The second transaction fails: the attempt is to be marked FAILED.       *)
FinalizeThrows(c) ==
    /\ caller[c].at = "finalize"
    /\ Fault
    /\ Goto(c, "fail")
    /\ UNCHANGED <<order, original, attempt, Cancellation, withdrawn, swept, lost>>

(* The process dies, or the update in the catch fails in its turn.         *)
Lost(c) ==
    /\ caller[c] # Idle
    /\ Fault
    /\ lost' = lost \cup {caller[c].attempt}
    /\ caller' = [caller EXCEPT ![c] = Idle]
    /\ UNCHANGED <<order, original, attempt, Cancellation, withdrawn, swept>>

-----------------------------------------------------------------------------
(* The customer, or the customer's agent, cancels.  The first statement,   *)
(* the SELECT of the order FOR UPDATE, fixes the snapshot of the whole     *)
(* transaction and then waits for whoever holds the order.                 *)
CancelBegins ==
    /\ ~view.on
    /\ order.status = "PENDING"
    /\ view' = [on |-> TRUE, original |-> original \in OpenStatus,
                rows |-> [a \in Attempt |->
                            IF Open(a) THEN attempt[a].status ELSE "none"]]
    /\ beside' = {}
    /\ UNCHANGED <<order, original, attempt, caller, History>>

(* Of the rows the cancellation writes none has been written since: it     *)
(* fails to serialize otherwise.  No row returns to an open status that it *)
(* has left, so the statuses tell.  Rows that were opened since are not in *)
(* the snapshot and stop nothing.                                          *)
Intact ==
    /\ order.status = "PENDING"
    /\ view.original => original \in OpenStatus
    /\ \A a \in Known : attempt[a].status = view.rows[a]

Withdraw(rows) ==
    /\ view.on /\ Intact
    /\ order' = [order EXCEPT !.status = "CANCELLED"]
    /\ attempt' = [a \in Attempt |->
         IF a \in rows THEN [attempt[a] EXCEPT !.status = "CANCELLED"] ELSE attempt[a]]
    /\ original' = IF view.original THEN "CANCELLED" ELSE original
    /\ view' = NoView
    /\ withdrawn' = TRUE
    /\ UNCHANGED <<caller, beside, swept, lost, faults>>

(* Mutant: a cancellation leaves the creations under way.                  *)
CancelPendingOnly == Withdraw({a \in Known : attempt[a].status = "PENDING"})

(* The updates, on the snapshot, and the commit.                           *)
Cancel == Withdraw(Known)

(* The order or a row was written meanwhile, or the transaction fails for  *)
(* another reason.                                                         *)
CancelFails ==
    /\ view.on
    /\ view' = NoView
    /\ beside' = {}
    /\ UNCHANGED <<order, original, attempt, caller, History>>

(* Mutant: an order that waits for a checkout is not closed.               *)
CommerceLifecycleSpares ==
    /\ order.status = "PENDING" /\ order.aged
    /\ \A a \in Attempt : ~Open(a)
    /\ order' = [order EXCEPT !.status = "CANCELLED"]
    /\ UNCHANGED <<original, attempt, caller, Cancellation, History>>

Overdue == {a \in Attempt : Open(a) /\ attempt[a].age = "old"}

(* The commerce.lifecycle job: one transaction of two updates, orders      *)
(* first, so the attempts whose order is PENDING are sought after their    *)
(* order has been closed.                                                  *)
CommerceLifecycle ==
    /\ order.status = "PENDING" /\ order.aged
    /\ order' = [order EXCEPT !.status = "CANCELLED"]
    /\ attempt' = [a \in Attempt |->
         IF a \in Overdue /\ order'.status = "PENDING"
         THEN [attempt[a] EXCEPT !.status = "EXPIRED"] ELSE attempt[a]]
    /\ swept' = Overdue
    /\ UNCHANGED <<original, caller, Cancellation, withdrawn, lost, faults>>

(* payment.paid for the original checkout: Payments!Settle.  No host       *)
(* attempt carries that checkout, so none is touched.                      *)
Settle ==
    /\ order.status \in {"PENDING", "CANCELLED"}
    /\ order' = [order EXCEPT !.status = "PAID"]
    /\ UNCHANGED <<original, attempt, caller, Cancellation, History>>

(* payment.failed for a checkout the provider has given the host.          *)
PaymentFailed(a) ==
    /\ order.status \in {"PENDING", "CANCELLED"}
    /\ attempt[a].made
    /\ SetStatus(a, "FAILED")
    /\ UNCHANGED <<order, original, caller, Cancellation, History>>

(* payment.failed for the original checkout.                               *)
OriginalFailed ==
    /\ order.status \in {"PENDING", "CANCELLED"}
    /\ original' = "FAILED"
    /\ UNCHANGED <<order, attempt, caller, Cancellation, History>>

-----------------------------------------------------------------------------
(* A row that a continuation holds, or that one may still find open.       *)
Live(a) == Open(a) \/ \E c \in Caller : caller[c].attempt = a

Grow(a, age) ==
    attempt' = [attempt EXCEPT ![a] = [attempt[a] EXCEPT !.age = age,
                    !.slow = attempt[a].slow \/ attempt[a].status = "CREATING"]]

(* Five minutes, then a day, after a row was created.                      *)
AgeAttempt(a) ==
    /\ Live(a)
    /\ \/ /\ attempt[a].age = "young"
          /\ \A b \in Attempt : b < a /\ Live(b) => attempt[b].age # "young"
          /\ Grow(a, "stale")
       \/ /\ attempt[a].age = "stale"
          /\ order.aged
          /\ \A b \in Attempt : b < a /\ Live(b) => attempt[b].age = "old"
          /\ Grow(a, "old")
    /\ UNCHANGED <<order, original, caller, Cancellation, History>>

AgeOrder ==
    /\ order.status = "PENDING" /\ ~order.aged
    /\ order' = [order EXCEPT !.aged = TRUE]
    /\ UNCHANGED <<original, attempt, caller, Cancellation, History>>

-----------------------------------------------------------------------------
Work(c) == CreateCheckout(c) \/ Finalize(c) \/ Fail(c)

Next ==
    \/ \E c \in Caller : Continue(c) \/ Work(c) \/ FinalizeThrows(c) \/ Lost(c)
    \/ \E a \in Attempt : PaymentFailed(a) \/ AgeAttempt(a)
    \/ CancelBegins \/ Cancel \/ CancelFails
    \/ CommerceLifecycle \/ Settle \/ OriginalFailed \/ AgeOrder

Spec == Init /\ [][Next]_vars

(* A continuation that runs goes on: the provider's call answers or        *)
(* throws.  The scheduler runs its job again and again, and time passes.   *)
FairSpec ==
    /\ Spec
    /\ \A c \in Caller : WF_vars(Work(c))
    /\ WF_vars(AgeOrder) /\ WF_vars(CommerceLifecycle)

-----------------------------------------------------------------------------
(* The types of the variables; a continuation holds an attempt as long as  *)
(* it runs, and no two of them the same.                                   *)
TypeOK ==
    /\ order \in [status : {"PENDING"} \cup Closed, aged : BOOLEAN]
    /\ original \in {"PENDING", "CANCELLED", "FAILED"}
    /\ attempt \in [Attempt -> Row]
    /\ caller \in [Caller -> Frame]
    /\ \A c \in Caller : caller[c].at = "idle" <=> caller[c].attempt = 0
    /\ \A c, d \in Caller :
          c # d /\ caller[c] # Idle => caller[c].attempt # caller[d].attempt
    /\ view \in View
    /\ ~view.on => Known = {}
    /\ withdrawn \in BOOLEAN
    /\ beside \subseteq Attempt
    /\ swept \subseteq Attempt
    /\ lost \subseteq Attempt
    /\ faults \in 0..MaxFault

(* Of the checkouts that continuations make for an order at most one is    *)
(* open, however many race, unless a provider's call went on for more than *)
(* the five minutes after which Continue gives a creation up.  The         *)
(* original checkout is not among them: Continue does not look at it, and  *)
(* it may be open beside any of these.                                     *)
OneOpenReplacement ==
    \A a, b \in Attempt :
       Open(a) /\ Open(b) /\ a # b => attempt[a].slow \/ attempt[b].slow

(* An order its customer has cancelled leaves nothing open that was open   *)
(* when the cancellation began: neither the original checkout nor an       *)
(* attempt, not even one whose checkout the provider was making.  What is  *)
(* still open a continuation opened while the cancellation waited for the  *)
(* order, out of its snapshot, and nothing is opened later.  That it marks *)
(* every open attempt (docs/architecture.md:99) would be too much to say.  *)
CancelledLeavesOnlyUnseen ==
    withdrawn => /\ original \notin OpenStatus
                 /\ \A a \in Attempt : Open(a) => a \in beside

(* Of the closed attempts only one that was given up can be opened again,  *)
(* by the late answer of its provider while the order still waits: never   *)
(* one that a cancellation or a failed payment has closed.                 *)
OnlyLateAnswersReopen ==
    [][\A a \in Attempt :
          attempt[a].status \notin OpenStatus \cup {"absent"}
             /\ attempt'[a].status \in OpenStatus
          => /\ attempt[a].slow /\ ~attempt[a].made
             /\ order.status = "PENDING"]_vars

(* The checkouts as the customer sees them.                                *)
Seen(rows) == [a \in Attempt |->
    CASE rows[a].status = "absent" -> "none"
      [] rows[a].status = "CREATING" -> "asked"
      [] rows[a].status = "PENDING" -> "offered"
      [] OTHER -> "closed"]

Checkout == Seen(attempt)

Awaited == {a \in Attempt : \E c \in Caller : caller[c].attempt = a}

Slow == {a \in Attempt : attempt[a].slow}

First == IF original \in OpenStatus THEN "offered" ELSE "closed"

Checkouts == INSTANCE HostedCheckouts WITH
    status <- order.status, first <- First, checkout <- Checkout,
    awaited <- Awaited, late <- Slow, cancelling <- view.on, marked <- Known

(* However continuations, cancellations, the job and the webhooks race and *)
(* whatever the provider's calls outlast, the customer sees the checkouts  *)
(* of HostedCheckouts: no second replacement beside one that was answered  *)
(* in time, each answer applied once, and none that offers a checkout for  *)
(* an order that was paid or closed while the provider was thinking; and a *)
(* cancellation closes what was open when it was asked, or does nothing.   *)
ImplementsCheckouts == Checkouts!Spec

(* A creation under way has a continuation that will end it, unless that   *)
(* one died, and has no checkout yet.                                      *)
CreationsAreHeld ==
    \A a \in Attempt :
       attempt[a].status = "CREATING" =>
          ~attempt[a].made /\ a \in Awaited \cup lost

(* The expiry of attempts never takes effect: the second update of the     *)
(* lifecycle job seeks PENDING orders after the first has closed them.     *)
NoAttemptExpires == \A a \in Attempt : attempt[a].status # "EXPIRED"

(* Every pending order is paid, cancelled or closed by the lifecycle job.  *)
EveryOrderCloses == order.status = "PENDING" ~> order.status \in Closed

(* Every creation comes to an end, unless the process that makes it dies.  *)
EveryCreationEnds ==
    \A a \in Attempt :
       attempt[a].status = "CREATING"
          ~> attempt[a].status # "CREATING" \/ a \in lost

(* Stated by apps/web/scheduler/job-definitions.ts:10 ("Expires abandoned  *)
(* orders and attempts"): an attempt past the cutoff when the job closes   *)
(* its order is not open afterwards.                                       *)
AbandonedAttemptsExpire == \A a \in swept : ~Open(a)
=============================================================================
