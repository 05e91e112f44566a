--------------------------- MODULE OrderLifecycle ---------------------------
(***************************************************************************)
(* What commerce promises about an order, whatever webhooks, retries and   *)
(* crashes lie underneath: the effective state machine of                  *)
(* docs/phase-reports/phase-4.2-maintainability-audit.md:80, with the      *)
(* invoice and the durable right of the buyer moving in the same           *)
(* transaction as the order.  Payments implements it.                      *)
(***************************************************************************)
CONSTANTS Order,  \* orders
          Owned   \* orders whose right is granted to the buyer's account

VARIABLES status, invoice, rights

vars == <<status, invoice, rights>>

Init ==
    /\ status = [o \in Order |-> "NONE"]
    /\ invoice = [o \in Order |-> "NONE"]
    /\ rights = {}

Place(o) ==
    /\ status[o] = "NONE"
    /\ status' = [status EXCEPT ![o] = "PENDING"]
    /\ invoice' = [invoice EXCEPT ![o] = "DRAFT"]
    /\ UNCHANGED rights

(* The customer cancels one order, the lifecycle job every abandoned one.  *)
Cancel(O) ==
    /\ \A o \in O : status[o] = "PENDING"
    /\ status' = [o \in Order |-> IF o \in O THEN "CANCELLED" ELSE status[o]]
    /\ UNCHANGED <<invoice, rights>>

(* A capture the provider confirms wins over a local cancellation.         *)
Settle(o) ==
    /\ status[o] \in {"PENDING", "CANCELLED"}
    /\ status' = [status EXCEPT ![o] = "PAID"]
    /\ invoice' = [invoice EXCEPT ![o] = "FINAL"]
    /\ rights' = rights \cup ({o} \cap Owned)

Refund(o) ==
    /\ status[o] = "PAID"
    /\ status' = [status EXCEPT ![o] = "REFUNDED"]
    /\ invoice' = [invoice EXCEPT ![o] = "VOID"]
    /\ rights' = rights \ {o}

Next ==
    \/ \E o \in Order : Place(o) \/ Settle(o) \/ Refund(o)
    \/ \E O \in SUBSET Order : Cancel(O)

Spec == Init /\ [][Next]_vars
=============================================================================
