-------------------------- MODULE HostedCheckouts --------------------------
(***************************************************************************)
(* What the customer is promised about the checkouts of one order, without *)
(* continuations, transactions and clocks.  The order has a checkout of    *)
(* its own from the start.  Of others to replace it the provider is asked  *)
(* for one at a time, unless it was late with every other that is open; an *)
(* answer counts once, and offers nothing when the order has been paid or  *)
(* closed meanwhile.  A cancellation closes what was open when the         *)
(* customer asked for it, or nothing at all.  PendingOrders implements it. *)
(***************************************************************************)
CONSTANT Attempt

VARIABLES
    status,     \* of the order
    first,      \* the checkout of its own: "offered" or "closed"
    checkout,   \* of each attempt: "none", "asked", "offered" or "closed"
    awaited,    \* attempts whose answer is still expected
    late,       \* attempts whose answer took too long
    cancelling, \* the customer has asked to cancel
    marked      \* the attempts that were open then

vars == <<status, first, checkout, awaited, late, cancelling, marked>>

Request == <<cancelling, marked>>

Init ==
    /\ status = "PENDING"
    /\ first = "offered"
    /\ checkout = [a \in Attempt |-> "none"]
    /\ awaited = {}
    /\ late = {}
    /\ cancelling = FALSE
    /\ marked = {}

Open(a) == checkout[a] \in {"asked", "offered"}

Close(C) == [a \in Attempt |-> IF a \in C THEN "closed" ELSE checkout[a]]

(* Those in Given are given up for it.                                     *)
Ask(a, Given) ==
    /\ status = "PENDING"
    /\ checkout[a] = "none"
    /\ \A b \in Attempt : Open(b) => b \in late
    /\ \A b \in Given : checkout[b] = "asked"
    /\ checkout' = [Close(Given) EXCEPT ![a] = "asked"]
    /\ awaited' = awaited \cup {a}
    /\ UNCHANGED <<status, first, late, Request>>

(* An answer reopens what was closed only if it was late.                  *)
Answer(a) ==
    /\ a \in awaited
    /\ awaited' = awaited \ {a}
    /\ status = "PENDING" => checkout[a] = "asked" \/ a \in late
    /\ checkout' = [checkout EXCEPT ![a] =
                      IF status = "PENDING" THEN "offered" ELSE "closed"]
    /\ UNCHANGED <<status, first, late, Request>>

(* No answer will come: the checkout is closed, or left as it is.          *)
Miss(a) ==
    /\ a \in awaited
    /\ awaited' = awaited \ {a}
    /\ checkout' \in {checkout, Close({a})}
    /\ UNCHANGED <<status, first, late, Request>>

Delay(a) ==
    /\ checkout[a] = "asked"
    /\ late' = late \cup {a}
    /\ UNCHANGED <<status, first, checkout, awaited, Request>>

(* The payment of a checkout that was offered once fails.                  *)
Decline(a) ==
    /\ status # "PAID"
    /\ a \notin awaited
    /\ checkout[a] \in {"offered", "closed"}
    /\ checkout' = Close({a})
    /\ UNCHANGED <<status, first, awaited, late, Request>>

DeclineFirst ==
    /\ status # "PAID"
    /\ first' = "closed"
    /\ UNCHANGED <<status, checkout, awaited, late, Request>>

(* The customer asks to cancel.                                            *)
AskCancel ==
    /\ ~cancelling
    /\ status = "PENDING"
    /\ cancelling' = TRUE
    /\ marked' = {a \in Attempt : Open(a)}
    /\ UNCHANGED <<status, first, checkout, awaited, late>>

(* The order is cancelled: what was open when the customer asked still is, *)
(* and is closed.                                                          *)
Withdraw ==
    /\ cancelling
    /\ status = "PENDING"
    /\ \A a \in marked : Open(a)
    /\ status' = "CANCELLED"
    /\ first' = "closed"
    /\ checkout' = Close(marked)
    /\ cancelling' = FALSE
    /\ marked' = {}
    /\ UNCHANGED <<awaited, late>>

(* It is not, and nothing has changed.                                     *)
Refuse ==
    /\ cancelling
    /\ cancelling' = FALSE
    /\ marked' = {}
    /\ UNCHANGED <<status, first, checkout, awaited, late>>

(* The order is closed for its age, or paid.                               *)
Expire ==
    /\ status = "PENDING"
    /\ status' = "CANCELLED"
    /\ UNCHANGED <<first, checkout, awaited, late, Request>>

Pay ==
    /\ status # "PAID"
    /\ status' = "PAID"
    /\ UNCHANGED <<first, checkout, awaited, late, Request>>

Next ==
    \/ \E a \in Attempt, Given \in SUBSET late : Ask(a, Given)
    \/ \E a \in Attempt : Answer(a) \/ Miss(a) \/ Delay(a) \/ Decline(a)
    \/ DeclineFirst \/ AskCancel \/ Withdraw \/ Refuse \/ Expire \/ Pay

Spec == Init /\ [][Next]_vars
=============================================================================
