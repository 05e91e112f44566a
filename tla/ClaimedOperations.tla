-------------------------- MODULE ClaimedOperations --------------------------
(***************************************************************************)
(* What the rows of BackupOperation promise as long as nobody disputes a   *)
(* claim: one worker at a time executes an operation, at most MaxAttempts  *)
(* are made of it, a failure is final.  Backups implements it.             *)
(***************************************************************************)
EXTENDS Naturals

CONSTANTS Worker, Operation, MaxAttempts

VARIABLES
    state,   \* none, waiting, running, done, failed, or disputed
    tries,   \* attempts made
    hands    \* the workers that execute it

vars == <<state, tries, hands>>

Init ==
    /\ state \in [Operation -> {"none", "waiting"}]
    /\ tries = [o \in Operation |-> 0]
    /\ hands = [o \in Operation |-> {}]

To(o, s) == state' = [state EXCEPT ![o] = s]
Hand(o, H) == hands' = [hands EXCEPT ![o] = H]

Request(o) ==
    /\ state[o] = "none"
    /\ To(o, "waiting")
    /\ UNCHANGED <<tries, hands>>

Claim(o, w) ==
    /\ state[o] = "waiting" /\ tries[o] < MaxAttempts /\ hands[o] = {}
    /\ To(o, "running")
    /\ tries' = [tries EXCEPT ![o] = tries[o] + 1]
    /\ Hand(o, {w})

(* The worker is done, or has yet to take its success back.                *)
Succeed(o, w) ==
    /\ state[o] = "running" /\ hands[o] = {w}
    /\ To(o, "done")
    /\ Hand(o, {}) \/ UNCHANGED hands
    /\ UNCHANGED tries

Fail(o, w) ==
    /\ state[o] \in {"running", "done"} /\ hands[o] = {w}
    /\ To(o, "failed") \/ (tries[o] < MaxAttempts /\ To(o, "waiting"))
    /\ Hand(o, {})
    /\ UNCHANGED tries

(* The worker dies, or fails to report how it ended.                       *)
Leave(o, w) ==
    /\ state[o] \in {"running", "done"} /\ hands[o] = {w}
    /\ Hand(o, {})
    /\ UNCHANGED <<state, tries>>

Recover(o) ==
    /\ state[o] = "running" /\ hands[o] = {}
    /\ To(o, IF tries[o] < MaxAttempts THEN "waiting" ELSE "failed")
    /\ UNCHANGED <<tries, hands>>

(* A claim that lasts over an hour, a recovery that acts on an old list.   *)
Dispute(o) ==
    /\ state[o] \notin {"none", "disputed"}
    /\ To(o, "disputed")
    /\ tries' = [tries EXCEPT ![o] = 0]
    /\ Hand(o, {})

Next ==
    \E o \in Operation :
       \/ Request(o) \/ Recover(o) \/ Dispute(o)
       \/ \E w \in Worker : Claim(o, w) \/ Succeed(o, w) \/ Fail(o, w) \/ Leave(o, w)

Spec == Init /\ [][Next]_vars
=============================================================================
