--------------------------- MODULE LeasedDelivery ---------------------------
(***************************************************************************)
(* What the email outbox promises about its messages, without workers,     *)
(* batches, snapshots, marks or faults: a queue whose claims are leases.   *)
(* A message is delivered at least once and marked SENT at most once; only *)
(* a message that was claimed reaches the provider; nothing but a message  *)
(* of a retired type is ever given up.  EmailOutbox implements it.         *)
(***************************************************************************)
CONSTANTS Message,  \* messages
          Retired   \* those of retired types

VARIABLES
    phase,  \* where each message is
    taken   \* messages the provider took

vars == <<phase, taken>>

Init ==
    /\ phase = [m \in Message |-> IF m \in Retired THEN "fresh" ELSE "absent"]
    /\ taken = {}

(* The messages M go from the phase `from' to the phase `to' together.     *)
Move(M, from, to) ==
    /\ \A m \in M : phase[m] = from
    /\ phase' = [m \in Message |-> IF m \in M THEN to ELSE phase[m]]
    /\ UNCHANGED taken

(* A batch may claim when its own lease is over already.                   *)
Claim(m) ==
    /\ m \notin Retired
    /\ phase[m] \in {"fresh", "back"}
    /\ \E lease \in {"held", "lapsed"} : phase' = [phase EXCEPT ![m] = lease]
    /\ UNCHANGED taken

(* A claim that lapsed may be completed as long as nobody took it back.    *)
Complete(m) ==
    /\ phase[m] \in {"held", "lapsed"}
    /\ m \in taken
    /\ phase' = [phase EXCEPT ![m] = "sent"]
    /\ UNCHANGED taken

(* The provider may be called again for a claim that was taken back.       *)
Take(m) ==
    /\ phase[m] \in {"held", "lapsed", "back", "sent"}
    /\ taken' = taken \cup {m}
    /\ UNCHANGED phase

Next ==
    \/ \E m \in Message :
         Move({m}, "absent", "fresh") \/ Claim(m) \/ Complete(m) \/ Take(m)
    \/ \E M \in SUBSET Message : Move(M, "held", "lapsed") \/ Move(M, "lapsed", "back")
    \/ \E M \in SUBSET Retired : Move(M, "fresh", "dropped")

Spec == Init /\ [][Next]_vars
=============================================================================
