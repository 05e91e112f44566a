----------------------------- MODULE MC_Backups -----------------------------
(* Instances of Backups for TLC.                                           *)
EXTENDS Backups

(* Of what two creations leave behind nothing is claimed: not explored.    *)
NoClash == ~clash

(* The claims of an operation that is disputed are not followed beyond     *)
(* MaxAttempts, as those of the others must not go.                        *)
DisputesEnd == \A o \in Operation : op[o].disputed => op[o].attempts <= MaxAttempts
=============================================================================
