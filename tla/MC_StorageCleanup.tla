------------------------- MODULE MC_StorageCleanup -------------------------
(* Instances of StorageCleanup for TLC.                                    *)
EXTENDS StorageCleanup

MCBackoff == [n \in 1..(MaxAttempts - 1) |-> 1]
=============================================================================
