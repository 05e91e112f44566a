-------------------------- MODULE RetainedObjects --------------------------
(***************************************************************************)
(* What the shop promises about the private objects of a product, whatever *)
(* workers, sweeps, retries and late marks clean up behind it: an object   *)
(* that is in use leaves the bucket only after the deletion of the product *)
(* was asked for, and the product leaves only unsold and with everything   *)
(* gone that was condemned.  An image whose key was typed in by hand is    *)
(* not an object in use.  StorageCleanup implements it.                    *)
(***************************************************************************)
CONSTANTS Object

VARIABLES
    phase,     \* of the product: "kept", "leaving" or "gone"
    sold,      \* the product has commercial history
    used,      \* the objects the product refers to
    stored,    \* the objects in the bucket
    condemned  \* the objects that some job was queued for

vars == <<phase, sold, used, stored, condemned>>

Init ==
    /\ phase = "kept"
    /\ sold \in BOOLEAN
    /\ used \subseteq Object
    /\ stored = used
    /\ condemned = {}

Sell ==
    /\ phase # "gone"
    /\ sold' = TRUE
    /\ UNCHANGED <<phase, used, stored, condemned>>

(* An upload has a name that was never used or condemned.                  *)
Put(o) ==
    /\ o \notin stored \cup used \cup condemned
    /\ stored' = stored \cup {o}
    /\ UNCHANGED <<phase, sold, used, condemned>>

(* What was uploaded takes the place of those in Old, unless somebody has  *)
(* named it by hand meanwhile; what is condemned is what the uploader had  *)
(* seen, which another may have replaced.                                  *)
Replace(New, Old, Seen) ==
    /\ phase # "gone"
    /\ New \subseteq stored \ (used \cup condemned \cup Seen)
    /\ used' = (used \ Old) \cup New
    /\ condemned' = condemned \cup Seen
    /\ UNCHANGED <<phase, sold, stored>>

(* The image is named by hand: the one that was is no longer in use.       *)
Forget(O) ==
    /\ phase # "gone"
    /\ used' = used \ O
    /\ UNCHANGED <<phase, sold, stored, condemned>>

(* An installer is removed, an upload that failed is given up.             *)
Drop(o) ==
    /\ phase # "gone"
    /\ used' = used \ {o}
    /\ condemned' = condemned \cup {o}
    /\ UNCHANGED <<phase, sold, stored>>

RequestDeletion(O) ==
    /\ phase # "gone" /\ ~sold
    /\ phase' = "leaving"
    /\ used \subseteq O
    /\ condemned' = condemned \cup O
    /\ UNCHANGED <<sold, used, stored>>

Erase(o) ==
    /\ o \in stored
    /\ o \in used => phase # "kept" /\ o \in condemned
    /\ stored' = stored \ {o}
    /\ UNCHANGED <<phase, sold, used, condemned>>

Finish ==
    /\ phase = "leaving" /\ ~sold
    /\ condemned \cap stored = {}
    /\ phase' = "gone"
    /\ UNCHANGED <<sold, used, stored, condemned>>

Next ==
    \/ Sell \/ Finish
    \/ \E o \in Object : Put(o) \/ Drop(o) \/ Erase(o)
    \/ \E New, Old, Seen \in SUBSET Object : Replace(New, Old, Seen)
    \/ \E O \in SUBSET Object : Forget(O) \/ RequestDeletion(O)

Spec == Init /\ [][Next]_vars
=============================================================================
