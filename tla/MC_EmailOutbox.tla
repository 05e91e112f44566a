--------------------------- MODULE MC_EmailOutbox ---------------------------
(* Instances of EmailOutbox for TLC.                                       *)
EXTENDS EmailOutbox
=============================================================================
