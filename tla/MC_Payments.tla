---------------------------- MODULE MC_Payments ----------------------------
(* Instances of Payments for TLC.  Order r renews the subscription of s;   *)
(* g is a gift.                                                            *)
EXTENDS Payments, TLC

CONSTANTS s, r, g, ps, pr, pg, paid1, paid2, fail, refund, rpaid, rpaid2,
          rrefund, gpaid, grefund, bad, odd

EventFact(e) ==
    CASE e \in {paid1, paid2} -> <<"paid", s, ps>>
      [] e = fail    -> <<"failed", s, ps>>
      [] e = refund  -> <<"refunded", s, ps>>
      [] e \in {rpaid, rpaid2} -> <<"paid", r, pr>>
      [] e = rrefund -> <<"refunded", r, pr>>
      [] e = gpaid   -> <<"paid", g, pg>>
      [] e = grefund -> <<"refunded", g, pg>>
      [] e = bad     -> <<"failed", s, ps>>
      [] e = odd     -> <<"unknown", s, ps>>

MCKind == [e \in Event |-> EventFact(e)[1]]
MCOrderOf == [e \in Event |-> EventFact(e)[2]]
MCPaymentOf == [e \in Event |-> EventFact(e)[3]]
MCMatching == Event \ {bad}
MCRenews == [o \in Order |-> IF o = r /\ s \in Order THEN s ELSE o]

ProcessSymmetry == Permutations(Process)
=============================================================================
