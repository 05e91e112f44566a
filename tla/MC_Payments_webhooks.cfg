SPECIFICATION Spec
CONSTANTS
  s = s
  r = r
  g = g
  ps = ps
  pr = pr
  pg = pg
  paid1 = paid1
  paid2 = paid2
  fail = fail
  refund = refund
  rpaid = rpaid
  rpaid2 = rpaid2
  rrefund = rrefund
  gpaid = gpaid
  grefund = grefund
  bad = bad
  odd = odd
  Process = {p1, p2}
  Order = {s}
  Payment = {ps}
  Event = {paid1, fail, refund, odd}
  Kind <- MCKind
  OrderOf <- MCOrderOf
  PaymentOf <- MCPaymentOf
  Matching <- MCMatching
  Gift = {}
  Renews <- MCRenews
  Discounted = {s}
  MaxRedemptions = 1
  Incidents = {"abort", "crash", "replay", "acknowledge"}
  MaxIncident = 2
SYMMETRY ProcessSymmetry
INVARIANTS
  TypeOK
  CommerceAgrees
  ProcessedMeansApplied
PROPERTIES
  ImplementsLifecycle
