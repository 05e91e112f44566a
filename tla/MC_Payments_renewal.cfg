SPECIFICATION Spec
CONSTANTS
  s = s
  r = r
  g = g
  ps = ps
  pr = pr
  pg = pg
  paid1 = paid1
  paid2 = paid2
  fail = fail
  refund = refund
  rpaid = rpaid
  rpaid2 = rpaid2
  rrefund = rrefund
  gpaid = gpaid
  grefund = grefund
  bad = bad
  odd = odd
  Process = {p1, p2}
  Order = {s, r, g}
  Payment = {ps, pr, pg}
  Event = {paid1, rpaid, rrefund, gpaid, grefund}
  Kind <- MCKind
  OrderOf <- MCOrderOf
  PaymentOf <- MCPaymentOf
  Matching <- MCMatching
  Gift = {g}
  Renews <- MCRenews
  Discounted = {r, g}
  MaxRedemptions = 1
  Incidents = {"abort"}
  MaxIncident = 1
SYMMETRY ProcessSymmetry
INVARIANTS
  PeriodsArePaidOnce
  AccessIsPaid
