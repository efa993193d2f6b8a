SPECIFICATION Spec
CONSTANTS
  o1 = o1  o2 = o2  p1 = p1  p2 = p2
  r1 = r1  r2 = r2
  Requests <- TwoRequests
  Orders = {o1, o2}
  Products = {p1, p2}
  Lines <- TwoLines
  WithCoupon = {o1, o2}
  UsageLimit = 1
  InitialStock = 1
  MaxIntents = 2
  MaxFailures = 1
  NoIntent = NoIntent
CONSTRAINT OneTrouble
SYMMETRY RequestSymmetry
INVARIANTS TypeOK CountsConserved PaidFirst
