CONSTANTS
  Asker = {r1, r2, r3}
  Caller = {r1, r2, r3, v1}
  r1 = r1
  r2 = r2
  r3 = r3
  v1 = v1
  t1 = t1
  t2 = t2
  Tenant <- MCTenant
  Database <- MCTenant
  q1 = q1
  Question = {q1}
  StockCalls <- MCStockCalls
  Limit = 2
  NoFlight = NoFlight
  NoResult = NoResult
  NoPool = NoPool
  Nobody = Nobody
  Closer = Closer
  Request = {r1, r2, r3}
  Doc = {d1, d2}
  Page = {p1, p2}
  NoRequest = NoRequest
  d1 = d1
  d2 = d2
  p1 = p1
  p2 = p2
  Calls <- MCImageCalls
SPECIFICATION MCFairSpec
INVARIANTS
  BothTypeOK
  FlightsAreSound
  PoolsAreSound
  SlotsAccounted
  OneSnapshot
  DivergenceIsReported
PROPERTIES
  ImplementsSlots
  StockAnswered
  Answered
CHECK_DEADLOCK FALSE
