CONSTANTS
  Request = {r1, r2, r3}
  Key = {k1, k2}
  Body = {b1, b2}
  NoBody = NoBody
  NoRequest = NoRequest
  k1 = k1
  k2 = k2
  b1 = b1
  b2 = b2
  Jobs <- MCJobs
SPECIFICATION FairSpec
INVARIANTS
  TypeOK
  OneLogRow
  StatusIsTrue
PROPERTIES
  LoggedOnce
  CallsEnd
CHECK_DEADLOCK FALSE
