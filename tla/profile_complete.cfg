CONSTANTS
  Request = {r1, r2, r3}
  Key = {k1}
  Core = {c1}
  Header = {h1}
  Fine = {f1, f2}
  Edited = Edited
  Erp = Erp
  NoDoc = NoDoc
  NoHash = NoHash
  NoBody = NoBody
  NoRequest = NoRequest
  k1 = k1
  c1 = c1
  h1 = h1
  f1 = f1
  f2 = f2
  Calls <- MCCalls
SPECIFICATION ProfileSpec
SYMMETRY Symmetry
INVARIANTS
  CompleteIsComplete
  LogFollowsDocument
CHECK_DEADLOCK FALSE
