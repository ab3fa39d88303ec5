CONSTANTS
  Request = {r1, r2, r3}
  Key = {k1}
  Core = {c1, c2}
  Header = {h1, h2}
  Fine = {f1, f2}
  Edited = Edited
  Erp = Erp
  NoDoc = NoDoc
  NoHash = NoHash
  k1 = k1
  k2 = k2
  c1 = c1
  c2 = c2
  h1 = h1
  h2 = h2
  f1 = f1
  f2 = f2
  Calls <- RaceCalls
SPECIFICATION Spec
INVARIANT OnePayload
CHECK_DEADLOCK FALSE
