CONSTANTS
  Request = {r1, r2}
  Invoice = {i1}
  Order = {}
  DocNo = {n1, n2}
  Intent = {pay1, pay2}
  LastMinute = 0
  NoRequest = NoRequest
  NoHash = NoHash
  i1 = i1
  i2 = i2
  o1 = o1
  n1 = n1
  n2 = n2
  pay1 = pay1
  pay2 = pay2
  Calls <- InvoiceCalls
SPECIFICATION Spec
INVARIANT RacesAreConflicts
CHECK_DEADLOCK FALSE
