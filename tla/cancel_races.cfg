CONSTANTS
  Request = {r1, r2, r3}
  Invoice = {i1}
  Order = {}
  DocNo = {n1, n2}
  Intent = {pay1, pay2}
  LastMinute = 1
  NoRequest = NoRequest
  NoHash = NoHash
  i1 = i1
  i2 = i2
  o1 = o1
  n1 = n1
  n2 = n2
  pay1 = pay1
  pay2 = pay2
  Calls <- InvoiceCalls
SYMMETRY Symmetry
SPECIFICATION Spec
INVARIANTS
  SourcesAreSafe
  TypeOK
  AnswersAreTrue
PROPERTIES
  CancelledOnce
  RetryRecognised
CHECK_DEADLOCK FALSE
