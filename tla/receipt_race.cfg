CONSTANTS
  Request = {r1, r2}
  Order = {o1, o2}
  Invoice = {i1, i2}
  LastNumber = 2
  NoNumber = NoNumber
  NoInvoice = NoInvoice
  NoOrder = NoOrder
  Erp = Erp
  NoReceipt = NoReceipt
  o1 = o1
  o2 = o2
  i1 = i1
  i2 = i2
  OrderOf <- MCOrderOf
  Calls <- MCOneInvoice
SPECIFICATION Spec
INVARIANTS
  PaidOnce
CHECK_DEADLOCK FALSE
