CONSTANTS
  Writer = {r1, r2}
  Signer = {s1}
  va = va
  vb = vb
  Value = {va, vb}
  Supplier = {vb}
  Unlocked = Unlocked
  Desktop = Desktop
  Erp = Erp
  NoValue = NoValue
  NoRow = NoRow
  NoLogRow = NoLogRow
  NoHeader = NoHeader
  Updates <- MCUpdates
  Headers <- MCHeaders
  Caller = {r1, r2}
  Nobody = Nobody
  LastRow = 3
  LastDoc = 4
  MaxDepth = 2
  MaxNodes = 3
  Linkings <- MCLinkings
  Item = {va}
  LineNo = {vb}
  NoText = NoText
  Content = {va}
  Void = {none, zero}
  Rest = {va, vb}
  none = none
  zero = zero
  Lines <- MCLines
  MaxLines = 3
  Weight = {1, 2, 3}
  MaxComponents = 4
  MaxNet = 9
  MaxVat = 3
  Request = {r1, r2}
  Order = {o1, o2}
  Invoice = {i1, i2}
  LastNumber = 2
  NoNumber = NoNumber
  NoInvoice = NoInvoice
  NoOrder = NoOrder
  NoReceipt = NoReceipt
  o1 = o1
  o2 = o2
  i1 = i1
  i2 = i2
  OrderOf <- MCOrderOf
  Calls <- MCReceiptCalls
  Client = {r1, r2}
  ErpUser = ErpUser
  Nil = Nil
  LastSeq = 2
  FirstLong = 2
  LineCount = 2
SPECIFICATION MCSpec
SYMMETRY Symmetry
INVARIANTS
  PartsTypeOK
  OrderAnswersHold
  TenantIsSafe
  TenantGetsReady
  VerdictIsRight
  AnswerIsRight
  DiffIsRight
  SplitIsFair
  ReceiptsAreSound
  DocumentsAreSound
PROPERTIES
  ReplacesWhatItReports
CHECK_DEADLOCK FALSE
