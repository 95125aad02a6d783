CONSTANTS
  s1 = s1  s2 = s2  c1 = c1  c2 = c2  acme = acme  bolt = bolt
  un = un  cx = cx  k1 = k1  k2 = k2  clerk = clerk  outsider = outsider
  Stocks = {s1}
  Codes = {c1, c2}
  Suppliers = {acme, bolt}
  Units = {un, cx}
  AccessKeys = {k1, k2}
  Users = {clerk}
  OwnerOf <- OthersStock
  Granted <- ClerkGranted
  Uploads = {u1, u2}
  Decisions = {d1}
  MaxItems = 2
  NoSupplier = NoSupplier
  Absent = Absent
  Requests <- ClerkOnly
  Documents <- ConflictingDocuments
  InitialProducts <- LegacyStock
SPECIFICATION FairSpec
INVARIANTS StockExact InvoiceAllOrNothing AuditedLinesEntered SuggestionsResolve ReceivingInv
PROPERTIES ImplementsContract RequestsEnd
