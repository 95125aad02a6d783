CONSTANTS
  s1 = s1  s2 = s2  c1 = c1  c2 = c2  acme = acme  bolt = bolt
  un = un  cx = cx  k1 = k1  k2 = k2  clerk = clerk  outsider = outsider
  Stocks = {s1, s2}
  Codes = {c1, c2}
  Suppliers = {acme, bolt}
  Units = {un, cx}
  AccessKeys = {k1, k2}
  Users = {clerk, outsider}
  OwnerOf <- EachTheirOwn
  Granted = {}
  Uploads = {u1, u2}
  Decisions = {d1, d2}
  MaxItems = 2
  NoSupplier = NoSupplier
  Absent = Absent
  Requests <- AnyRequest
  Documents <- ResemblingDocuments
  InitialProducts <- KnownStock
SPECIFICATION Spec
INVARIANTS StockExact StocksIsolated
PROPERTIES DecisionsFinal
