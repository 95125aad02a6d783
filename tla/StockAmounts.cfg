SPECIFICATION Spec
CONSTANTS
  Processes = {p1, p2, p3}
  Invoices <- Samples
  Absent = Absent
  Null = Null
SYMMETRY Anyone
INVARIANTS AmountsInv AuditTells
CHECK_DEADLOCK FALSE
