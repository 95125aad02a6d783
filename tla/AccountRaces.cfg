SPECIFICATION MCSpec
CONSTANTS
  ana = ana
  bia = bia
  p1 = p1
  p2 = p2
  r1 = r1
  r2 = r2
  r3 = r3
  r4 = r4
  Absent = Absent
  Emails = {ana, bia}
  Passwords = {p1, p2}
  Requests = {r1, r2, r3, r4}
  InitialAccounts <- MCInitial
SYMMETRY AnyRequest
INVARIANTS
  VersionsNameChanges
  AccountsInv
  DeadNotPresented
PROPERTIES
  AdmittedOnCurrentPassword
  SignedOutForCause
CHECK_DEADLOCK FALSE
