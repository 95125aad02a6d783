CONSTANTS
  ana = ana  bia = bia  a1 = a1  a2 = a2  b1 = b1
  Users = {ana, bia}
  Global = Global
  Calls = {a1, a2, b1}
  CallerOf <- ThreeCalls
  LastDay = 3
  GlobalCap = 3
  UserCap = 2
  Enforced = TRUE
  MaxAttempts = 2
  Answers = {"success"}
  NoRow = NoRow
  Unset = Unset  Malformed = Malformed  Refused = Refused
SPECIFICATION MCSpec
INVARIANTS BudgetInv ReservationsMatchAttempts ReportsExplained
PROPERTIES ImplementsBudget CallsEnd
