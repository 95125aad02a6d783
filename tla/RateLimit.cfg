CONSTANTS
  ana = ana  bia = bia  a1 = a1  a2 = a2  b1 = b1
  Users = {ana}
  Global = Global
  Calls = {a1}
  CallerOf <- OneCall
  LastDay = 1
  GlobalCap = 2
  UserCap = 2
  Enforced = TRUE
  MaxAttempts = 2
  Answers = {"success", "rateLimited", "error", "rejected"}
  NoRow = NoRow
  Unset = Unset  Malformed = Malformed  Refused = Refused
SPECIFICATION Spec
INVARIANTS RateLimitNeverRetried
