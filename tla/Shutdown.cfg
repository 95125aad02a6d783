CONSTANTS
  r1 = r1  r2 = r2  k1 = k1  k2 = k2
  Calls = {r1, r2}
  Checks = {k1, k2}
  Ttl = 2
SPECIFICATION FairLifecycle
INVARIANTS ExitCodeTells DatabaseClosedLast
PROPERTIES HealthyAnswersFresh ShutdownEnds
