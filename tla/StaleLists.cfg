CONSTANTS
  first = first  t1 = t1  t2 = t2  t3 = t3
  Tasks = {first, t1, t2}
  First = first
  MaxSessions = 2
  MaxChanges = 1
SPECIFICATION Spec
INVARIANTS ListsBelong
