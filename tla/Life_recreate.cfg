SPECIFICATION Spec
CONSTANTS
  c1 = c1
  c2 = c2
  p1 = p1
  p2 = p2
  t1 = t1
  d1 = d1
  d2 = d2
  s1 = s1
  s2 = s2
  None = None
  Creators = {c1}
  Pushers = {p1}
  Taggers = {t1}
  Deleters = {d1}
  Sweepers = {s1}
  MaxGen = 2
  MaxFaults = 1
  MayDie = TRUE
INVARIANTS
  ActiveIsUsable
  KeptUntilElapsed
PROPERTIES
  StartsEmpty
CHECK_DEADLOCK FALSE
