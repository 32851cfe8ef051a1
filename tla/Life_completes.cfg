SPECIFICATION FairSpec
CONSTANTS
  c1 = c1
  c2 = c2
  p1 = p1
  p2 = p2
  t1 = t1
  d1 = d1
  d2 = d2
  s1 = s1
  s2 = s2
  None = None
  Creators = {c1}
  Pushers = {}
  Taggers = {}
  Deleters = {d1, d2}
  Sweepers = {s1, s2}
  MaxGen = 1
  MaxFaults = 2
  MayDie = TRUE
INVARIANTS
  DeletingIsQueued
PROPERTIES
  DeletionCompletes
CHECK_DEADLOCK FALSE
