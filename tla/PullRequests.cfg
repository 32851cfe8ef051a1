SPECIFICATION Spec
CONSTANTS
  m1 = m1
  m2 = m2
  r1 = r1
  r2 = r2
  au = au
  Mergers = {m1, m2}
  Reviewers = {r1, r2}
  Author = au
  Bases = {"main", "next"}
  Default = "main"
  Rules <- SomeRules
  Bounds <- SomeBounds
  Contexts = {"ci"}
  Methods <- SquashOrResolve
  OwnersFile <- OneOwner
  Changed = {"src"}
INVARIANTS
  MergedWasEvaluated
  MergedIsInBase
  MergedOnce
CHECK_DEADLOCK FALSE
